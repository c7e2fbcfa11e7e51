---------------------------- MODULE MCEditorTabs ----------------------------
(* Small instances of EditorTabs for TLC. *)
EXTENDS EditorTabs
=============================================================================
