------------------------------ MODULE Settings ------------------------------
(***************************************************************************)
(* The page of settings: a form in each tab, mounted when its tab is first *)
(* shown and filled by the properties that every change of tabs asks for,  *)
(* and the buttons that start and stop the proxy.  Three tabs: the first,  *)
(* that of the proxy, and one of the others.  One property in each form    *)
(* stands for all; that of the proxy is its port.                          *)
(*                                                                         *)
(* The port with which the proxy is started is read from the first form,   *)
(* which keeps all properties of the last answer, shown or not.            *)
(***************************************************************************)
EXTENDS FiniteSets, Naturals

CONSTANTS
  Texts,     \* what is typed
  None,
  MaxPressed, \* bound on buttons pressed, tabs and languages chosen
  MaxHarm    \* bound on mishaps (Harms) in one behaviour

VARIABLES
  extra,     \* the form of the third tab
  tab,       \* the tab shown
  mounted,   \* tabs that were shown since the page was drawn
  contents,  \* what each form holds
  touched,   \* history: forms typed into since they were filled
  known,     \* the port among the properties of the first form
  props,     \* the properties stored
  gets,      \* requests for the properties
  puts,      \* saves under way
  proxy,     \* the port on which the proxy listens, the ports of proxies that
             \* were replaced while they listened, and whether the server died
  status,    \* whether the page says that the proxy runs
  cooling,   \* buttonLoading
  orders,     \* starts and stops under way
  checks,    \* requests for the status of the proxy
  pressed, harm

form == <<extra, tab, mounted, contents, touched, known>>
button == <<status, cooling, orders>>
vars == <<form, props, gets, puts, proxy, button, checks, pressed, harm>>

Harms == {"blank", "crossed", "saved", "twice", "late", "failed"}
Tabs == {"base", "proxy", "extra"}

\* What a form holds before it is filled; a field that holds nothing is not sent.
\* A form with a required field refuses a blank.
Form == [initial |-> "nothing", required |-> FALSE]
BaseForm == [Form EXCEPT !.initial = "blank"]
ProxyForm == [initial |-> "default", required |-> TRUE]
MailForm == Form
LogForm == [Form EXCEPT !.initial = "blank"]
LdapForm == Form
AiForm == [initial |-> "blank", required |-> TRUE]
OtherForm == Form
FormOf(t) == CASE t = "base" -> BaseForm [] t = "proxy" -> ProxyForm [] OTHER -> extra
Initials == [t \in Tabs |-> FormOf(t).initial]

Get == [got |-> None, old |-> FALSE]
Asked(rs) == rs \cup {Get}
Outdated(rs) == {[r EXCEPT !.old = r.got # None] : r \in rs}
Room == pressed < MaxPressed /\ pressed' = pressed + 1

\* componentDidMount asks for the properties.
Init ==
  /\ extra \in {MailForm, LogForm, LdapForm, AiForm, OtherForm}
  /\ tab = "base" /\ mounted = {"base"} /\ contents = Initials /\ touched = {}
  /\ known = None
  /\ \E t \in Texts : props = [x \in Tabs |-> t]
  /\ gets = Asked({}) /\ puts = {}
  /\ proxy \in [port : {None, props.proxy}, lost : {{}}, down : {FALSE}]
  /\ status = FALSE /\ cooling = FALSE /\ orders = {} /\ checks = {}
  /\ pressed = 0 /\ harm = {}

-----------------------------------------------------------------------------
\* handleOnTabChange
Choose(t) ==
  /\ t # tab /\ Room
  /\ tab' = t /\ mounted' = mounted \cup {t}
  /\ gets' = Asked(gets)
  /\ checks' = IF t = "proxy" THEN Asked(checks) ELSE checks
  /\ UNCHANGED <<extra, contents, touched, known, props, puts, proxy, button, harm>>

\* handleLanguageChange draws the tabs anew, the first of them shown.  Nothing is
\* asked for.
ChangeLanguage ==
  /\ Room
  /\ tab' = "base" /\ mounted' = {"base"} /\ contents' = Initials
  /\ touched' = {} /\ known' = None
  /\ UNCHANGED <<extra, props, gets, puts, proxy, button, checks, harm>>

Type(text) ==
  /\ contents[tab] # text
  /\ contents' = [contents EXCEPT ![tab] = text] /\ touched' = touched \cup {tab}
  /\ UNCHANGED <<extra, tab, mounted, known, props, gets, puts, proxy, button, checks,
                 pressed, harm>>

\* changeProperties.  The properties are not asked for again.
Submit ==
  /\ Room
  /\ contents[tab] # "nothing" /\ ~(FormOf(tab).required /\ contents[tab] = "blank")
  /\ puts' = puts \cup {[form |-> tab, value |-> contents[tab], typed |-> tab \in touched]}
  /\ harm' = harm \cup (IF known = None \/ contents[tab] = FormOf(tab).initial
                        THEN {"blank"} ELSE {})
                  \cup (IF \E p \in puts : p.form = tab THEN {"crossed"} ELSE {})
                  \cup (IF tab = "proxy" THEN {"saved"} ELSE {})
  /\ UNCHANGED <<form, props, gets, proxy, button, checks>>

Saved(p) ==
  /\ p \in puts /\ puts' = puts \ {p} /\ ~proxy.down
  /\ props' = [props EXCEPT ![p.form] = p.value]
  /\ gets' = Outdated(gets)
  /\ UNCHANGED <<form, proxy, button, checks, pressed, harm>>

Read(g) ==
  /\ g \in gets /\ g.got = None /\ ~proxy.down
  /\ gets' = (gets \ {g}) \cup {[g EXCEPT !.got = props]}
  /\ UNCHANGED <<form, props, puts, proxy, button, checks, pressed, harm>>

\* Altered: only the form that is shown is filled.
AlteredFilled(got) == [contents EXCEPT ![tab] = got[tab]]

\* getProperties: the forms that are mounted are filled, whatever was typed.
Filled(got) == [t \in Tabs |-> IF t \in mounted THEN got[t] ELSE contents[t]]

\* The properties arrive.
Got(g) ==
  /\ g \in gets /\ g.got # None /\ gets' = gets \ {g}
  /\ contents' = Filled(g.got) /\ touched' = {} /\ known' = g.got.proxy
  /\ harm' = IF g.old \/ puts # {} THEN harm \cup {"crossed"} ELSE harm
  /\ UNCHANGED <<extra, tab, mounted, props, puts, proxy, button, checks, pressed>>

-----------------------------------------------------------------------------
Call(what, port) ==
  /\ tab = "proxy" /\ ~cooling /\ Room
  /\ orders' = orders \cup {[what |-> what, port |-> port, done |-> FALSE]} /\ cooling' = TRUE
  /\ UNCHANGED <<form, props, gets, puts, proxy, status, checks, harm>>

\* Altered: the port of the form that is shown.
AlteredPort == contents.proxy

\* Without a port the server takes one of its own.
Port == IF known = None THEN "fallback" ELSE known

\* startMariaDBServer
Start == ~status /\ Call("start", Port)

StopProxy == status /\ Call("stop", None)

\* Two seconds later.
Cool ==
  /\ cooling /\ cooling' = FALSE
  /\ UNCHANGED <<form, props, gets, puts, proxy, status, orders, checks, pressed, harm>>

\* StartMariaDBProxy publishes a new proxy; one that cannot listen ends the
\* process.  StopMariaDBProxy stops the proxy that is published.
Listens == ({proxy.port} \ {None}) \cup proxy.lost
Execute(c) ==
  /\ c \in orders /\ ~c.done /\ ~proxy.down
  /\ orders' = (orders \ {c}) \cup {[c EXCEPT !.done = TRUE]}
  /\ checks' = Outdated(checks)
  /\ IF c.what = "stop" THEN proxy' = [proxy EXCEPT !.port = None] /\ harm' = harm
     ELSE /\ proxy' = IF c.port \in Listens THEN [proxy EXCEPT !.down = TRUE]
                      ELSE [proxy EXCEPT !.port = c.port, !.lost = Listens]
          /\ harm' = IF proxy.port # None THEN harm \cup {"twice"} ELSE harm
  /\ UNCHANGED <<form, props, gets, puts, status, cooling, pressed>>

\* Altered: the answer is not followed by a request for the status.
AlteredFollowed == checks

\* What is asked for after a start or a stop.
Followed == Asked(checks)

Answered(c) ==
  /\ c \in orders /\ c.done /\ orders' = orders \ {c} /\ ~proxy.down
  /\ checks' = Followed
  /\ UNCHANGED <<form, props, gets, puts, proxy, status, cooling, pressed, harm>>

\* statusMariaDBServer.
Check(s) ==
  /\ s \in checks /\ s.got = None /\ ~proxy.down
  /\ checks' = (checks \ {s}) \cup {[s EXCEPT !.got = proxy.port # None]}
  /\ UNCHANGED <<form, props, gets, puts, proxy, button, pressed, harm>>

\* An answer is late when none that was asked for later follows it.
Checked(s) ==
  /\ s \in checks /\ s.got # None /\ checks' = checks \ {s}
  /\ status' = s.got
  /\ harm' = IF s.old /\ orders = {} /\ \A r \in checks' : r.old THEN harm \cup {"late"} ELSE harm
  /\ UNCHANGED <<form, props, gets, puts, proxy, cooling, orders, pressed>>

\* A request is lost; the page stays as it is.
Lost ==
  /\ \/ \E g \in gets : gets' = gets \ {g} /\ UNCHANGED <<puts, orders, checks>>
     \/ \E p \in puts : puts' = puts \ {p} /\ UNCHANGED <<gets, orders, checks>>
     \/ \E c \in orders : orders' = orders \ {c} /\ UNCHANGED <<gets, puts, checks>>
     \/ \E s \in checks : checks' = checks \ {s} /\ UNCHANGED <<gets, puts, orders>>
  /\ harm' = IF orders' = orders /\ checks' = checks THEN harm ELSE harm \cup {"failed"}
  /\ UNCHANGED <<form, props, proxy, status, cooling, pressed>>

Step ==
  \/ \E t \in Tabs : Choose(t)
  \/ \E text \in Texts : Type(text)
  \/ ChangeLanguage \/ Submit \/ Start \/ StopProxy \/ Cool \/ Lost
  \/ \E p \in puts : Saved(p)
  \/ \E g \in gets : Read(g) \/ Got(g)
  \/ \E c \in orders : Execute(c) \/ Answered(c)
  \/ \E s \in checks : Check(s) \/ Checked(s)

Next == Step /\ Cardinality(harm') <= MaxHarm

Spec == Init /\ [][Next]_vars

-----------------------------------------------------------------------------
Values == Texts \cup {"blank", "default"}

\* Types.
TypeOK ==
  /\ tab \in mounted /\ mounted \subseteq Tabs /\ touched \subseteq mounted
  /\ contents \in [Tabs -> Values \cup {"nothing"}] /\ props \in [Tabs -> Values]
  /\ known \in Values \cup {None} /\ status \in BOOLEAN /\ cooling \in BOOLEAN
  /\ \A p \in puts : p.form \in Tabs /\ p.value \in Values
  /\ harm \subseteq Harms

\* A save leaves the properties that nobody typed as they are, unless the form was
\* saved before it was filled, or was filled by an answer that crossed a save, or
\* saved twice at once.
UntouchedIsKept ==
  harm \cap {"blank", "crossed"} = {} =>
    \A p \in puts : p.typed \/ p.value = props[p.form]

\* The proxy is started at the port that is stored, unless that was saved after it
\* was read, or never read.
StartsAsStored ==
  harm \cap {"blank", "crossed", "saved"} = {} =>
    \A c \in orders : c.what = "start" => c.port \in {props.proxy, "fallback"}

\* When nothing is under way the page tells whether the proxy runs, and the server
\* is up and has no proxy that nobody can stop, unless the proxy was started while
\* one ran, an answer was late or one was lost.
StatusIsTrue ==
  harm \cap {"twice", "late", "failed"} = {} =>
    /\ ~proxy.down /\ proxy.lost = {}
    /\ tab = "proxy" /\ orders = {} /\ checks = {} => (status <=> proxy.port # None)
=============================================================================
