-------------------------- MODULE HttpProxyProofs --------------------------
(***************************************************************************)
(* Proofs about HttpProxy for any number of proxies, saves, editors and     *)
(* requests: what a Save promises of the running servers, and what a client *)
(* of a proxy is answered.                                                  *)
(***************************************************************************)
EXTENDS HttpProxy, TLAPS

-----------------------------------------------------------------------------
(* Saves. *)

Critical(e) == save[e].step \in {"check", "write", "apply"}
Applying(e) == save[e].step = "apply"

Servers == [Port -> [remote : Remote, policy : Nat] \cup {None}]
SaveRecord == [step : {"idle", "wait", "check", "write", "apply"}, proxies : Proxies,
               no : Nat, todo : SUBSET Port, restart : BOOLEAN]
Saves == [Editor -> SaveRecord]
Answered == [proxies : Proxies, no : Nat, restart : BOOLEAN]

Types ==
    /\ file \in [no : Nat, proxies : Proxies]
    /\ up \in BOOLEAN
    /\ server \in Servers
    /\ lock \in Editor \cup {None}
    /\ save \in Saves
    /\ told \in Answered \cup {None}

\* The servers a Save has not yet looked at are running ones.
Snapshot == \A e \in Editor : Applying(e) => save[e].todo \subseteq Running

\* save_lock keeps the Saves apart.
Locked == \A e \in Editor : Critical(e) => lock = e

\* A process that is down has forgotten everything.
Down == ~up => told = None /\ \A e \in Editor : save[e].step = "idle"

\* The file is the youngest, and the Save that applies it has not answered.
Youngest ==
    /\ \A p \in Running : server[p].policy <= file.no
    /\ told # None => told.no <= file.no
    /\ \A e \in Editor : Applying(e) =>
          /\ save[e].no = file.no /\ save[e].proxies = file.proxies
          /\ told # None => told.no < file.no
          /\ \A p \in (Running \cap Ports(file.proxies)) \ save[e].todo :
                server[p].policy = file.no

\* What restart_required counts, and what it should.
Off(p) ==
    IF server[p] = None THEN file.proxies[p] # None
    ELSE file.proxies[p] # server[p].remote
Counted(e) ==
    save[e].restart <=>
        \/ Ports(file.proxies) # Running
        \/ \E p \in Running \ save[e].todo : file.proxies[p] \notin {None, server[p].remote}

Counting == \A e \in Editor : Applying(e) => Counted(e)

LEMMA NoneApart ==
    /\ None \notin Remote /\ None \notin Editor
    /\ \A x \in [remote : Remote, policy : Nat] : x # None
    /\ \A x \in Answered : x # None
  BY NoneAssumption DEF Answered, Proxies

LEMMA Initially == SettingsInit => Types /\ Snapshot /\ Locked /\ Down /\ Youngest /\ Counting
<1> SUFFICES ASSUME SettingsInit PROVE Types /\ Snapshot /\ Locked /\ Down /\ Youngest /\ Counting
  OBVIOUS
<1>1. NoProxies \in Proxies /\ NoProxies \in Servers
  BY DEF NoProxies, Proxies, Servers
<1>2. NoSave \in SaveRecord
  BY <1>1 DEF NoSave, SaveRecord
<1>3. \A e \in Editor : save[e].step = "idle"
  BY DEF SettingsInit, NoSave
<1>4. Types
  <2>1. file \in [no : Nat, proxies : Proxies]
    BY ConfigAssumption DEF SettingsInit, Proxies
  <2>2. save \in Saves
    BY <1>2 DEF SettingsInit, Saves
  <2>3. QED
    BY <1>1, <2>1, <2>2 DEF SettingsInit, Types
<1>5. Running = {}
  BY DEF SettingsInit, Running, Ports, NoProxies
<1>6. Snapshot /\ Locked /\ Down /\ Counting
  BY <1>3 DEF SettingsInit, Snapshot, Locked, Critical, Down, Counting, Applying
<1>7. Youngest
  BY <1>3, <1>5 DEF SettingsInit, Youngest, Applying
<1>8. QED
  BY <1>4, <1>6, <1>7

\* The step of any one thread or of the process.
SettingsStep == SettingsNext \/ StopServers

\* A new policy leaves a server, and the others, what they are.
LEMMA PolicyTypes ==
    ASSUME server \in Servers, NEW p \in Port, NEW n \in Nat, server[p] # None
    PROVE  LET new == [server EXCEPT ![p].policy = n]
           IN  /\ new \in Servers
               /\ new[p].remote = server[p].remote /\ new[p].policy = n /\ new[p] # None
               /\ \A q \in Port \ {p} : new[q] = server[q]
<1>1. server[p] \in [remote : Remote, policy : Nat]
  BY DEF Servers
<1> DEFINE record == [server[p] EXCEPT !.policy = n]
           new == [server EXCEPT ![p].policy = n]
<1>2. /\ record \in [remote : Remote, policy : Nat]
      /\ record.remote = server[p].remote /\ record.policy = n
  BY <1>1
<1>3. new = [server EXCEPT ![p] = record]
  OBVIOUS
<1> HIDE DEF record
<1>4. new \in Servers /\ new[p] = record /\ \A q \in Port \ {p} : new[q] = server[q]
  BY <1>2, <1>3 DEF Servers
<1>5. QED
  BY <1>2, <1>4, NoneApart

LEMMA TypesStep == ASSUME Types, Snapshot, SettingsStep PROVE Types'
<1>1. NoProxies \in Proxies /\ NoProxies \in Servers
  BY DEF NoProxies, Proxies, Servers
<1>2. NoSave \in SaveRecord
  BY <1>1 DEF NoSave, SaveRecord
<1>3. CASE StartServers
  <2>1. file.no \in Nat /\ \A p \in Ports(file.proxies) : file.proxies[p] \in Remote
    BY DEF Types, Ports, Proxies
  <2>2. server' \in Servers
    BY <1>3, <2>1 DEF StartServers, Servers
  <2>3. QED
    BY <1>3, <2>2 DEF StartServers, Types
<1>4. CASE StopServers
  BY <1>1, <1>2, <1>4 DEF StopServers, Types, Saves
<1>5. ASSUME NEW e \in Editor, NEW proxies \in Config, Submit(e, proxies) PROVE Types'
  <2>1. proxies \in Proxies
    BY ConfigAssumption DEF Proxies
  <2>2. [NoSave EXCEPT !.step = "wait", !.proxies = proxies]
          \in SaveRecord
    BY <1>2, <2>1 DEF SaveRecord
  <2>3. QED
    BY <1>5, <2>2 DEF Submit, Types, Saves
<1>6. ASSUME NEW e \in Editor, Lock(e) \/ Check(e) PROVE Types'
  BY <1>6 DEF Lock, Check, Step, Types, Saves, SaveRecord
<1>7. ASSUME NEW e \in Editor, RefuseSave(e) PROVE Types'
  BY <1>2, <1>7 DEF RefuseSave, Unlock, Types, Saves
<1>8. ASSUME NEW e \in Editor, Replace(e) PROVE Types'
  <2>1. /\ file' \in [no : Nat, proxies : Proxies] /\ file.no + 1 \in Nat
        /\ Running \in SUBSET Port
    BY <1>8 DEF Replace, Types, Saves, SaveRecord, Running, Ports
  <2>2. [save[e] EXCEPT !.step = "apply", !.no = file.no + 1, !.todo = Running,
                        !.restart = Ports(save[e].proxies) # Running] \in SaveRecord
    <3>1. save[e] \in SaveRecord
      BY DEF Types, Saves
    <3>2. (Ports(save[e].proxies) # Running) \in BOOLEAN
      OBVIOUS
    <3>3. QED
      BY <2>1, <3>1, <3>2 DEF SaveRecord
  <2>3. save' \in Saves
    BY <1>8, <2>2 DEF Replace, Types, Saves
  <2>4. QED
    BY <1>8, <2>1, <2>3 DEF Replace, Types
<1>9. ASSUME NEW e \in Editor, NEW p \in Port, Apply(e, p) PROVE Types'
  <2>1. save[e] \in SaveRecord /\ save \in Saves
    BY DEF Types, Saves
  <2>2. save' \in Saves
    BY <1>9, <2>1 DEF Apply, Saves, SaveRecord, Differs
  <2>3. save[e].no \in Nat /\ server[p] # None
    BY <1>9 DEF Types, Saves, SaveRecord, Snapshot, Applying, Apply, Running, Ports
  <2>4. server' \in Servers
    BY <1>9, <2>3, PolicyTypes DEF Apply, Types
  <2>5. QED
    BY <1>9, <2>2, <2>4 DEF Apply, Types
<1>10. ASSUME NEW e \in Editor, Answer(e) PROVE Types'
  BY <1>2, <1>10 DEF Answer, Unlock, Types, Saves, SaveRecord, Answered
<1>11. QED
  BY <1>3, <1>4, <1>5, <1>6, <1>7, <1>8, <1>9, <1>10 DEF SettingsStep, SettingsNext

-----------------------------------------------------------------------------
(* What a Save promises. *)

Kept ==
    /\ Types /\ Snapshot /\ Locked /\ Down /\ Youngest /\ Counting
    /\ SavedIsInForce /\ RestartIsTold

\* Steps that change no file and no server leave everything but the lock alone.
LEMMA QuietStep ==
    ASSUME Kept, UNCHANGED <<file, server, told>>,
           \A e \in Editor : Applying(e)' => Applying(e) /\ save'[e] = save[e]
    PROVE  /\ Snapshot' /\ Youngest' /\ Counting'
           /\ SavedIsInForce' /\ RestartIsTold'
<1>1. Running' = Running
  BY DEF Running, Ports
<1>2. Snapshot'
  BY <1>1 DEF Kept, Snapshot
<1>3. Youngest'
  BY <1>1 DEF Kept, Youngest, Ports
<1>4. Counting'
  BY <1>1 DEF Kept, Counting, Counted, Ports
<1>5. SavedIsInForce' /\ RestartIsTold'
  BY <1>1 DEF Kept, SavedIsInForce, RestartIsTold, Ports
<1>6. QED
  BY <1>2, <1>3, <1>4, <1>5

LEMMA StartKeeps == ASSUME Kept, StartServers PROVE Kept'
<1>1. /\ told' = None /\ up' = TRUE /\ file' = file /\ lock' = lock /\ save' = save
      /\ \A e \in Editor : save[e].step = "idle"
  BY DEF Kept, Down, StartServers
<1>2. Types'
  BY TypesStep DEF Kept, SettingsStep, SettingsNext
<1>3. Snapshot' /\ Locked' /\ Down' /\ Counting'
  BY <1>1 DEF Kept, Snapshot, Locked, Down, Counting, Applying, Critical
<1>4. SavedIsInForce' /\ RestartIsTold'
  BY <1>1 DEF SavedIsInForce, RestartIsTold
<1>5. \A p \in Running' : server'[p].policy = file.no
  BY DEF StartServers, Running, Ports
<1>6. Youngest'
  BY <1>1, <1>5 DEF Kept, Types, Youngest, Applying
<1>7. QED
  BY <1>2, <1>3, <1>4, <1>6 DEF Kept

LEMMA StopKeeps == ASSUME Kept, StopServers PROVE Kept'
<1>1. /\ told' = None /\ up' = FALSE /\ Running' = {}
      /\ \A e \in Editor : save'[e].step = "idle"
  BY DEF StopServers, Running, Ports, NoProxies, NoSave
<1>2. Types'
  BY TypesStep DEF Kept, SettingsStep
<1>3. QED
  BY <1>1, <1>2 DEF Kept, Snapshot, Locked, Down, Counting, Youngest, SavedIsInForce,
                    RestartIsTold, Applying, Critical

LEMMA EnterKeeps ==
    ASSUME Kept, NEW e \in Editor,
           \/ \E proxies \in Config : Submit(e, proxies)
           \/ Lock(e) \/ Check(e) \/ RefuseSave(e)
    PROVE  Kept'
<1>1. Types' /\ save \in Saves /\ save[e] \in SaveRecord
  BY TypesStep DEF Kept, SettingsStep, SettingsNext, Types, Saves
<1>2. /\ UNCHANGED <<file, server, told, up>>
      /\ \A f \in Editor \ {e} : save'[f] = save[f]
      /\ save'[e].step # "apply"
      /\ up
  <2>1. CASE \E proxies \in Config : Submit(e, proxies)
    BY <1>1, <2>1 DEF Submit, Saves, SaveRecord, NoSave
  <2>2. CASE Lock(e) \/ Check(e)
    BY <1>1, <2>2 DEF Lock, Check, Step, Saves, SaveRecord, Kept, Down
  <2>3. CASE RefuseSave(e)
    BY <1>1, <2>3 DEF RefuseSave, Saves, SaveRecord, NoSave, Kept, Down
  <2>4. QED
    BY <2>1, <2>2, <2>3
<1>3. /\ Snapshot' /\ Youngest' /\ Counting'
      /\ SavedIsInForce' /\ RestartIsTold' /\ Down'
  BY <1>2, QuietStep DEF Applying, Down
<1>4. Locked'
  <2>1. CASE \E proxies \in Config : Submit(e, proxies)
    <3>1. lock' = lock /\ save'[e].step = "wait"
      BY <1>1, <2>1 DEF Submit, Saves, NoSave
    <3>2. QED
      BY <1>2, <3>1 DEF Kept, Locked, Critical
  <2>2. CASE Lock(e)
    <3>1. \A f \in Editor : ~Critical(f)
      BY <2>2, NoneApart DEF Lock, Kept, Locked
    <3>2. QED
      BY <1>2, <2>2, <3>1 DEF Lock, Locked, Critical
  <2>3. CASE Check(e)
    BY <1>1, <1>2, <2>3 DEF Check, Step, Saves, Kept, Locked, Critical
  <2>4. CASE RefuseSave(e)
    BY <1>1, <1>2, <2>4 DEF RefuseSave, Unlock, Saves, NoSave, Kept, Locked, Critical
  <2>5. QED
    BY <2>1, <2>2, <2>3, <2>4
<1>5. QED
  BY <1>1, <1>3, <1>4 DEF Kept

\* Only one Save is at work: what it does disturbs no other.
LEMMA OneAtWork ==
    ASSUME Locked, NEW e \in Editor, Critical(e)
    PROVE  lock = e /\ \A f \in Editor : Critical(f) => f = e
  BY DEF Locked

LEMMA ReplaceKeeps == ASSUME Kept, NEW e \in Editor, Replace(e) PROVE Kept'
<1>1. /\ Types' /\ save \in Saves /\ save[e] \in SaveRecord /\ file.no \in Nat
      /\ told # None => told.no \in Nat
  BY TypesStep DEF Kept, SettingsStep, SettingsNext, Types, Saves, Answered
<1>2. Critical(e) /\ lock = e /\ \A f \in Editor : Critical(f) => f = e
  BY OneAtWork DEF Kept, Replace, Critical
<1>3. /\ UNCHANGED <<server, told, up, lock>> /\ Running' = Running
      /\ \A f \in Editor \ {e} : save'[f] = save[f]
      /\ file'.no = file.no + 1 /\ file'.proxies = save[e].proxies
  BY <1>1 DEF Replace, Saves, Running, Ports
<1>4. /\ save'[e].step = "apply" /\ save'[e].no = file'.no
      /\ save'[e].proxies = file'.proxies /\ save'[e].todo = Running
      /\ save'[e].restart = (Ports(file'.proxies) # Running)
  BY <1>1, <1>3 DEF Replace, Saves, SaveRecord
<1>5. \A f \in Editor : Applying(f)' => f = e
  BY <1>2, <1>3 DEF Applying, Critical
<1>6. Locked' /\ Down' /\ Snapshot'
  BY <1>2, <1>3, <1>4, <1>5 DEF Kept, Locked, Down, Snapshot, Critical
<1>7. Youngest'
  <2>1. \A p \in Running' : server'[p].policy <= file'.no
    BY <1>1, <1>3 DEF Kept, Youngest, Types, Servers, Running, Ports
  <2>2. told' # None => told'.no < file'.no /\ told'.no <= file'.no
    BY <1>1, <1>3 DEF Kept, Youngest
  <2>3. QED
    BY <1>3, <1>4, <1>5, <2>1, <2>2 DEF Youngest
<1>8. Counting'
  BY <1>3, <1>4, <1>5 DEF Counting, Counted, Ports
<1>9. SavedIsInForce'
  BY <1>3 DEF Kept, SavedIsInForce, Ports
<1>10. RestartIsTold'
  <2>1. told' # None => told'.no # file'.no
    BY <1>1, <1>3 DEF Kept, Youngest
  <2>2. QED
    BY <2>1 DEF RestartIsTold
<1>11. QED
  BY <1>1, <1>6, <1>7, <1>8, <1>9, <1>10 DEF Kept

LEMMA ApplyKeeps ==
    ASSUME Kept, NEW e \in Editor, NEW p \in Port, Apply(e, p)
    PROVE  Kept'
<1>1. /\ Types' /\ save \in Saves /\ save[e] \in SaveRecord /\ file.no \in Nat
      /\ told # None => told.no \in Nat
  BY TypesStep DEF Kept, SettingsStep, SettingsNext, Types, Saves, Answered
<1>2. /\ Critical(e) /\ lock = e /\ \A f \in Editor : Critical(f) => f = e
      /\ Applying(e)
  BY OneAtWork DEF Kept, Apply, Critical, Applying
<1>3. /\ UNCHANGED <<file, told, up, lock>>
      /\ \A f \in Editor \ {e} : save'[f] = save[f]
      /\ p \in save[e].todo /\ p \in Running
      /\ save[e].no = file.no /\ save[e].proxies = file.proxies
  BY <1>1, <1>2 DEF Kept, Snapshot, Youngest, Apply, Saves
<1>4. /\ save'[e].step = "apply" /\ save'[e].no = file.no
      /\ save'[e].proxies = file.proxies /\ save'[e].todo = save[e].todo \ {p}
      /\ save'[e].restart = (save[e].restart \/ Differs(e, p))
  BY <1>1, <1>3 DEF Apply, Saves, SaveRecord
<1>5. /\ \A q \in Port : (server'[q] = None) <=> (server[q] = None)
      /\ \A q \in Running : server'[q].remote = server[q].remote
      /\ \A q \in Port \ {p} : server'[q] = server[q]
      /\ server'[p].policy = IF file.proxies[p] = None THEN server[p].policy ELSE file.no
  <2>1. server \in Servers /\ server[p] # None
    BY <1>3 DEF Kept, Types, Running, Ports
  <2>2. CASE file.proxies[p] = None
    BY <1>3, <2>2 DEF Apply
  <2>3. CASE file.proxies[p] # None
    <3>1. server' = [server EXCEPT ![p].policy = file.no]
      BY <1>3, <2>3 DEF Apply
    <3>2. QED
      BY <1>1, <2>1, <2>3, <3>1, PolicyTypes DEF Running, Ports
  <2>4. QED
    BY <2>2, <2>3
<1>6. Running' = Running /\ \A f \in Editor : Applying(f)' => f = e
  BY <1>2, <1>3, <1>5 DEF Running, Ports, Applying, Critical
<1>7. Locked' /\ Down' /\ Snapshot'
  BY <1>2, <1>3, <1>4, <1>6 DEF Kept, Locked, Down, Snapshot, Critical, Applying
<1>8. Youngest'
  <2>1. \A q \in Running' : server'[q].policy <= file'.no
    BY <1>1, <1>3, <1>5, <1>6 DEF Kept, Youngest, Running, Ports
  <2>2. \A q \in (Running \cap Ports(file.proxies)) \ (save[e].todo \ {p}) :
           server'[q].policy = file.no
    BY <1>2, <1>5 DEF Kept, Youngest, Ports
  <2>3. told # None => told.no < file.no /\ told.no <= file.no
    BY <1>2 DEF Kept, Youngest
  <2>4. QED
    BY <1>3, <1>4, <1>6, <2>1, <2>2, <2>3 DEF Youngest, Ports
<1>9. Counting'
  <2>1. Counted(e)
    BY <1>2 DEF Kept, Counting
  <2>2. Differs(e, p) <=> file.proxies[p] \notin {None, server[p].remote}
    BY <1>3 DEF Differs
  <2>3. Running \ (save[e].todo \ {p}) = (Running \ save[e].todo) \cup {p}
    BY <1>3
  <2>4. Counted(e)'
    BY <1>3, <1>4, <1>5, <1>6, <2>1, <2>2, <2>3 DEF Counted, Ports
  <2>5. QED
    BY <1>6, <2>4 DEF Counting
<1>10. SavedIsInForce'
  BY <1>1, <1>2, <1>3, <1>5, <1>6 DEF Kept, SavedIsInForce, Youngest, Ports, Running
<1>11. RestartIsTold'
  <2>1. told # None => told.no # file.no
    BY <1>1, <1>2 DEF Kept, Youngest
  <2>2. QED
    BY <1>3, <2>1 DEF RestartIsTold
<1>12. QED
  BY <1>1, <1>7, <1>8, <1>9, <1>10, <1>11 DEF Kept

LEMMA AnswerKeeps == ASSUME Kept, NEW e \in Editor, Answer(e) PROVE Kept'
<1>1. /\ Types' /\ save \in Saves /\ save[e] \in SaveRecord /\ file.no \in Nat
  BY TypesStep DEF Kept, SettingsStep, SettingsNext, Types, Saves
<1>2. /\ Critical(e) /\ lock = e /\ \A f \in Editor : Critical(f) => f = e
      /\ Applying(e)
  BY OneAtWork DEF Kept, Answer, Critical, Applying
<1>3. /\ UNCHANGED <<file, server, up>> /\ Running' = Running /\ up
      /\ \A f \in Editor \ {e} : save'[f] = save[f]
      /\ save'[e].step = "idle" /\ save[e].todo = {}
      /\ save[e].no = file.no /\ save[e].proxies = file.proxies
      /\ told # None => told.no < file.no
  BY <1>1, <1>2 DEF Kept, Down, Youngest, Answer, Saves, NoSave, Running, Ports, Critical
<1>4. /\ \A f \in Editor : ~Applying(f)' /\ ~Critical(f)'
  BY <1>2, <1>3 DEF Applying, Critical
<1>5. told' = [proxies |-> file.proxies, no |-> file.no, restart |-> save[e].restart]
  BY <1>3 DEF Answer
<1>6. told'.no = file.no /\ told'.proxies = file.proxies /\ told'.restart = save[e].restart
  BY <1>5
<1>7. Locked' /\ Down' /\ Snapshot' /\ Counting'
  BY <1>3, <1>4 DEF Locked, Down, Snapshot, Counting
<1>8. Youngest'
  BY <1>1, <1>3, <1>4, <1>6 DEF Kept, Youngest
<1>9. SavedIsInForce'
  <2>1. \A p \in Running \cap Ports(file.proxies) : server[p].policy = file.no
    BY <1>2, <1>3 DEF Kept, Youngest
  <2>2. QED
    BY <1>1, <1>3, <1>6, <2>1 DEF SavedIsInForce, Ports
<1>10. RestartIsTold'
  <2>1. Counted(e)
    BY <1>2 DEF Kept, Counting
  <2>2. \A p \in Port : p \in Running <=> server[p] # None
    BY DEF Running, Ports
  <2>3. \A p \in Port : server[p] # None => server[p].remote # None
    BY NoneApart DEF Kept, Types, Servers
  <2>4. Ports(file.proxies) # Running
          <=> \E p \in Port : (file.proxies[p] = None) # (server[p] = None)
    BY <2>2 DEF Running, Ports
  <2>5. save[e].restart <=> \E p \in Port : Off(p)
    BY <1>3, <2>1, <2>2, <2>3, <2>4 DEF Counted, Off, Running, Ports
  <2>6. QED
    BY <1>3, <1>6, <2>5 DEF RestartIsTold, Off
<1>11. QED
  BY <1>1, <1>7, <1>8, <1>9, <1>10 DEF Kept

\* Requests do nothing to the settings; a stop is one of the process.
LEMMA SettingsOnly == [Next]_vars => [SettingsStep]_settings
<1> SUFFICES ASSUME [Next]_vars PROVE [SettingsStep]_settings
  OBVIOUS
<1>1. CASE SettingsNext \/ Stop
  BY <1>1 DEF SettingsStep, Stop
<1>2. ASSUME NEW r \in Request,
             \/ Deny(r) \/ Admit(r) \/ ClientLeaves(r) \/ Receive(r) \/ Put(r)
             \/ Connect(r) \/ TakeBody(r) \/ ClosesEarly(r) \/ Respond(r)
             \/ SwitchProtocols(r) \/ StreamEnds(r) \/ EndResponse(r) \/ Fail(r)
             \/ Finish(r)
      PROVE  UNCHANGED settings
  BY <1>2 DEF Deny, Admit, ClientLeaves, Receive, Put, Connect, TakeBody, ClosesEarly,
     Respond, SwitchProtocols, StreamEnds, EndResponse, Fail, Finish, Forward
<1>3. CASE UNCHANGED vars
  BY <1>3 DEF vars
<1>4. QED
  BY <1>1, <1>2, <1>3 DEF Next

LEMMA KeptStep == Kept /\ [SettingsStep]_settings => Kept'
<1>1. ASSUME Kept, SettingsStep PROVE Kept'
  BY <1>1, StartKeeps, StopKeeps, EnterKeeps, ReplaceKeeps, ApplyKeeps, AnswerKeeps
     DEF SettingsStep, SettingsNext
<1>2. ASSUME Kept, UNCHANGED settings PROVE Kept'
  <2>1. Types' /\ Locked' /\ Down'
    BY <1>2 DEF settings, Kept, Types, Locked, Down, Critical
  <2>2. QED
    BY <1>2, <2>1, QuietStep DEF settings, Kept, Applying
<1>3. QED
  BY <1>1, <1>2

LEMMA KeptInvariant == Spec => []Kept
<1>1. Init => Kept
  BY Initially DEF Init, Kept, SettingsInit, SavedIsInForce, RestartIsTold
<1>2. QED
  BY <1>1, KeptStep, SettingsOnly, PTL DEF Spec

(* A Save that was answered is in force, whatever Saves overlap it and      *)
(* wherever the process stopped before.                                     *)
THEOREM SavesInForce == Spec => []SavedIsInForce
  BY KeptInvariant, PTL DEF Kept

(* restart_required is the truth about the running proxies.                 *)
THEOREM RestartsTold == Spec => []RestartIsTold
  BY KeptInvariant, PTL DEF Kept

-----------------------------------------------------------------------------
(* The answer. *)

RequestTypes ==
    /\ pc \in Each({"new", "active", "done"})
    /\ transfer \in Each({"off", "connect", "body", "head", "stream", "last", "done", "raised"})
    /\ watcher \in Each({"off", "receive", "gone", "more", "last"})
    /\ answer \in Each({"none", "begun", "whole", "refused", "broken"})
    /\ over \in Each(BOOLEAN)

\* What was sent at each place of a transfer's way.
Talk(r) ==
    /\ pc[r] = "active" <=> transfer[r] # "off"
    /\ pc[r] = "active" <=> watcher[r] # "off"
    /\ pc[r] = "new" => answer[r] = "none"
    /\ transfer[r] \in {"connect", "body", "head"} => answer[r] = "none"
    /\ transfer[r] \in {"stream", "last", "raised"} => answer[r] = "begun"
    /\ transfer[r] = "last" => over[r]
    /\ transfer[r] = "done" => answer[r] \in {"whole", "refused"}

Told == RequestTypes /\ \A r \in Request : Talk(r)

LEMMA BeforeAnswer ==
    ASSUME Told, NEW r \in Request,
           \/ Deny(r) \/ Admit(r) \/ ClientLeaves(r) \/ Receive(r) \/ Put(r)
           \/ Connect(r) \/ TakeBody(r) \/ ClosesEarly(r)
    PROVE  Told' /\ [Answers!Next]_(Answers!vars)
<1> USE DEF Told, RequestTypes, Talk, Each, Move
<1>1. CASE Deny(r)
  <2>1. Told'
    BY <1>1 DEF Deny
  <2>2. Answers!Refuse(r)
    BY <1>1 DEF Deny, Answers!Refuse, Answers!Answer
  <2>3. QED
    BY <2>1, <2>2 DEF Answers!Next
<1>2. CASE Admit(r) \/ ClientLeaves(r)
  BY <1>2 DEF Admit, ClientLeaves, Answers!vars
<1>3. CASE Receive(r)
  BY <1>3 DEF Receive, Message, Answers!vars
<1>4. CASE Put(r)
  BY <1>4 DEF Put, Message, Answers!vars
<1>5. CASE Connect(r) \/ TakeBody(r) \/ ClosesEarly(r)
  BY <1>5 DEF Connect, TakeBody, ClosesEarly, Forward, Answers!vars
<1>6. QED
  BY <1>1, <1>2, <1>3, <1>4, <1>5

LEMMA AnswerStep ==
    ASSUME Told, NEW r \in Request,
           Respond(r) \/ SwitchProtocols(r) \/ StreamEnds(r) \/ EndResponse(r) \/ Fail(r)
    PROVE  Told' /\ [Answers!Next]_(Answers!vars)
<1> USE DEF Told, RequestTypes, Talk, Each, Move, Forward
<1>1. CASE Respond(r)
  <2>1. Told'
    BY <1>1 DEF Respond
  <2>2. Answers!Begin(r)
    BY <1>1 DEF Respond, Answers!Begin, Answers!Answer
  <2>3. QED
    BY <2>1, <2>2 DEF Answers!Next
<1>2. CASE SwitchProtocols(r)
  <2>1. Told'
    BY <1>2 DEF SwitchProtocols
  <2>2. Answers!Refuse(r)
    BY <1>2 DEF SwitchProtocols, Answers!Refuse, Answers!Answer
  <2>3. QED
    BY <2>1, <2>2 DEF Answers!Next
<1>3. CASE StreamEnds(r)
  <2>1. Told'
    BY <1>3 DEF StreamEnds
  <2>2. Answers!UpstreamEnds(r)
    BY <1>3 DEF StreamEnds, Answers!UpstreamEnds, Answers!Answer, Answers!Ends
  <2>3. QED
    BY <2>1, <2>2 DEF Answers!Next
<1>4. CASE EndResponse(r)
  <2>1. Told'
    BY <1>4 DEF EndResponse
  <2>2. Answers!Complete(r)
    BY <1>4 DEF EndResponse, Answers!Complete, Answers!Answer
  <2>3. QED
    BY <2>1, <2>2 DEF Answers!Next
<1>5. CASE Fail(r)
  <2>1. Told'
    BY <1>5 DEF Fail
  <2>2. Answers!Refuse(r) \/ UNCHANGED Answers!vars
    BY <1>5 DEF Fail, Answers!Refuse, Answers!Answer, Answers!vars
  <2>3. QED
    BY <2>1, <2>2 DEF Answers!Next
<1>6. QED
  BY <1>1, <1>2, <1>3, <1>4, <1>5

LEMMA EndStep ==
    ASSUME Told, NEW R \in SUBSET Request, \A r \in R : pc[r] = "active", EndRequests(R)
    PROVE  Told' /\ [Answers!Next]_(Answers!vars)
<1> DEFINE broken == {r \in R : answer[r] \in {"none", "begun"}}
<1>1. Told'
  BY DEF Told, RequestTypes, Talk, Each, EndRequests
<1>2. Answers!Break(broken)
  BY DEF EndRequests, Answers!Break
<1>3. QED
  BY <1>1, <1>2 DEF Answers!Next

LEMMA ToldStep == Told /\ [Next]_vars => [Answers!Next]_(Answers!vars) /\ Told'
<1>1. ASSUME Told, SettingsNext, UNCHANGED requests
      PROVE  [Answers!Next]_(Answers!vars) /\ Told'
  BY <1>1 DEF requests, Told, RequestTypes, Talk, Answers!vars
<1>2. ASSUME Told, Stop PROVE [Answers!Next]_(Answers!vars) /\ Told'
  BY <1>2, EndStep DEF Stop
<1>3. ASSUME Told, NEW r \in Request, Finish(r)
      PROVE  [Answers!Next]_(Answers!vars) /\ Told'
  <2>1. pc[r] = "active"
    BY <1>3 DEF Told, Talk, Finish
  <2>2. QED
    BY <1>3, <2>1, EndStep DEF Finish
<1>4. ASSUME Told, UNCHANGED vars PROVE [Answers!Next]_(Answers!vars) /\ Told'
  BY <1>4 DEF vars, requests, Told, RequestTypes, Talk, Answers!vars
<1>5. QED
  BY <1>1, <1>2, <1>3, <1>4, BeforeAnswer, AnswerStep DEF Next

LEMMA ToldInit == Init => Told /\ Answers!Init
BY DEF Init, Answers!Init, Told, RequestTypes, Talk, Each

LEMMA ToldInvariant == Spec => []Told
BY ToldInit, ToldStep, PTL DEF Spec

(* One answer, whole only when the upstream's was, for any number of        *)
(* requests, the end of the process in the middle of them included.         *)
THEOREM ProxyAnswers == Spec => ImplementsProxyAnswer
BY ToldInit, ToldStep, ToldInvariant, PTL DEF Spec, ImplementsProxyAnswer, Answers!Spec

-----------------------------------------------------------------------------
(* The types. *)

\* Every number is that of a replacement of the file.
InRange ==
    /\ file.no <= MaxSave
    /\ \A p \in Port : server[p] # None => server[p].policy <= MaxSave
    /\ \A e \in Editor : save[e].no <= MaxSave
    /\ told # None => told.no <= MaxSave

LEMMA InRangeStep ==
    ASSUME Kept, InRange, [SettingsStep]_settings PROVE InRange'
<1>1. /\ save \in Saves /\ server \in Servers /\ file.no \in Nat /\ NoSave.no = 0
      /\ None \notin Answered /\ told \in Answered \cup {None}
  BY NoneApart DEF Kept, Types, NoSave
<1>2. CASE StartServers
  BY <1>1, <1>2 DEF StartServers, InRange
<1>3. CASE StopServers
  BY <1>1, <1>3, MaxSaveAssumption DEF StopServers, InRange, NoProxies
<1>4. ASSUME NEW e \in Editor, NEW proxies \in Config, Submit(e, proxies) PROVE InRange'
  <2>1. [NoSave EXCEPT !.step = "wait", !.proxies = proxies].no = 0
    BY DEF NoSave
  <2>2. QED
    BY <1>1, <1>4, <2>1, MaxSaveAssumption DEF Submit, InRange, Saves
<1>5. ASSUME NEW e \in Editor, Lock(e) \/ Check(e) PROVE InRange'
  BY <1>1, <1>5 DEF Lock, Check, Step, InRange, Saves, SaveRecord
<1>6. ASSUME NEW e \in Editor, RefuseSave(e) PROVE InRange'
  BY <1>1, <1>6, MaxSaveAssumption DEF RefuseSave, InRange, Saves
<1>7. ASSUME NEW e \in Editor, Replace(e) PROVE InRange'
  <2>1. file'.no = file.no + 1 /\ file.no + 1 <= MaxSave
    BY <1>1, <1>7, MaxSaveAssumption DEF Replace
  <2>2. \A f \in Editor : save'[f].no \in {save[f].no, file.no + 1}
    BY <1>1, <1>7 DEF Replace, Saves, SaveRecord
  <2>3. QED
    BY <1>7, <2>1, <2>2 DEF Replace, InRange
<1>8. ASSUME NEW e \in Editor, NEW p \in Port, Apply(e, p) PROVE InRange'
  <2>1. /\ save[e].no \in Nat /\ server[p] # None
        /\ \A f \in Editor : save'[f].no = save[f].no
    BY <1>1, <1>8 DEF Kept, Saves, SaveRecord, Snapshot, Applying, Apply, Running, Ports
  <2>2. \A q \in Port : \/ server'[q] = server[q]
                        \/ server'[q].policy = save[e].no
    BY <1>1, <1>8, <2>1, PolicyTypes DEF Apply
  <2>3. QED
    BY <1>8, <2>1, <2>2 DEF Apply, InRange
<1>9. ASSUME NEW e \in Editor, Answer(e) PROVE InRange'
  <2>1. \A f \in Editor : save'[f].no \in {save[f].no, 0}
    BY <1>1, <1>9 DEF Answer, Saves
  <2>2. told' = told \/ told'.no = save[e].no
    BY <1>9 DEF Answer
  <2>3. QED
    BY <1>9, <2>1, <2>2, MaxSaveAssumption DEF Answer, InRange
<1>10. CASE UNCHANGED settings
  BY <1>10 DEF settings, InRange
<1>11. QED
  BY <1>2, <1>3, <1>4, <1>5, <1>6, <1>7, <1>8, <1>9, <1>10 DEF SettingsStep, SettingsNext

LEMMA SettingsTypes == Kept /\ InRange => SettingsTypeOK
<1> SUFFICES ASSUME Kept, InRange PROVE SettingsTypeOK
  OBVIOUS
<1> USE DEF Kept, Types, InRange, Numbers
<1>1. file \in [no : Numbers, proxies : Proxies]
  BY MaxSaveAssumption
<1>2. server \in [Port -> [remote : Remote, policy : Numbers] \cup {None}]
  BY MaxSaveAssumption DEF Servers
<1>3. save \in [Editor -> [step : {"idle", "wait", "check", "write", "apply"},
                           proxies : Proxies, no : Numbers,
                           todo : SUBSET Port, restart : BOOLEAN]]
  BY MaxSaveAssumption DEF Saves, SaveRecord
<1>4. told \in [proxies : Proxies, no : Numbers, restart : BOOLEAN] \cup {None}
  BY MaxSaveAssumption DEF Answered
<1>5. QED
  BY <1>1, <1>2, <1>3, <1>4 DEF SettingsTypeOK

\* The rest of a request's state.
Incoming ==
    /\ client \in Each({"sending", "sent", "gone"})
    /\ incoming \in Each(Message \cup {"empty"})
    /\ watcher \in Each({"off", "receive", "gone"} \cup Message)
    /\ early \subseteq Request

LEMMA IncomingStep == Incoming /\ [Next]_vars => Incoming'
<1> SUFFICES ASSUME Incoming, [Next]_vars PROVE Incoming'
  OBVIOUS
<1> USE DEF Incoming, Each, Move, Message
<1>1. CASE (SettingsNext /\ UNCHANGED requests) \/ UNCHANGED vars
  BY <1>1 DEF vars, requests
<1>2. CASE Stop
  BY <1>2 DEF Stop, EndRequests
<1>3. ASSUME NEW r \in Request, Deny(r) \/ Admit(r) \/ ClientLeaves(r) PROVE Incoming'
  BY <1>3 DEF Deny, Admit, ClientLeaves
<1>4. ASSUME NEW r \in Request, Receive(r) \/ Put(r) PROVE Incoming'
  BY <1>4 DEF Receive, Put
<1>5. ASSUME NEW r \in Request, Connect(r) \/ TakeBody(r) \/ ClosesEarly(r) PROVE Incoming'
  BY <1>5 DEF Connect, TakeBody, ClosesEarly, Forward
<1>6. ASSUME NEW r \in Request,
             \/ Respond(r) \/ SwitchProtocols(r) \/ StreamEnds(r) \/ EndResponse(r)
             \/ Fail(r)
      PROVE  Incoming'
  BY <1>6 DEF Respond, SwitchProtocols, StreamEnds, EndResponse, Fail, Forward
<1>7. ASSUME NEW r \in Request, Finish(r) PROVE Incoming'
  BY <1>7 DEF Finish, EndRequests
<1>8. QED
  BY <1>1, <1>2, <1>3, <1>4, <1>5, <1>6, <1>7 DEF Next

(* Settings, servers and requests keep their types; no server, Save or      *)
(* answer bears a number that the file never had.                           *)
THEOREM TypeCorrect == Spec => []TypeOK
<1>1. Init => InRange /\ Incoming
  BY MaxSaveAssumption DEF Init, SettingsInit, NoProxies, NoSave, InRange, Incoming, Each, Message
<1>2. Kept /\ InRange /\ [Next]_vars => InRange'
  BY InRangeStep, SettingsOnly
<1>3. Spec => [](InRange /\ Incoming)
  BY <1>1, <1>2, KeptInvariant, IncomingStep, PTL DEF Spec
<1>4. Kept /\ InRange /\ Incoming /\ Told => TypeOK
  BY SettingsTypes DEF Incoming, Told, RequestTypes, TypeOK
<1>5. QED
  BY <1>3, <1>4, KeptInvariant, ToldInvariant, PTL

=============================================================================
