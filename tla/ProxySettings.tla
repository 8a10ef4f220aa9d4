--------------------------- MODULE ProxySettings ---------------------------
(***************************************************************************)
(* The HTTP proxies' configuration: the section's file, the servers that    *)
(* the web process started from it, and Save, which replaces the file and   *)
(* then applies the saved methods and patterns to the running servers       *)
(* (controllers/settings.py, settings/http_proxy.py, ProxyServers of        *)
(* http_proxy.py, lifespan of main.py).                                     *)
(*                                                                         *)
(* Saves run in threads of the web process.  A saved configuration is known *)
(* by its number; a policy (methods and patterns) by the number of the save *)
(* it comes from.  Remote URL and timeout of a proxy are one value.         *)
(***************************************************************************)
EXTENDS Naturals, FiniteSets

CONSTANTS
    Port,     \* the ports proxies are configured for
    Remote,   \* their remote URLs and timeouts
    Editor,   \* threads that serve Save
    Config,   \* bound: the configurations that are saved
    MaxSave,  \* bound: how often the file is replaced
    None      \* no proxy on a port, no holder of the lock

ASSUME ConfigAssumption == Config \subseteq [Port -> Remote \cup {None}]
ASSUME MaxSaveAssumption == MaxSave \in Nat
ASSUME NoneAssumption ==
    None \notin Remote \cup Editor \cup [remote : Remote, policy : Nat]
               \cup [proxies : [Port -> Remote \cup {None}], no : Nat, restart : BOOLEAN]

VARIABLES
    file,    \* http_proxy.json: number and proxies
    up,      \* does the web process run?
    server,  \* the running proxies: remote and policy
    lock,    \* who holds save_lock
    save,    \* per thread: its step, the submitted proxies, their number, the
             \* servers not yet looked at, restart_required
    told     \* history: the last save answered with success since the start

settings == <<file, up, server, lock, save, told>>

Proxies == [Port -> Remote \cup {None}]
Numbers == 0..MaxSave
Ports(proxies) == {p \in Port : proxies[p] # None}
Running == Ports(server)

NoProxies == [p \in Port |-> None]
NoSave == [step |-> "idle", proxies |-> NoProxies, no |-> 0, todo |-> {}, restart |-> FALSE]

SettingsTypeOK ==
    /\ file \in [no : Numbers, proxies : Proxies]
    /\ up \in BOOLEAN
    /\ server \in [Port -> [remote : Remote, policy : Numbers] \cup {None}]
    /\ lock \in Editor \cup {None}
    /\ save \in [Editor -> [step : {"idle", "wait", "check", "write", "apply"},
                            proxies : Proxies, no : Numbers,
                            todo : SUBSET Port, restart : BOOLEAN]]
    /\ told \in [proxies : Proxies, no : Numbers, restart : BOOLEAN] \cup {None}

SettingsInit ==
    /\ file \in [no : {0}, proxies : Config]
    /\ up = FALSE
    /\ server = NoProxies /\ lock = None
    /\ save = [e \in Editor |-> NoSave]
    /\ told = None

-----------------------------------------------------------------------------
(* The web process. *)

\* ProxyServers.start: a proxy whose port cannot be bound is left out.
StartServers ==
    /\ ~up /\ up' = TRUE
    /\ \E S \in SUBSET Ports(file.proxies) :
          server' = [p \in Port |->
                       IF p \in S THEN [remote |-> file.proxies[p], policy |-> file.no]
                       ELSE None]
    /\ UNCHANGED <<file, lock, save, told>>

\* The process stops or dies, between any two steps of a Save.
StopServers ==
    /\ up /\ up' = FALSE
    /\ server' = NoProxies /\ lock' = None
    /\ save' = [e \in Editor |-> NoSave]
    /\ told' = None
    /\ UNCHANGED file

-----------------------------------------------------------------------------
(* save_settings for the section http_proxy. *)

Step(e, from, to) ==
    /\ save[e].step = from
    /\ save' = [save EXCEPT ![e].step = to]

Submit(e, proxies) ==
    /\ up /\ save[e].step = "idle"
    /\ save' = [save EXCEPT ![e] = [NoSave EXCEPT !.step = "wait", !.proxies = proxies]]
    /\ UNCHANGED <<file, up, server, lock, told>>

Lock_Free(e) ==
    /\ Step(e, "wait", "check")
    /\ UNCHANGED <<file, up, server, lock, told>>
Lock(e) ==
    /\ lock = None /\ lock' = e
    /\ Step(e, "wait", "check")
    /\ UNCHANGED <<file, up, server, told>>

Unlock(e) == lock' = IF lock = e THEN None ELSE lock

\* Validation and GETs of the remote URLs.
Check(e) ==
    /\ Step(e, "check", "write")
    /\ UNCHANGED <<file, up, server, lock, told>>

\* 422, or 500 when the file cannot be written.
RefuseSave(e) ==
    /\ save[e].step \in {"check", "write"}
    /\ save' = [save EXCEPT ![e] = NoSave]
    /\ Unlock(e)
    /\ UNCHANGED <<file, up, server, told>>

\* A complete temporary file replaces the old one; apply_policies compares
\* the ports.
Replace(e) ==
    LET no == file.no + 1
        proxies == save[e].proxies
    IN /\ file.no < MaxSave
       /\ save[e].step = "write"
       /\ file' = [no |-> no, proxies |-> proxies]
       /\ save' = [save EXCEPT ![e] =
                     [@ EXCEPT !.step = "apply", !.no = no, !.todo = Running,
                               !.restart = Ports(proxies) # Running]]
       /\ UNCHANGED <<up, server, lock, told>>

\* One server: a proxy that was removed keeps its policy.
Differs_Never(e, p) == FALSE
Differs(e, p) == save[e].proxies[p] \notin {None, server[p].remote}

Apply(e, p) ==
    /\ save[e].step = "apply" /\ p \in save[e].todo
    /\ server' = IF save[e].proxies[p] = None THEN server
                 ELSE [server EXCEPT ![p].policy = save[e].no]
    /\ save' = [save EXCEPT ![e].todo = @ \ {p}, ![e].restart = @ \/ Differs(e, p)]
    /\ UNCHANGED <<file, up, lock, told>>

Answer(e) ==
    /\ save[e].step = "apply" /\ save[e].todo = {}
    /\ told' = IF told = None \/ told.no < save[e].no
               THEN [proxies |-> save[e].proxies, no |-> save[e].no,
                     restart |-> save[e].restart]
               ELSE told
    /\ save' = [save EXCEPT ![e] = NoSave]
    /\ Unlock(e)
    /\ UNCHANGED <<file, up, server>>

SettingsNext ==
    \/ StartServers
    \/ \E e \in Editor :
        \/ \E proxies \in Config : Submit(e, proxies)
        \/ Lock(e) \/ Check(e) \/ RefuseSave(e) \/ Replace(e) \/ Answer(e)
        \/ \E p \in Port : Apply(e, p)

-----------------------------------------------------------------------------
(* Properties. *)

(* Once a Save was answered, every running proxy that it names applies its  *)
(* methods and patterns or those of a later one, and does so until the end: *)
(* no Save that overlaps it brings older ones back.                         *)
SavedIsInForce ==
    told # None =>
        \A p \in Running \cap Ports(told.proxies) : server[p].policy >= told.no

(* restart_required is the truth: while no Save is under way, the last      *)
(* answer said so exactly if the running proxies differ from the file in    *)
(* more than the policies that Save could not reach.                        *)
RestartIsTold ==
    told # None /\ told.no = file.no =>
        (told.restart <=>
            \E p \in Port : IF server[p] = None THEN file.proxies[p] # None
                            ELSE file.proxies[p] # server[p].remote)

=============================================================================
