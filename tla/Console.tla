------------------------------ MODULE Console ------------------------------
(* The console's changes of the certificate list and the reload that makes them      *)
(* effective (cmd/wecert/cert_admin.go, reload.go, daemon.go). The list lives in the *)
(* config file and, for the inventory page, in the console's registry; a change      *)
(* writes both and sends the process SIGHUP. Writers exclude each other (configMu);  *)
(* the reload reads the file without that lock.                                      *)
EXTENDS Naturals, FiniteSets

CONSTANTS CertNames,     \* names an operator declares
          DomainSets,    \* the domain sets a name is declared with
          Undeclared,    \* no declaration
          Initially,     \* the names the file declares at first
          Observing,     \* desiredState.mode is observe: the list may not end empty
          MaxChanges,    \* bound on console operations
          MaxHitches     \* bound on failed writes, failed loads and restarts

Declarations == [CertNames -> DomainSets \cup {Undeclared}]

ASSUME ConsoleAssumption ==
    /\ DomainSets # {} /\ Undeclared \notin DomainSets /\ Observing \in BOOLEAN
    /\ Initially \subseteq CertNames /\ (Observing => Initially # {})
    /\ MaxChanges \in Nat /\ MaxHitches \in Nat

VARIABLES
    file,       \* config.yaml's certificates
    registry,   \* the console's registry: <<name, domains>> rows
    effective,  \* the certificates of the configuration the daemon runs with
    change,     \* the operation that holds configMu
    hup,        \* is a SIGHUP waiting? (a channel of capacity one)
    loop,       \* the daemon's loop, and the configuration a reload has read
    busy,       \* is a pass in flight that a request started?
    told,       \* history: somebody was told that file and daemon have parted
    changes, hitches
console == <<file, registry, effective, change, hup, loop, busy, told, changes, hitches>>

NoChange == [kind |-> "none", step |-> "none", name |-> "none", to |-> Undeclared]
Listening(c) == [pc |-> "wait", candidate |-> c]

Declared(f) == {n \in CertNames : f[n] # Undeclared}

\* An observing daemon does not start without a certificate; a static one does.
ConsoleInit ==
    /\ file = [n \in CertNames |-> IF n \in Initially THEN CHOOSE d \in DomainSets : TRUE
                                   ELSE Undeclared]
    /\ effective = file /\ registry = {<<n, file[n]>> : n \in Declared(file)}
    /\ change = NoChange /\ hup = FALSE
    /\ loop = Listening(file) /\ busy = FALSE /\ told = FALSE
    /\ changes = 0 /\ hitches = 0

Rows(n) == {r \in registry : r[1] = n}
Hitch == hitches < MaxHitches /\ hitches' = hitches + 1
Steps(step) == change' = [change EXCEPT !.step = step] /\ UNCHANGED hitches
Ends == change' = NoChange

Starts(kind, n, d, step) ==
    /\ change = NoChange /\ changes < MaxChanges
    /\ change' = [kind |-> kind, step |-> step, name |-> n, to |-> d]
    /\ changes' = changes + 1
    /\ UNCHANGED <<file, registry, effective, hup, loop, busy, told, hitches>>

-----------------------------------------------------------------------------
(* createCertificateAdmin, deleteCertificateAdmin, updateCertificateAdmin           *)

\* Creating writes the registry first, the others the config.
FirstStep(kind) == IF kind = "create" THEN "register" ELSE "stage"

Create == \E n \in CertNames, d \in DomainSets : Starts("create", n, d, FirstStep("create"))

\* Refused in observe mode when the list would end empty, whoever it names.
Delete ==
    /\ ~(Observing /\ Cardinality(Declared(file)) <= 1)
    /\ \E n \in CertNames : Starts("delete", n, Undeclared, FirstStep("delete"))

\* Only a name that is declared can be given other domains.
Update == \E n \in Declared(file), d \in DomainSets :
              Starts("update", n, d, FirstStep("update"))

\* The registry afterwards: creating appends, also when a row of that name is there.
Registered ==
    CASE change.kind = "create" -> registry \cup {<<change.name, change.to>>}
      [] change.kind = "delete" -> registry \ Rows(change.name)
      [] change.kind = "update" ->
           (registry \ Rows(change.name)) \cup {<<r[1], change.to>> : r \in Rows(change.name)}

\* The registry is written: a failure ends a creation before the config is touched
\* and a deletion after it; for an update it is only logged.
Register ==
    /\ change.step = "register"
    /\ \/ /\ registry' = Registered /\ UNCHANGED told
          /\ Steps(CASE change.kind = "create" -> "stage"
                     [] change.kind = "delete" -> "forget"
                     [] change.kind = "update" -> "signal")
       \/ /\ Hitch /\ UNCHANGED registry
          /\ IF change.kind = "update"
               THEN change' = [change EXCEPT !.step = "signal"] /\ UNCHANGED told
               ELSE Ends /\ told' = (told \/ change.kind = "delete")
    /\ UNCHANGED <<file, effective, hup, loop, busy, changes>>

\* The config is written; a name that is declared already is not created again.
Staged ==
    IF change.kind = "create" /\ file[change.name] # Undeclared THEN file
    ELSE [file EXCEPT ![change.name] = change.to]

Stage ==
    /\ change.step = "stage"
    /\ \/ file' = Staged /\ Steps(IF change.kind = "create" THEN "signal" ELSE "register")
       \/ Hitch /\ UNCHANGED file /\ Ends
    /\ UNCHANGED <<registry, effective, hup, loop, busy, told, changes>>

\* A deletion takes the certificate's row too, whether or not a pass is at it.
Forget ==
    /\ change.step = "forget"
    /\ \/ Steps("signal") /\ UNCHANGED told
       \/ Hitch /\ Ends /\ told' = TRUE
    /\ UNCHANGED <<file, registry, effective, hup, loop, busy, changes>>

Signal ==
    /\ change.step = "signal"
    /\ hup' = TRUE /\ Ends
    /\ UNCHANGED <<file, registry, effective, loop, busy, told, changes, hitches>>

-----------------------------------------------------------------------------
(* The loop: timer rounds and reloads, one at a time                                *)

Turns(pc) == loop' = [loop EXCEPT !.pc = pc]

BeginRound ==
    /\ loop.pc = "wait" /\ Turns("round")
    /\ UNCHANGED <<file, registry, effective, change, hup, busy, told, changes, hitches>>
EndRound ==
    /\ loop.pc = "round" /\ Turns("wait")
    /\ UNCHANGED <<file, registry, effective, change, hup, busy, told, changes, hitches>>

TakeSignal ==
    /\ loop.pc = "wait" /\ hup
    /\ hup' = FALSE /\ Turns("load")
    /\ UNCHANGED <<file, registry, effective, change, busy, told, changes, hitches>>

\* config.Load, before the lock; a file that cannot be read keeps the running one.
Load ==
    /\ loop.pc = "load"
    /\ \/ loop' = [pc |-> "swap", candidate |-> file] /\ UNCHANGED <<told, hitches>>
       \/ Hitch /\ loop' = Listening(loop.candidate) /\ told' = TRUE
    /\ UNCHANGED <<file, registry, effective, change, hup, busy, changes>>

\* Mutation: signals that came in while reloading count as served by it.
StillWaiting_Drained == FALSE

StillWaiting == hup

\* No certificate is being reconciled; rounds are not under way when this is asked.
Idle == ~busy

\* Under the write lock: refused, and logged, while a pass is in flight; one whose parts
\* cannot be built is logged as well.
Swap ==
    /\ loop.pc = "swap"
    /\ hup' = StillWaiting
    /\ \/ ~Idle /\ told' = TRUE /\ UNCHANGED <<effective, hitches>>
       \/ Idle /\ Hitch /\ told' = TRUE /\ UNCHANGED effective
       \/ /\ Idle /\ effective' = loop.candidate /\ told' = (told /\ file # effective')
          /\ UNCHANGED hitches
    /\ loop' = Listening(effective')
    /\ UNCHANGED <<file, registry, change, busy, changes>>

\* A pass a request started: it registers under the read lock and ends when it ends.
StartPass ==
    /\ ~busy /\ Declared(effective) # {} /\ busy' = TRUE
    /\ UNCHANGED <<file, registry, effective, change, hup, loop, told, changes, hitches>>
EndPass ==
    /\ busy /\ busy' = FALSE
    /\ UNCHANGED <<file, registry, effective, change, hup, loop, told, changes, hitches>>

\* The process ends anywhere and starts with what the file says.
Restart ==
    /\ Hitch
    /\ effective' = file /\ loop' = Listening(file)
    /\ change' = NoChange /\ hup' = FALSE /\ busy' = FALSE /\ told' = FALSE
    /\ UNCHANGED <<file, registry, changes>>

ConsoleNext ==
    \/ Create \/ Delete \/ Update \/ Register \/ Stage \/ Forget \/ Signal
    \/ BeginRound \/ EndRound \/ TakeSignal \/ Load \/ Swap
    \/ StartPass \/ EndPass \/ Restart

-----------------------------------------------------------------------------
(* Properties                                                                       *)

ConsoleType ==
    /\ file \in Declarations /\ effective \in Declarations
    /\ registry \subseteq CertNames \X DomainSets
    /\ change = NoChange \/
       change \in [kind : {"create", "delete", "update"},
                   step : {"register", "stage", "forget", "signal"},
                   name : CertNames, to : DomainSets \cup {Undeclared}]
    /\ hup \in BOOLEAN /\ busy \in BOOLEAN /\ told \in BOOLEAN
    /\ loop \in [pc : {"wait", "round", "load", "swap"}, candidate : Declarations]
    /\ changes \in 0..MaxChanges /\ hitches \in 0..MaxHitches

\* The daemon runs with another list than the file's only while a reload is on its
\* way - a signal waiting, one being served that has read this very file or has not
\* read it yet, a change that has still to send it - or after somebody was told.
StaleIsAnnounced ==
    file # effective =>
        \/ hup \/ loop.pc = "load" \/ (loop.pc = "swap" /\ loop.candidate = file)
        \/ change # NoChange \/ told
=============================================================================
