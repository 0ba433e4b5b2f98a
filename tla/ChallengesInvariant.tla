------------------------ MODULE ChallengesInvariant -------------------------
(* What holds in every state of Challenges and makes its properties inductive: the    *)
(* shape of every goroutine, what the CA has decided stays decided, a pass deals with  *)
(* every authorization of its order, and, where no mishap disturbs a wait, whoever     *)
(* cleans up works on other records than those a pass waits for, each of which is      *)
(* leased and up; and, where passes do not overlap, a row names its record until that  *)
(* is down.                                                                            *)
EXTENDS Challenges

Statuses == {"none", "pending", "valid", "invalid", "closed"}
Pcs == {"idle", "load", "order", "fetch", "visit", "prepare", "probe", "present", "persist", "lease",
        "wait", "accept", "sent", "await", "recover", "register", "clean", "claim", "release",
        "remove", "relook", "drop", "gone", "kept"}
Jobs == {"none", "undo", "cleanup", "epilogue", "discard", "replace", "orphan", "sweep"}
Rows == {m \in [tok : Tokens \cup {NoTok}, val : Tokens \cup {NoTok}, presented : BOOLEAN,
                sent : BOOLEAN, age : {"none", "young", "old"}, stuck : BOOLEAN, on : BOOLEAN] :
            m.presented => m.tok # NoTok /\ m.val # NoTok}
Authzs == [status : Statuses, tok : Tokens, asked : BOOLEAN]
\* A copy of what is known about some of the authorizations.
Copies(S) == UNION {[us -> S] : us \in SUBSET Urls}
Processes ==
    [pc : Pcs, job : Jobs, todo : SUBSET Urls, at : Urls \cup {<<>>}, mem : Copies(Rows),
     cur : Copies(Authzs), pend : SUBSET Urls, resumed : SUBSET Urls, regs : SUBSET Values,
     bad : BOOLEAN, early : BOOLEAN]

Visiting == {"prepare", "probe", "present", "persist"}
Driving == {"visit"} \cup Visiting
Asking == {"lease", "wait", "accept", "sent"}
Holding == Asking \cup {"await"}
Denying == {"claim", "release", "remove", "relook", "drop"}
Removing == Denying \cup {"gone", "kept"}
Cleanings == {"recover", "register", "clean"} \cup Removing

\* What a process works on, it has a copy of; the row it is at has a token once one is chosen.
ProcessShape(r) ==
    /\ r \in Processes
    /\ r.todo \cup r.pend \cup r.resumed \subseteq DOMAIN r.mem
    /\ \A a \in r.pend : r.mem[a].presented
    /\ r.pc \in Driving \cup Holding => DOMAIN r.cur = DOMAIN r.mem
    /\ r.pc \in Visiting \cup {"sent"} \cup Removing => r.at \in DOMAIN r.mem
    /\ r.pc \in {"probe", "present", "persist"} \cup Denying => r.mem[r.at].tok # NoTok
    /\ r.pc = "persist" => r.mem[r.at].presented
    /\ r.pc \in Cleanings => r.pend = {} /\ r.resumed = {}
    /\ r.pc = "idle" => r = Idle
StoreTypes ==
    /\ order \in [Certs -> SUBSET Urls] /\ (\A c \in Certs : \A a \in order[c] : CertOf[a] = c)
    /\ rows \in [Urls -> Rows]
CaTypes == ca \in [Urls -> Authzs]
DnsTypes ==
    /\ dns \subseteq Values /\ leases \subseteq Values
    /\ late \in [op : {"none", "write", "delete"}, val : Values \cup {<<>>}]
    /\ (late.op # "none" => late.val \in Values)
ProcessTypes == proc \in [Procs -> Processes] /\ \A p \in Procs : ProcessShape(proc[p])
SettingTypes == setting \in Settings /\ budget \in Nat
Types == StoreTypes /\ CaTypes /\ DnsTypes /\ ProcessTypes /\ SettingTypes

\* What the CA has decided stays decided.
Final == {"valid", "invalid", "closed"}
Broken == {"invalid", "closed"}

\* An authorization that has a row, belongs to an order or is worked on was handed out; what
\* was heard of one that is decided is still so.
HandedOut ==
    /\ \A a \in Urls : rows[a].on => ca[a].status # "none"
    /\ \A c \in Certs : \A a \in order[c] : ca[a].status # "none"
Known(r, cas) ==
    /\ \A a \in DOMAIN r.mem : cas[a].status # "none"
    /\ \A a \in DOMAIN r.cur : /\ r.cur[a].status # "none"
                               /\ r.cur[a].status \in Final => cas[a].status = r.cur[a].status

\* Why a certificate's goroutine cleans up, and what its order us is like then.
LostIn(us, cas) == \E b \in us : cas[b].status \in Broken
JobOf(r, us, cas) ==
    /\ r.job # "sweep" /\ (r.pc \in Cleanings <=> r.job # "none")
    /\ (r.job = "undo" => r.pc \in Removing)
    /\ (r.pc = "order" \/ r.job = "orphan" => us = {})
    /\ (r.job = "discard" \/ r.bad => LostIn(us, cas))
    /\ (r.job \in {"cleanup", "epilogue"} => \A b \in us : cas[b].status = "valid")
\* A pass deals with every authorization of its order: it has still to visit it, waits for it,
\* or knows it to be valid.
PassOf(r, us, cas) ==
    /\ (r.pc \in {"fetch"} \cup Driving \cup Holding => DOMAIN r.mem = us)
    /\ (r.bad => r.pc \in Driving)
    /\ (r.pc = "fetch" => r.pend = {})
    /\ (r.pc \in Visiting => r.at \in r.todo /\ r.cur[r.at].status = "pending")
    /\ (r.pc \in Driving \cup Asking => \A a \in r.pend : r.cur[a].status = "pending")
    /\ (r.pc \in Driving => \A b \in us : b \in r.todo \cup r.pend \/ cas[b].status = "valid" \/ r.bad)
    /\ (r.pc \in Asking => \A b \in us : b \in r.pend \/ cas[b].status = "valid")
    /\ (r.pc = "accept" \/ r.pc = "sent" => r.todo \subseteq r.pend)
    /\ (r.pc = "await" => /\ r.todo \subseteq r.pend
                          /\ \A b \in us : b \in r.todo \/ cas[b].status = "valid"
                          /\ \A a \in r.todo : r.cur[a].status \notin {"valid", "invalid"})
CertShape(c, r, us, cas) ==
    /\ \A a \in DOMAIN r.mem : CertOf[a] = c
    /\ Known(r, cas) /\ JobOf(r, us, cas) /\ PassOf(r, us, cas)
SweepShape ==
    /\ proc[Sweeper].pc \in {"idle"} \cup Cleanings /\ (proc[Sweeper].pc # "idle" => proc[Sweeper].job = "sweep")
    /\ Known(proc[Sweeper], ca)
Shapes ==
    /\ HandedOut /\ SweepShape
    /\ \A c \in Certs : CertShape(c, proc[c], order[c], ca)
    /\ \A c \in Certs : proc[c].job = "replace" => "drop" \in setting.faults

\* The mishaps under which a record that is awaited may go all the same: a delete that takes
\* effect after its deadline, and silence everywhere that is taken for consent. Where passes
\* overlap, also that a live order is replaced and the replacing is interrupted: the sweep then
\* works on the rows of an order that a later pass drives on.
Undisturbed(s) ==
    /\ {"hang delete", "blackout"} \cap s.faults = {}
    /\ s.triggers => "drop" \notin s.faults \/ {"store", "crash"} \cap s.faults = {}

\* What the sweep works on or will.
Swept(a) == a \in DOMAIN proc[Sweeper].mem
Touched(a) == Swept(a) \/ rows[a].stuck
\* No pass will wait for a record of a: its order is gone or about to go, it is decided, or
\* another of its order is.
Hopeless(a) ==
    LET c == CertOf[a] IN
    \/ a \notin order[c] \/ ca[a].status \in Final \/ LostIn(order[c], ca) \/ proc[c].job = "replace"
SweepIsApart ==
    /\ \A a \in Urls : Touched(a) => ca[a].status # "none" /\ Hopeless(a)
    /\ \A c \in Certs : LET r == proc[c] IN
        /\ (r.pc \in Driving => \A a \in order[c] : Touched(a) /\ r.cur[a].status = "pending" =>
                r.bad \/ \E b \in r.todo : r.cur[b].status \in Broken)
        /\ (r.pc \in Holding => \A a \in r.pend : ~Touched(a))
OneAtATime == \A p, q \in Procs : p # q => proc[p].pc = "idle" \/ proc[q].pc = "idle"
Apart == IF setting.triggers THEN SweepIsApart ELSE OneAtATime

\* A record is relied on: its lease is held, and it is up.
Held ==
    \A c \in Certs : LET r == proc[c] IN
        /\ (r.pc \in Holding => \A a \in r.pend : ValueOf(a, r.mem[a].val) \in leases \cup r.regs)
        /\ (r.pc \in Holding \ {"lease"} => r.regs = {})

\* Without overlap a row that goes has outlived the record of the challenge it names. A pass
\* carries its rows as old as they are on disk, the value of each that of its challenge, but
\* for what it is about to write, and it writes only while the window it opened lasts.
Copied(m, n) == m.age = n.age /\ (n.tok = NoTok => m.tok = NoTok)
Sound(m) == "old row" \notin setting.faults => m.val \in {NoTok, m.tok}
Presenting(r) == r.pc \in {"probe", "present"}
Carrying(r) == r.pc \in {"fetch"} \cup Driving \cup Holding \/ r.job = "cleanup"
CarriedShape(r) ==
    /\ Carrying(r) => \A a \in DOMAIN r.mem :
          Copied(r.mem[a], rows[a]) /\ (Sound(r.mem[a]) \/ (Presenting(r) /\ r.at = a))
    /\ Presenting(r) => rows[r.at].age = "young"
\* A clean-up that deletes rows carries those it has still to walk as they are.
Walking(r) == r.pc \in {"clean"} \cup Removing /\ r.job \notin {"cleanup", "undo"}
WalkShape(r) ==
    /\ r.pc \in {"recover", "register"} /\ r.job # "cleanup" => r.todo = {}
    /\ Walking(r) => \A a \in r.todo : r.mem[a].tok = rows[a].tok /\ r.mem[a].age = rows[a].age
    /\ Walking(r) /\ r.pc \in Removing => r.at \in r.todo
    /\ r.pc = "relook" => valueScopedCleanup
\* The record is down, another value at the name is still relied on, or the denial that
\* says so is believed too early.
Down(a, r) ==
    LET v == ValueOf(a, rows[a].tok) IN
    \/ rows[a].tok = NoTok \/ v \notin dns \cup Unwritten \/ leases \ {v} # {}
    \/ valueScopedCleanup /\ r.early
DownShape(r) == Walking(r) /\ r.pc \in {"drop", "gone"} => Down(r.at, r)
RowShape ==
    /\ \A a \in Urls : Sound(rows[a])
    /\ late.op = "write" => LET m == rows[late.val[1]] IN m.age = "young" \/ m.tok = NoTok
Shaped(p) == CarriedShape(proc[p]) /\ WalkShape(proc[p]) /\ DownShape(proc[p])
RecordInv == RowShape /\ \A p \in Procs : Shaped(p)

ChallengesInv ==
    /\ Types /\ Shapes
    /\ Undisturbed(setting) => Apart /\ Held /\ late.op # "delete" /\ AwaitedStays
    /\ ~setting.triggers => OneAtATime /\ RecordInv
=============================================================================
