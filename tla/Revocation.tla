----------------------------- MODULE Revocation -----------------------------
(* The revocation requests of one certificate name (internal/acme/revoke.go,        *)
(* internal/state/revoke.go, cmd/wecert/revoke.go). An operator's `wecert -revoke`   *)
(* writes the decision into the database the running daemon uses and then tries it   *)
(* once; the daemon tries every recorded request once per pass. Certificates are     *)
(* numbered in the order they were issued, and a number is also the identity a       *)
(* request carries.                                                                  *)
EXTENDS Naturals, FiniteSets

CONSTANTS MaxCerts,          \* bound on the certificates issued under the name
          MaxTroubles,       \* bound on refusals, failed writes, crashes and deletions
          AskWhileInFlight   \* may the operator ask while the daemon is in an attempt?

NoCert == 0
Serials == 1..MaxCerts
Askers == {"daemon", "cli"}

ASSUME RevocationAssumption ==
    MaxCerts \in Nat \ {0} /\ MaxTroubles \in Nat /\ AskWhileInFlight \in BOOLEAN

VARIABLES
    issued,   \* how many certificates the name has had
    stored,   \* certificates: the certificate in the row, NoCert for no row
    archive,  \* retired_certificates: the earlier ones still held
    request,  \* revoke_requests: the identity asked for, and whether an attempt failed
    revoked,  \* the CA: the certificates it has revoked
    at,       \* where the daemon's and the command's attempt are
    decided,  \* history: the certificates the operator decided to revoke
    said,     \* history: the certificates the command reported as revoked
    troubles
revocation == <<issued, stored, archive, request, revoked, at, decided, said, troubles>>

NoRequest == [id |-> NoCert, tried |-> FALSE]
Resting == [pc |-> "rest", id |-> NoCert, asked |-> NoCert]

RevocationInit ==
    /\ issued = 1 /\ stored = 1 /\ archive = {} /\ request = NoRequest /\ revoked = {}
    /\ at = [p \in Askers |-> Resting]
    /\ decided = {} /\ said = {} /\ troubles = 0

Trouble == troubles < MaxTroubles /\ troubles' = troubles + 1
Moves(p, pc) == at' = [at EXCEPT ![p].pc = pc]
Rests(p) == at' = [at EXCEPT ![p] = Resting]

-----------------------------------------------------------------------------
(* The material                                                                     *)

\* A renewal replaces the certificate in the row; the earlier one is archived when
\* it had a copy in the cloud.
Renew ==
    /\ stored # NoCert /\ issued < MaxCerts
    /\ issued' = issued + 1 /\ stored' = issued + 1
    /\ archive' \in {archive, archive \cup {stored}}
    /\ UNCHANGED <<request, revoked, at, decided, said, troubles>>

\* Retention reclaims an archived certificate, its material with it.
Reclaim ==
    /\ \E c \in archive : archive' = archive \ {c}
    /\ UNCHANGED <<issued, stored, request, revoked, at, decided, said, troubles>>

\* The console deletes the certificate: its row goes, the request stays.
DeleteRow ==
    /\ stored # NoCert /\ Trouble
    /\ stored' = NoCert
    /\ UNCHANGED <<issued, archive, request, revoked, at, decided, said>>

-----------------------------------------------------------------------------
(* Asking                                                                           *)

\* The identity and the attempt ledger the upsert leaves behind: a request for other
\* material is a new decision, the same one asked again keeps its ledger.
Upserted(old, id) ==
    [id |-> id, tried |-> (old.id = id /\ old.tried)]

\* The command reads the certificate it is about ...
Ask ==
    /\ at["cli"] = Resting /\ stored # NoCert
    /\ AskWhileInFlight \/ at["daemon"] = Resting
    /\ at' = [at EXCEPT !["cli"] = [pc |-> "record", id |-> NoCert, asked |-> stored]]
    /\ UNCHANGED <<issued, stored, archive, request, revoked, decided, said, troubles>>

\* ... and records the decision, before it has spoken to the CA at all. When the
\* write fails the command says that nothing was recorded.
Record ==
    /\ at["cli"].pc = "record"
    /\ AskWhileInFlight \/ at["daemon"] = Resting
    /\ request' = Upserted(request, at["cli"].asked)
    /\ decided' = decided \cup {at["cli"].asked}
    /\ Moves("cli", "account")
    /\ UNCHANGED <<issued, stored, archive, revoked, said, troubles>>

RecordFails ==
    /\ at["cli"].pc = "record" /\ Trouble
    /\ Rests("cli")
    /\ UNCHANGED <<issued, stored, archive, request, revoked, decided, said>>

\* The account is read after the decision is on disk: without the CA the command ends
\* here, and leaves the request to the daemon.
EnsureAccount ==
    /\ at["cli"].pc = "account" /\ Moves("cli", "read")
    /\ UNCHANGED <<issued, stored, archive, request, revoked, decided, said, troubles>>

NoAccount ==
    /\ at["cli"].pc = "account" /\ Trouble /\ Rests("cli")
    /\ UNCHANGED <<issued, stored, archive, request, revoked, decided, said>>

\* The daemon's pass finds a request outstanding.
RetryPending ==
    /\ at["daemon"] = Resting /\ request # NoRequest
    /\ at["cli"].pc = "record" => AskWhileInFlight
    /\ Moves("daemon", "read")
    /\ UNCHANGED <<issued, stored, archive, request, revoked, decided, said, troubles>>

-----------------------------------------------------------------------------
(* One attempt, the same for both                                                   *)

\* The command's report once an attempt has ended without an error.
Reports(p) == IF p = "cli" THEN said \cup {at[p].asked} ELSE said

\* The request is read again: one that is gone is no error.
ReadRequest(p) ==
    /\ at[p].pc = "read"
    /\ IF request = NoRequest
         THEN Rests(p) /\ said' = Reports(p)
         ELSE at' = [at EXCEPT ![p].pc = "material", ![p].id = request.id] /\ UNCHANGED said
    /\ UNCHANGED <<issued, stored, archive, request, revoked, decided, troubles>>

\* The certificate whose bytes go to the CA: the stored one only while it is the one
\* the request is about, else the archived copy; NoCert when there is none.
\* Mutation: whatever is stored under the name.
Material_Stored(id) == IF stored # NoCert THEN stored ELSE IF id \in archive THEN id ELSE NoCert

Material(id) == IF stored = id \/ id \in archive THEN id ELSE NoCert

\* The failed attempt is counted on the row of that name, whatever it names by now.
\* Mutation: an attempt that failed gives the request up.
Failed_GivenUp == NoRequest

Failed == IF request = NoRequest THEN NoRequest ELSE [request EXCEPT !.tried = TRUE]

FindMaterial(p) ==
    /\ at[p].pc = "material"
    /\ LET c == Material(at[p].id) IN
         IF c = NoCert
           THEN request' = Failed /\ Rests(p)
           ELSE at' = [at EXCEPT ![p].pc = "send", ![p].id = c] /\ UNCHANGED request
    /\ UNCHANGED <<issued, stored, archive, revoked, decided, said, troubles>>

\* The CA revokes; that it had done so before is the same answer.
Revoke(p) ==
    /\ at[p].pc = "send"
    /\ revoked' = revoked \cup {at[p].id}
    /\ Moves(p, "clear")
    /\ UNCHANGED <<issued, stored, archive, request, decided, said, troubles>>

\* The CA refuses or cannot be reached, or its answer is lost after it acted.
RevokeFails(p) ==
    /\ at[p].pc = "send" /\ Trouble
    /\ revoked' \in {revoked, revoked \cup {at[p].id}}
    /\ request' = Failed /\ Rests(p)
    /\ UNCHANGED <<issued, stored, archive, decided, said>>

\* The request is deleted, by name. One that cannot be deleted is tried again on the
\* next pass; neither is an error to the caller.
Clear(p) ==
    /\ at[p].pc = "clear"
    /\ \/ request' = NoRequest /\ UNCHANGED troubles
       \/ UNCHANGED request /\ Trouble
    /\ said' = Reports(p) /\ Rests(p)
    /\ UNCHANGED <<issued, stored, archive, revoked, decided>>

\* Either process may end anywhere; what it held in memory is gone.
Dies(p) ==
    /\ at[p] # Resting /\ Trouble /\ Rests(p)
    /\ UNCHANGED <<issued, stored, archive, request, revoked, decided, said>>

Attempt(p) == ReadRequest(p) \/ FindMaterial(p) \/ Revoke(p) \/ RevokeFails(p) \/ Clear(p)

RevocationNext ==
    \/ Renew \/ Reclaim \/ DeleteRow \/ Ask \/ Record \/ RecordFails \/ EnsureAccount
    \/ NoAccount \/ RetryPending
    \/ \E p \in Askers : Attempt(p) \/ Dies(p)

\* What goes on by itself: every pass asks for outstanding requests and every call made
\* ends; a command that was started runs on.
DaemonGoesOn == RetryPending \/ Attempt("daemon")
CommandGoesOn == Record \/ EnsureAccount \/ Attempt("cli")

-----------------------------------------------------------------------------
(* Properties                                                                       *)

RevocationType ==
    /\ issued \in Serials /\ stored \in Serials \cup {NoCert} /\ archive \subseteq Serials
    /\ request \in [id : Serials \cup {NoCert}, tried : BOOLEAN]
    /\ revoked \subseteq Serials /\ decided \subseteq Serials /\ said \subseteq Serials
    /\ at \in [Askers -> [pc : {"rest", "record", "account", "read", "material", "send", "clear"},
                          id : Serials \cup {NoCert}, asked : Serials \cup {NoCert}]]
    /\ troubles \in 0..MaxTroubles

\* Only a certificate the operator decided about is revoked: not the healthy one that
\* a renewal has put in its place since (revocationMaterial); and what the command
\* reports as revoked is revoked (runRevoke), also when the daemon got there first.
RevocationsAreTrue == revoked \subseteq decided /\ said \subseteq revoked

\* A recorded decision leaves the table only when the CA has revoked what it names, or
\* the operator has replaced it by another ("the request is recorded and will be
\* retried until the CA accepts it").
DecisionKept ==
    [][request.id # NoCert /\ request'.id # request.id =>
         request.id \in revoked \/ decided' # decided \/ request'.id # NoCert]_revocation

\* A recorded decision is carried out in the end, unless the operator records another
\* in its place or the certificate's material is gone: the daemon comes back to it, and
\* the CA answers sooner or later.
DecisionCarriedOut ==
    \A c \in Serials :
        request.id = c ~> \/ c \in revoked \/ request.id \notin {c, NoCert}
                          \/ c # stored /\ c \notin archive
=============================================================================
