---------------------------- MODULE Confirmation ----------------------------
(* Restoring from the console (webhook/admin.go, cmd/wecert/runtime.go, restore.go): *)
(* a challenge pins a one-shot token to the bytes a source has, a restore request    *)
(* with that token fingerprints the source again, spends the token and stages what   *)
(* the source then resolves to. Backups go on meanwhile.                             *)
EXTENDS Naturals, FiniteSets

CONSTANTS MaxTokens,    \* bound on the confirm tokens handed out
          Requests,     \* restore requests
          RestoreFrom,  \* sources a request may name
          MaxVersions,  \* bound on the snapshots a source gets
          MaxTime, TTL  \* bound on the clock; the life of a token

ASSUME ConfirmationAssumption ==
    MaxTokens \in Nat /\ MaxVersions \in Nat \ {0} /\ MaxTime \in Nat /\ TTL \in Nat \ {0}

Tokens == 1..MaxTokens

VARIABLES
    content,  \* per source: the snapshot it resolves to
    hour,     \* the clock
    grants,   \* the tokens outstanding: what they were minted for
    minted,   \* how many tokens have been handed out
    asks,     \* per request: where it is
    staged    \* history: the restores staged
confirmation == <<content, hour, grants, minted, asks, staged>>

NoGrant == [source |-> "none", digest |-> 0, expires |-> 0]
NotAsked == [pc |-> "idle", token |-> 0, source |-> "none", digest |-> 0, was |-> 0]

ConfirmationInit ==
    /\ content = [s \in RestoreFrom |-> 1] /\ hour = 0
    /\ grants = [t \in Tokens |-> NoGrant] /\ minted = 0
    /\ asks = [r \in Requests |-> NotAsked] /\ staged = {}

\* The snapshot loop writes a newer snapshot: `latest` resolves to another one.
NewSnapshot ==
    /\ \E s \in RestoreFrom : content[s] < MaxVersions /\ content' = [content EXCEPT ![s] = @ + 1]
    /\ UNCHANGED <<hour, grants, minted, asks, staged>>

HourPasses ==
    /\ hour < MaxTime /\ hour' = hour + 1
    /\ UNCHANGED <<content, grants, minted, asks, staged>>

\* The bytes a source has, 0 when it cannot be read. Size and bytes; the modification
\* time in it is left out (a download sets it to now).
Fingerprints(s) == {content[s], 0}

\* handleAdminChallenge: a source that cannot be read gets no token; expired tokens
\* go when another is handed out.
Challenge ==
    /\ minted < MaxTokens /\ minted' = minted + 1
    /\ \E s \in RestoreFrom :
         grants' = [t \in Tokens |->
                      IF t = minted' THEN [source |-> s, digest |-> content[s], expires |-> hour + TTL]
                      ELSE IF hour > grants[t].expires THEN NoGrant ELSE grants[t]]
    /\ UNCHANGED <<content, hour, asks, staged>>

\* handleAdminRestore, first half: the source is fingerprinted before the token is
\* looked at; that it cannot be read becomes the empty fingerprint.
Request(r) ==
    /\ asks[r].pc = "idle"
    /\ \E t \in Tokens, s \in RestoreFrom, d \in UNION {Fingerprints(q) : q \in RestoreFrom} :
         /\ d \in Fingerprints(s)
         /\ asks' = [asks EXCEPT ![r] = [pc |-> "consume", token |-> t, source |-> s,
                                         digest |-> d, was |-> 0]]
    /\ UNCHANGED <<content, hour, grants, minted, staged>>

\* Mutation: a token stays good until it expires.
Spent_Kept(t) == grants

\* The tokens after one is presented, good or not.
Spent(t) == [grants EXCEPT ![t] = NoGrant]

\* consumeConfirmToken's answer.
Confirmed(q) ==
    LET g == grants[q.token] IN
    /\ g # NoGrant /\ hour < g.expires /\ g.source = q.source
    /\ g.digest # 0 /\ g.digest = q.digest

\* Second half, under confirmMu.
Consume(r) ==
    /\ asks[r].pc = "consume"
    /\ grants' = Spent(asks[r].token)
    /\ asks' = [asks EXCEPT ![r] =
                  IF Confirmed(asks[r])
                    THEN [asks[r] EXCEPT !.pc = "stage", !.was = grants[asks[r].token].digest]
                    ELSE [asks[r] EXCEPT !.pc = "refused"]]
    /\ UNCHANGED <<content, hour, minted, staged>>

\* adminRestore resolves the source once more and stages what it finds.
StageRestore(r) ==
    /\ asks[r].pc = "stage"
    /\ \/ /\ staged' = staged \cup {[request |-> r, token |-> asks[r].token,
                                     was |-> asks[r].was, seen |-> asks[r].digest,
                                     got |-> content[asks[r].source]]}
       \/ UNCHANGED staged
    /\ asks' = [asks EXCEPT ![r].pc = "done"]
    /\ UNCHANGED <<content, hour, grants, minted>>

ConfirmationNext ==
    \/ NewSnapshot \/ HourPasses \/ Challenge
    \/ \E r \in Requests : Request(r) \/ Consume(r) \/ StageRestore(r)

-----------------------------------------------------------------------------
(* Properties                                                                       *)

Versions == 0..MaxVersions
ConfirmationType ==
    /\ content \in [RestoreFrom -> Versions] /\ hour \in 0..MaxTime
    /\ minted \in 0..MaxTokens
    /\ \A t \in Tokens : grants[t] = NoGrant \/
         grants[t] \in [source : RestoreFrom, digest : Versions, expires : 0..(MaxTime + TTL)]
    /\ \A r \in Requests : asks[r] = NotAsked \/
         asks[r] \in [pc : {"consume", "stage", "refused", "done"}, token : Tokens,
                      source : RestoreFrom, digest : Versions, was : Versions]

\* Every restore has a challenge of its own, and the source had not changed between
\* the challenge and the request: a token is spent once, whoever presents it.
OneRestorePerChallenge ==
    /\ \A s, u \in staged : s.token = u.token => s.request = u.request
    /\ \A s \in staged : s.token <= minted /\ s.was = s.seen /\ s.was # 0

\* What is staged is what the challenge was minted for: "a latest that is replaced
\* between challenge and restore then no longer matches, instead of restoring whatever
\* arrived in the meantime" (fingerprintRestoreSource).
StagedAsConfirmed == \A s \in staged : s.got = s.was
=============================================================================
