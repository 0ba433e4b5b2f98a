----------------------- MODULE Administration_proofs -----------------------
(* What holds of every part of Administration, for every number of         *)
(* certificates, addresses, requests, hosts and names: the types of all    *)
(* six, and the safety properties of the parts. Each part is proved on its *)
(* own; PartsMoveAlone carries the results over to the composition.        *)
EXTENDS AdministrationInvariant, FiniteSetTheorems, TLAPS

\* A step of the whole is, for each part, a step of that part or none.
LEMMA PartsMoveAlone ==
    ASSUME [Next]_administration
    PROVE  /\ [RevocationNext]_revocation /\ [ConsoleNext]_console
           /\ [LockoutNext]_lockout /\ [ConfirmationNext]_confirmation
           /\ [EvidenceNext]_evidence /\ [OnboardingNext]_onboarding
           /\ UNCHANGED part
BY DEF Next, administration

-----------------------------------------------------------------------------
(* Lockout                                                                 *)

\* What an entry is.
Entries == [failures : 0..MaxFailures, since : 0..MaxClock, until : 0..(MaxClock + BlockFor)]

\* A sweep takes entries away and changes none; a blocked one it leaves alone.
LEMMA SweptEntries ==
    ASSUME LockoutInv
    PROVE  /\ Swept \in [Addrs -> Entries]
           /\ \A a \in Addrs : Swept[a] = Untracked \/ Swept[a] = entries[a]
           /\ \A a \in Addrs : Blocked(a) => Swept[a] = entries[a]
           /\ Tracked(Swept) \subseteq Tracked(entries)
<1> USE LockoutAssumption
<1>1. Untracked \in Entries
  BY DEF Untracked, Entries
<1>2. \A a \in Addrs : entries[a] \in Entries
  BY DEF LockoutInv, LockoutType, Entries
<1>3. \A a \in Addrs : Swept[a] = Untracked \/ Swept[a] = entries[a]
  BY DEF Swept
<1>4. Swept \in [Addrs -> Entries]
  BY <1>1, <1>2 DEF Swept
<1>5. \A a \in Addrs : Blocked(a) => Swept[a] = entries[a]
  <2> SUFFICES ASSUME NEW a \in Addrs, Blocked(a) PROVE Swept[a] = entries[a]
    OBVIOUS
  <2>1. clock \in Nat /\ entries[a].until \in Nat /\ clock < entries[a].until
    BY <1>2 DEF LockoutInv, LockoutType, Entries, Blocked
  <2> QED
    BY <2>1 DEF Swept
<1>6. Tracked(Swept) \subseteq Tracked(entries)
  BY <1>3 DEF Tracked
<1> QED
  BY <1>3, <1>4, <1>5, <1>6

\* A map with the entries of another is as small; so is one with an entry more, below
\* the ceiling.
LEMMA SmallMaps ==
    ASSUME NEW S, IsFiniteSet(S), Cardinality(S) <= MaxEntries, NEW T
    PROVE  /\ T \subseteq S => IsFiniteSet(T) /\ Cardinality(T) <= MaxEntries
           /\ \A a : T \subseteq S \cup {a} /\ ~(Cardinality(S) >= MaxEntries)
                 => IsFiniteSet(T) /\ Cardinality(T) <= MaxEntries
<1>0. Cardinality(S) \in Nat /\ MaxEntries \in Nat
  BY FS_CardinalityType, LockoutAssumption
<1>1. ASSUME T \subseteq S PROVE IsFiniteSet(T) /\ Cardinality(T) <= MaxEntries
  <2>1. IsFiniteSet(T) /\ Cardinality(T) <= Cardinality(S) /\ Cardinality(T) \in Nat
    BY <1>1, FS_Subset, FS_CardinalityType
  <2> QED
    BY <1>0, <2>1
<1>2. ASSUME NEW a, T \subseteq S \cup {a}, ~(Cardinality(S) >= MaxEntries)
      PROVE  IsFiniteSet(T) /\ Cardinality(T) <= MaxEntries
  <2>1. IsFiniteSet(S \cup {a}) /\ Cardinality(S \cup {a}) <= Cardinality(S) + 1
    <3>1. a \in S => S \cup {a} = S
      OBVIOUS
    <3>2. a \notin S => Cardinality(S \cup {a}) = Cardinality(S) + 1
      BY FS_AddElement
    <3> QED
      BY <3>1, <3>2, <1>0, FS_AddElement
  <2>2. IsFiniteSet(T) /\ Cardinality(T) <= Cardinality(S \cup {a})
    BY <1>2, <2>1, FS_Subset
  <2>3. Cardinality(T) \in Nat /\ Cardinality(S \cup {a}) \in Nat
    BY <2>1, <2>2, FS_CardinalityType
  <2> QED
    BY <1>0, <1>2, <2>1, <2>2, <2>3
<1> QED
  BY <1>1, <1>2

\* A wrong token keeps the invariant.
LEMMA WrongKeeps == ASSUME LockoutInv, NEW a \in Addrs, Wrong(a) PROVE LockoutInv'
<1> USE LockoutAssumption
<1>1. /\ clock \in 1..MaxClock /\ lastGC \in 0..MaxClock
      /\ clock' = clock /\ lastGC' \in 0..MaxClock
  BY DEF LockoutInv, LockoutType, Wrong, Sweeps
<1>2. PICK s \in [Addrs -> Entries] : s = Swept
  BY SweptEntries
<1>s. /\ \A b \in Addrs : s[b].failures \in 0..MaxFailures /\ s[b].since \in 0..MaxClock
                          /\ s[b].until \in 0..(MaxClock + BlockFor)
      /\ \A b \in Addrs : s[b].since <= clock
                          /\ (s[b].failures = MaxFailures => s[b].until >= s[b].since + BlockFor)
      /\ s[a].until <= clock
  <2>1. \A b \in Addrs : s[b] \in Entries /\ (s[b] = Untracked \/ s[b] = entries[b])
    BY <1>2, SweptEntries
  <2>2. entries[a].until <= clock
    BY <1>1 DEF Wrong, Blocked, LockoutInv, LockoutType
  <2> QED
    BY <1>1, <2>1, <2>2 DEF Entries, Untracked, LockoutInv, BlocksOutlast
<1>n. PICK n \in Nat : n = (IF StartsAnew(s, a) THEN 0 ELSE s[a].failures) + 1
  BY <1>s
<1>3. Counted(s, a) = [failures |-> n,
                       since |-> IF StartsAnew(s, a) THEN clock ELSE s[a].since,
                       until |-> IF n >= MaxFailures THEN clock + BlockFor
                                 ELSE IF StartsAnew(s, a) THEN 0 ELSE s[a].until]
  BY <1>n DEF Counted
<1>4. n <= MaxFailures
  <2>1. CASE StartsAnew(s, a)
    BY <1>n, <2>1
  <2>2. CASE ~StartsAnew(s, a)
    <3>1. ~(clock - s[a].since > Window /\ clock >= s[a].until)
      BY <2>2 DEF StartsAnew
    <3>2. s[a].failures # MaxFailures
      BY <3>1, <1>s, <1>1
    <3> QED
      BY <2>2, <3>2, <1>n, <1>s
  <2> QED
    BY <2>1, <2>2
<1>5. /\ Counted(s, a) \in Entries
      /\ Counted(s, a).since <= clock
      /\ Counted(s, a).failures = MaxFailures =>
            Counted(s, a).until >= Counted(s, a).since + BlockFor
  <2>1. CASE StartsAnew(s, a)
    BY <2>1, <1>3, <1>4, <1>n, <1>1 DEF Entries
  <2>2. CASE ~StartsAnew(s, a)
    BY <2>2, <1>3, <1>4, <1>n, <1>1, <1>s DEF Entries
  <2> QED
    BY <2>1, <2>2
<1>6. entries' = s \/ (entries' = [s EXCEPT ![a] = Counted(s, a)] /\ ~Ceiling(s, a))
  BY <1>2 DEF Wrong
<1>7. LockoutType'
  BY <1>1, <1>5, <1>6, <1>2 DEF LockoutType, Entries
<1>8. BlocksOutlast'
  <2>1. \A b \in Addrs : entries'[b] = s[b] \/ entries'[b] = Counted(s, a)
    BY <1>6
  <2> QED
    BY <2>1, <1>5, <1>s, <1>1 DEF BlocksOutlast
<1>9. MapIsBounded'
  <2>1. IsFiniteSet(Tracked(s)) /\ Cardinality(Tracked(s)) <= MaxEntries
    BY <1>2, SweptEntries, SmallMaps DEF LockoutInv, MapIsBounded
  <2>2. CASE entries' = s
    BY <2>1, <2>2 DEF MapIsBounded, Tracked
  <2>3. CASE entries' = [s EXCEPT ![a] = Counted(s, a)] /\ ~Ceiling(s, a)
    <3>1. Tracked(entries') \subseteq Tracked(s) \cup {a}
      BY <2>3 DEF Tracked
    <3>2. s[a] # Untracked => Tracked(entries') \subseteq Tracked(s)
      BY <3>1 DEF Tracked
    <3>3. s[a] = Untracked => ~(Cardinality(Tracked(s)) >= MaxEntries)
      BY <2>3 DEF Ceiling
    <3>4. IsFiniteSet(Tracked(entries')) /\ Cardinality(Tracked(entries')) <= MaxEntries
      BY <3>1, <3>2, <3>3, <2>1, SmallMaps
    <3> QED
      BY <3>4 DEF MapIsBounded, Tracked
  <2> QED
    BY <1>6, <2>2, <2>3
<1> QED
  BY <1>7, <1>8, <1>9 DEF LockoutInv

\* So does a right one.
LEMMA RightKeeps == ASSUME LockoutInv, NEW a \in Addrs, Right(a) PROVE LockoutInv'
<1> USE LockoutAssumption
<1>1. /\ clock \in 1..MaxClock /\ lastGC \in 0..MaxClock
      /\ clock' = clock /\ lastGC' \in 0..MaxClock
  BY DEF LockoutInv, LockoutType, Right, Sweeps
<1>2. PICK s \in [Addrs -> Entries] : s = Swept
  BY SweptEntries
<1>s. /\ \A b \in Addrs : s[b].failures \in 0..MaxFailures /\ s[b].since \in 0..MaxClock
                          /\ s[b].until \in 0..(MaxClock + BlockFor)
      /\ \A b \in Addrs : s[b].since <= clock
                          /\ (s[b].failures = MaxFailures => s[b].until >= s[b].since + BlockFor)
  <2>1. \A b \in Addrs : s[b] \in Entries /\ (s[b] = Untracked \/ s[b] = entries[b])
    BY <1>2, SweptEntries
  <2> QED
    BY <1>1, <2>1 DEF Entries, Untracked, LockoutInv, BlocksOutlast
<1>3. PICK half \in Nat : half = s[a].failures \div 2
  BY <1>s
<1>4. half \in 0..MaxFailures /\ (half = MaxFailures => s[a].failures = MaxFailures)
  BY <1>3, <1>s
<1>5. PICK e : e = [s[a] EXCEPT !.failures = half]
  OBVIOUS
<1>6. /\ e \in Entries /\ e.since = s[a].since /\ e.until = s[a].until /\ e.failures = half
      /\ s[a] = Untracked => e = Untracked
  <2>1. s[a] \in Entries
    OBVIOUS
  <2>2. s[a] = Untracked => half = 0
    BY <1>3 DEF Untracked
  <2> QED
    BY <2>1, <2>2, <1>4, <1>5 DEF Entries, Untracked
<1>7. entries' = [s EXCEPT ![a] = Untracked] \/ entries' = [s EXCEPT ![a] = e]
  BY <1>2, <1>3, <1>5 DEF Right
<1>8. Untracked \in Entries
  BY DEF Untracked, Entries
<1>9. LockoutType'
  BY <1>1, <1>2, <1>6, <1>7, <1>8 DEF LockoutType, Entries
<1>10. BlocksOutlast'
  <2>1. \A b \in Addrs : entries'[b] = s[b] \/ entries'[b] = Untracked
                         \/ (b = a /\ entries'[b] = e)
    BY <1>7
  <2> QED
    BY <2>1, <1>4, <1>6, <1>s, <1>1 DEF BlocksOutlast, Untracked
<1>11. MapIsBounded'
  <2>1. Tracked(entries') \subseteq Tracked(s)
    BY <1>6, <1>7 DEF Tracked
  <2>2. Tracked(entries') \subseteq Tracked(entries)
    BY <2>1, <1>2, SweptEntries
  <2>3. IsFiniteSet(Tracked(entries')) /\ Cardinality(Tracked(entries')) <= MaxEntries
    BY <2>2, SmallMaps DEF LockoutInv, MapIsBounded
  <2> QED
    BY <2>3 DEF MapIsBounded, Tracked
<1> QED
  BY <1>9, <1>10, <1>11 DEF LockoutInv

\* The invariant of Lockout is inductive.
LEMMA LockoutInductive ==
    /\ LockoutInit => LockoutInv
    /\ LockoutInv /\ [LockoutNext]_lockout => LockoutInv'
<1>1. ASSUME LockoutInit PROVE LockoutInv
  <2>1. Tracked(entries) = {}
    BY <1>1 DEF LockoutInit, Tracked
  <2>2. MapIsBounded
    BY <2>1, FS_EmptySet, LockoutAssumption DEF MapIsBounded
  <2> QED
    BY <1>1, <2>2, LockoutAssumption
    DEF LockoutInit, LockoutInv, LockoutType, BlocksOutlast, Untracked
<1>2. ASSUME LockoutInv, Tick PROVE LockoutInv'
  <2>1. MapIsBounded'
    BY <1>2 DEF LockoutInv, MapIsBounded, Tick, Tracked
  <2>2. LockoutType'
    BY <1>2, LockoutAssumption DEF LockoutInv, LockoutType, Tick
  <2>3. BlocksOutlast'
    BY <1>2, LockoutAssumption DEF LockoutInv, LockoutType, BlocksOutlast, Tick
  <2> QED
    BY <2>1, <2>2, <2>3 DEF LockoutInv
<1>3. ASSUME LockoutInv, UNCHANGED lockout PROVE LockoutInv'
  BY <1>3 DEF LockoutInv, lockout, LockoutType, BlocksOutlast, MapIsBounded, Tracked
<1> QED
  BY <1>1, <1>2, <1>3, WrongKeeps, RightKeeps DEF LockoutNext, Auth

\* A step of Lockout leaves a block alone, unless it is a right token of that address.
LEMMA BlocksAreKept ==
    ASSUME LockoutInv, [LockoutNext]_lockout, NEW a \in Addrs, Blocked(a), ~Right(a)
    PROVE  entries'[a] = entries[a]
<1>1. entries \in [Addrs -> Entries] /\ Swept[a] = entries[a] /\ Swept \in [Addrs -> Entries]
  BY SweptEntries DEF LockoutInv, LockoutType, Entries
<1>2. CASE Tick \/ UNCHANGED lockout
  BY <1>2 DEF Tick, lockout
<1>3. ASSUME NEW b \in Addrs, Wrong(b) PROVE entries'[a] = entries[a]
  <2>1. a # b
    BY <1>3 DEF Wrong
  <2> QED
    BY <1>1, <1>3, <2>1 DEF Wrong
<1>4. ASSUME NEW b \in Addrs, Right(b) PROVE entries'[a] = entries[a]
  <2>1. a # b
    BY <1>4
  <2> QED
    BY <1>1, <1>4, <2>1 DEF Right
<1> QED
  BY <1>2, <1>3, <1>4 DEF LockoutNext, Auth

\* A lockout ends by time or by right tokens of the locked-out address: no flood of other
\* addresses, no sweep and no wrong token lifts it, and the map never outgrows its ceiling.
THEOREM BlocksAlwaysSurvive == Spec => BlocksSurviveFloods
<1>1. Init => LockoutInv
  BY LockoutInductive DEF Init
<1>2. LockoutInv /\ [Next]_administration => LockoutInv'
  BY LockoutInductive, PartsMoveAlone
<1>3. LockoutInv /\ [Next]_administration =>
        [/\ Cardinality(Tracked(entries')) <= MaxEntries
         /\ \A a \in Addrs : Blocked(a) /\ ~Right(a) => entries'[a] = entries[a]]_lockout
  <2> SUFFICES ASSUME LockoutInv, [Next]_administration
               PROVE  /\ Cardinality(Tracked(entries')) <= MaxEntries
                      /\ \A a \in Addrs : Blocked(a) /\ ~Right(a) => entries'[a] = entries[a]
    OBVIOUS
  <2>1. Cardinality(Tracked(entries')) <= MaxEntries
    BY <1>2 DEF LockoutInv, MapIsBounded, Tracked
  <2> QED
    BY <2>1, BlocksAreKept, PartsMoveAlone
<1> QED
  BY <1>1, <1>2, <1>3, PTL DEF Spec, BlocksSurviveFloods

-----------------------------------------------------------------------------
(* Confirmation                                                            *)

\* A challenge keeps the invariant: its token is new.
LEMMA ChallengeKeeps ==
    ASSUME ConfirmationInv, Challenge PROVE ConfirmationInv'
<1> USE ConfirmationAssumption
<1>1. PICK s \in RestoreFrom :
         grants' = [t \in Tokens |->
                      IF t = minted' THEN [source |-> s, digest |-> content[s], expires |-> hour + TTL]
                      ELSE IF hour > grants[t].expires THEN NoGrant ELSE grants[t]]
  BY DEF Challenge
<1>2. minted \in 0..MaxTokens /\ minted' = minted + 1 /\ minted' \in Tokens /\ hour \in 0..MaxTime
  BY DEF Challenge, ConfirmationInv, ConfirmationType, Tokens
<1>3. \A t \in Tokens : grants'[t] = NoGrant \/ grants'[t] \in Grants
  <2>1. [source |-> s, digest |-> content[s], expires |-> hour + TTL] \in Grants
    BY <1>2 DEF Grants, ConfirmationInv, ConfirmationType, Versions
  <2>2. \A t \in Tokens : grants[t] = NoGrant \/ grants[t] \in Grants
    BY DEF ConfirmationInv, ConfirmationType, Grants
  <2> QED
    BY <1>1, <2>1, <2>2
<1>4. \A t \in Tokens : t <= minted /\ grants[t] = NoGrant => grants'[t] = NoGrant
  BY <1>1, <1>2 DEF Tokens
<1>5. \A t \in Tokens : grants'[t] # NoGrant => t <= minted'
  BY <1>1, <1>2 DEF Tokens, ConfirmationInv, SpentOnce
<1>6. UNCHANGED <<content, hour, asks, staged>>
  BY DEF Challenge
<1>7. ConfirmationType' /\ ConfirmationShape'
  <2>1. ConfirmationShape'
    BY <1>1, <1>3, <1>6 DEF ConfirmationInv, ConfirmationShape
  <2> QED
    BY <2>1, <1>2, <1>3, <1>6 DEF ConfirmationInv, ConfirmationType, Grants, Versions, Tokens
<1>8. \A r \in Requests : asks[r] # NotAsked => asks[r].token \in Tokens
  BY DEF ConfirmationInv, ConfirmationType
<1>9. \A r \in Confirming : asks[r].token \in Tokens /\ asks[r].token <= minted
  BY <1>8 DEF Confirming, NotAsked, ConfirmationInv, SpentOnce
<1>10. \A s0 \in staged : s0.token \in Tokens /\ s0.token <= minted
  BY DEF ConfirmationInv, SpentOnce, OneRestorePerChallenge
<1>11. SpentOnce'
  <2>1. Confirming' = Confirming
    BY <1>6 DEF Confirming
  <2>2. \A r \in Confirming : asks[r].token <= minted' /\ grants'[asks[r].token] = NoGrant
    BY <1>2, <1>4, <1>9 DEF ConfirmationInv, SpentOnce, Tokens
  <2>3. \A s0 \in staged : grants'[s0.token] = NoGrant
    BY <1>4, <1>10 DEF ConfirmationInv, SpentOnce
  <2> QED
    BY <1>5, <1>6, <2>1, <2>2, <2>3 DEF ConfirmationInv, SpentOnce
<1>12. OneRestorePerChallenge'
  BY <1>2, <1>6, <1>10 DEF ConfirmationInv, OneRestorePerChallenge, Tokens
<1> QED
  BY <1>7, <1>11, <1>12 DEF ConfirmationInv

\* A request keeps the invariant: nothing is spent yet.
LEMMA RequestKeeps ==
    ASSUME ConfirmationInv, NEW r \in Requests, Request(r) PROVE ConfirmationInv'
<1> USE ConfirmationAssumption
<1>1. PICK t \in Tokens, s \in RestoreFrom, d \in {0} \cup {content[q] : q \in RestoreFrom} :
         asks' = [asks EXCEPT ![r] = [pc |-> "consume", token |-> t, source |-> s,
                                      digest |-> d, was |-> 0]]
  BY DEF Request, Fingerprints
<1>2. d \in Versions /\ 0 \in Versions
  BY DEF ConfirmationInv, ConfirmationType, Versions
<1>3. UNCHANGED <<content, hour, grants, minted, staged>>
  BY DEF Request
<1>4. \A q \in Requests : asks'[q] = IF q = r THEN
         [pc |-> "consume", token |-> t, source |-> s, digest |-> d, was |-> 0] ELSE asks[q]
  BY <1>1 DEF ConfirmationInv, ConfirmationShape
<1>5. ConfirmationType' /\ ConfirmationShape'
  <2>1. [pc |-> "consume", token |-> t, source |-> s, digest |-> d, was |-> 0] \in Asked
    BY <1>2 DEF Asked
  <2>2. ConfirmationShape'
    BY <2>1, <1>1, <1>3 DEF ConfirmationInv, ConfirmationShape
  <2> QED
    BY <2>1, <2>2, <1>3, <1>4 DEF ConfirmationInv, ConfirmationType, Asked, Versions, Tokens
<1>6. Confirming' \subseteq Confirming /\ \A q \in Confirming' : asks'[q] = asks[q]
  BY <1>4 DEF Confirming
<1>7. SpentOnce'
  BY <1>3, <1>6 DEF ConfirmationInv, SpentOnce
<1>8. OneRestorePerChallenge'
  BY <1>3 DEF ConfirmationInv, OneRestorePerChallenge
<1> QED
  BY <1>5, <1>7, <1>8 DEF ConfirmationInv

\* Presenting a token keeps the invariant: it is spent, and was not before.
LEMMA ConsumeKeeps ==
    ASSUME ConfirmationInv, NEW r \in Requests, Consume(r) PROVE ConfirmationInv'
<1> USE ConfirmationAssumption
<1>1. PICK q : q = asks[r]
  OBVIOUS
<1>2. q \in Asked /\ q.pc = "consume" /\ q.token \in Tokens
  BY <1>1 DEF Consume, ConfirmationInv, ConfirmationShape, NotAsked, Asked
<1>3. PICK g : g = grants[q.token]
  OBVIOUS
<1>4. /\ grants' = [grants EXCEPT ![q.token] = NoGrant]
      /\ asks' = [asks EXCEPT ![r] = IF Confirmed(q) THEN [q EXCEPT !.pc = "stage", !.was = g.digest]
                                     ELSE [q EXCEPT !.pc = "refused"]]
      /\ UNCHANGED <<content, hour, minted, staged>>
  BY <1>1, <1>3 DEF Consume, Spent
<1>5. Confirmed(q) => /\ g \in Grants /\ q.token <= minted
                      /\ g.digest = q.digest /\ g.digest # 0
  BY <1>2, <1>3 DEF Confirmed, ConfirmationInv, ConfirmationShape, SpentOnce
<1>6. PICK p : p = IF Confirmed(q) THEN [q EXCEPT !.pc = "stage", !.was = g.digest]
                   ELSE [q EXCEPT !.pc = "refused"]
  OBVIOUS
<1>7. /\ p \in Asked /\ p.pc \in {"stage", "refused"} /\ p.token = q.token
      /\ p.pc = "stage" => /\ q.token <= minted /\ grants[q.token] # NoGrant
                           /\ p.was = p.digest /\ p.was # 0
  <2>1. CASE Confirmed(q)
    <3>1. g.digest \in Versions /\ g # NoGrant
      BY <1>5, <2>1 DEF Grants, Confirmed, NoGrant
    <3>2. p = [q EXCEPT !.pc = "stage", !.was = g.digest]
      BY <1>6, <2>1
    <3>3. grants[q.token] # NoGrant
      BY <2>1 DEF Confirmed
    <3>4. p \in Asked /\ p.pc = "stage" /\ p.token = q.token /\ p.was = g.digest /\ p.digest = q.digest
      BY <1>2, <3>1, <3>2 DEF Asked
    <3> QED
      BY <1>5, <2>1, <3>3, <3>4
  <2>2. CASE ~Confirmed(q)
    <3>1. p = [q EXCEPT !.pc = "refused"]
      BY <1>6, <2>2
    <3> QED
      BY <1>2, <3>1 DEF Asked
  <2> QED
    BY <2>1, <2>2
<1>8. ConfirmationShape'
  BY <1>2, <1>4, <1>6, <1>7 DEF ConfirmationInv, ConfirmationShape
<1>9. ConfirmationType'
  BY <1>4, <1>8 DEF ConfirmationInv, ConfirmationType, ConfirmationShape, Asked, Grants
<1>10. \A t \in Tokens : grants'[t] = IF t = q.token THEN NoGrant ELSE grants[t]
  BY <1>4 DEF ConfirmationInv, ConfirmationShape
<1>11. \A x \in Requests : asks'[x] = IF x = r THEN p ELSE asks[x]
  BY <1>4, <1>6 DEF ConfirmationInv, ConfirmationShape
<1>12. \A x \in Confirming' : x \in Confirming \/ (x = r /\ p.pc = "stage")
  BY <1>11 DEF Confirming
<1>13. \A x \in Confirming : asks[x].token \in Tokens /\ grants[asks[x].token] = NoGrant /\ x # r
  BY <1>1, <1>2 DEF Confirming, ConfirmationInv, ConfirmationShape, SpentOnce, Asked, NotAsked
<1>14. \A s \in staged : s.token \in Tokens /\ grants[s.token] = NoGrant
  BY DEF ConfirmationInv, SpentOnce
<1>15. SpentOnce'
  <2>1. \A t \in Tokens : grants'[t] # NoGrant => t <= minted'
    BY <1>4, <1>10 DEF ConfirmationInv, SpentOnce
  <2>2. \A x \in Confirming' :
           /\ asks'[x].token <= minted' /\ grants'[asks'[x].token] = NoGrant
           /\ asks'[x].was = asks'[x].digest /\ asks'[x].was # 0
    <3> SUFFICES ASSUME NEW x \in Confirming'
                 PROVE  /\ asks'[x].token <= minted' /\ grants'[asks'[x].token] = NoGrant
                        /\ asks'[x].was = asks'[x].digest /\ asks'[x].was # 0
      OBVIOUS
    <3>1. CASE x = r /\ p.pc = "stage"
      BY <3>1, <1>2, <1>4, <1>7, <1>10, <1>11
    <3>2. CASE x \in Confirming
      <4>1. x \in Requests /\ asks'[x] = asks[x]
        BY <3>2, <1>11, <1>13 DEF Confirming
      <4> QED
        BY <3>2, <4>1, <1>4, <1>10, <1>13 DEF ConfirmationInv, SpentOnce
    <3> QED
      BY <1>12, <3>1, <3>2
  <2>3. \A x, y \in Confirming' : asks'[x].token = asks'[y].token => x = y
    <3> SUFFICES ASSUME NEW x \in Confirming', NEW y \in Confirming', x # y
                 PROVE  asks'[x].token # asks'[y].token
      OBVIOUS
    <3>0. x \in Requests /\ y \in Requests
      BY DEF Confirming
    <3>1. CASE x \in Confirming /\ y \in Confirming
      BY <3>0, <3>1, <1>11, <1>13 DEF ConfirmationInv, SpentOnce
    <3>2. CASE x = r /\ p.pc = "stage" /\ y \in Confirming
      BY <3>0, <3>2, <1>7, <1>11, <1>13
    <3>3. CASE y = r /\ p.pc = "stage" /\ x \in Confirming
      BY <3>0, <3>3, <1>7, <1>11, <1>13
    <3> QED
      BY <1>12, <3>1, <3>2, <3>3
  <2>4. \A s \in staged' : s.token \in Tokens /\ grants'[s.token] = NoGrant
    BY <1>4, <1>10, <1>14
  <2>5. \A s \in staged', x \in Confirming' : s.token # asks'[x].token
    <3> SUFFICES ASSUME NEW s \in staged', NEW x \in Confirming' PROVE s.token # asks'[x].token
      OBVIOUS
    <3>0. x \in Requests /\ s \in staged
      BY <1>4 DEF Confirming
    <3>1. CASE x = r /\ p.pc = "stage"
      BY <3>0, <3>1, <1>7, <1>11, <1>14
    <3>2. CASE x \in Confirming
      BY <3>0, <3>2, <1>11, <1>13 DEF ConfirmationInv, SpentOnce
    <3> QED
      BY <1>12, <3>1, <3>2
  <2> QED
    BY <2>1, <2>2, <2>3, <2>4, <2>5 DEF SpentOnce
<1>16. OneRestorePerChallenge'
  BY <1>4 DEF ConfirmationInv, OneRestorePerChallenge
<1> QED
  BY <1>8, <1>9, <1>15, <1>16 DEF ConfirmationInv

\* Staging keeps the invariant: the token was accepted for this request alone.
LEMMA StageKeeps ==
    ASSUME ConfirmationInv, NEW r \in Requests, StageRestore(r) PROVE ConfirmationInv'
<1> USE ConfirmationAssumption
<1>1. PICK q : q = asks[r]
  OBVIOUS
<1>2. q \in Asked /\ q.pc = "stage" /\ r \in Confirming
  BY <1>1 DEF StageRestore, ConfirmationInv, ConfirmationShape, NotAsked, Asked, Confirming
<1>3. PICK e : e = [request |-> r, token |-> q.token, was |-> q.was, seen |-> q.digest,
                    got |-> content[q.source]]
  OBVIOUS
<1>4. /\ staged' = staged \cup {e} \/ staged' = staged
      /\ asks' = [asks EXCEPT ![r].pc = "done"]
      /\ UNCHANGED <<content, hour, grants, minted>>
  BY <1>1, <1>3 DEF StageRestore
<1>5. PICK p : p = [q EXCEPT !.pc = "done"]
  OBVIOUS
<1>6. p \in Asked /\ p.pc = "done"
  BY <1>2, <1>5 DEF Asked
<1>7. \A x \in Requests : asks'[x] = IF x = r THEN p ELSE asks[x]
  BY <1>1, <1>4, <1>5 DEF ConfirmationInv, ConfirmationShape
<1>8. ConfirmationShape'
  <2>1. asks' = [asks EXCEPT ![r] = p]
    BY <1>1, <1>4, <1>5
  <2> QED
    BY <2>1, <1>4, <1>6 DEF ConfirmationInv, ConfirmationShape
<1>9. ConfirmationType'
  BY <1>4, <1>8 DEF ConfirmationInv, ConfirmationType, ConfirmationShape, Asked, Grants
<1>10. /\ q.token \in Tokens /\ q.token <= minted /\ grants[q.token] = NoGrant
       /\ q.was = q.digest /\ q.was # 0
  BY <1>1, <1>2 DEF ConfirmationInv, SpentOnce, Asked
<1>11. /\ e.token = q.token /\ e.request = r /\ e.was = q.was /\ e.seen = q.digest
       /\ \A s \in staged : s.token # e.token
  BY <1>1, <1>2, <1>3 DEF ConfirmationInv, SpentOnce
<1>12. \A x \in Confirming' : x \in Confirming /\ x # r /\ x \in Requests /\ asks'[x] = asks[x]
  BY <1>6, <1>7 DEF Confirming
<1>13. \A x \in Confirming : x # r => asks[x].token # e.token
  BY <1>1, <1>2, <1>11 DEF ConfirmationInv, SpentOnce
<1>14. SpentOnce'
  <2>1. \A x \in Confirming' : /\ asks'[x].token <= minted' /\ grants'[asks'[x].token] = NoGrant
                               /\ asks'[x].was = asks'[x].digest /\ asks'[x].was # 0
    BY <1>4, <1>12 DEF ConfirmationInv, SpentOnce
  <2>2. \A x, y \in Confirming' : asks'[x].token = asks'[y].token => x = y
    BY <1>12 DEF ConfirmationInv, SpentOnce
  <2>3. \A s \in staged' : s.token \in Tokens /\ grants'[s.token] = NoGrant
    BY <1>4, <1>10, <1>11 DEF ConfirmationInv, SpentOnce
  <2>4. \A s \in staged', x \in Confirming' : s.token # asks'[x].token
    BY <1>4, <1>12, <1>13 DEF ConfirmationInv, SpentOnce
  <2> QED
    BY <1>4, <2>1, <2>2, <2>3, <2>4 DEF ConfirmationInv, SpentOnce
<1>15. OneRestorePerChallenge'
  BY <1>4, <1>10, <1>11 DEF ConfirmationInv, OneRestorePerChallenge
<1> QED
  BY <1>8, <1>9, <1>14, <1>15 DEF ConfirmationInv

\* The invariant of Confirmation is inductive.
LEMMA ConfirmationInductive ==
    /\ ConfirmationInit => ConfirmationInv
    /\ ConfirmationInv /\ [ConfirmationNext]_confirmation => ConfirmationInv'
<1> USE ConfirmationAssumption
<1>1. ASSUME ConfirmationInit PROVE ConfirmationInv
  <2>1. Confirming = {}
    BY <1>1 DEF ConfirmationInit, Confirming, NotAsked
  <2> QED
    BY <1>1, <2>1 DEF ConfirmationInit, ConfirmationInv, ConfirmationType, ConfirmationShape,
       SpentOnce, OneRestorePerChallenge, Versions
<1>2. ASSUME ConfirmationInv, NewSnapshot \/ HourPasses \/ UNCHANGED confirmation
      PROVE  ConfirmationInv'
  <2>1. UNCHANGED <<grants, minted, asks, staged>>
    BY <1>2 DEF NewSnapshot, HourPasses, confirmation
  <2>2. content' \in [RestoreFrom -> Versions] /\ hour' \in 0..MaxTime
    BY <1>2 DEF NewSnapshot, HourPasses, confirmation, ConfirmationInv, ConfirmationType, Versions
  <2>3. ConfirmationType' /\ ConfirmationShape'
    BY <1>2, <2>1, <2>2 DEF ConfirmationInv, ConfirmationType, ConfirmationShape
  <2>4. Confirming' = Confirming
    BY <2>1 DEF Confirming
  <2>5. SpentOnce' /\ OneRestorePerChallenge'
    BY <1>2, <2>1, <2>4 DEF ConfirmationInv, SpentOnce, OneRestorePerChallenge
  <2> QED
    BY <2>3, <2>5 DEF ConfirmationInv
<1> QED
  BY <1>1, <1>2, ChallengeKeeps, RequestKeeps, ConsumeKeeps, StageKeeps DEF ConfirmationNext

\* Every restore has a challenge of its own, for bytes that had not changed when it was
\* asked for: a token is spent by whoever presents it first.
THEOREM RestoresAreChallenged == Spec => []OneRestorePerChallenge
<1>1. Init => ConfirmationInv
  BY ConfirmationInductive DEF Init
<1>2. ConfirmationInv /\ [Next]_administration => ConfirmationInv'
  BY ConfirmationInductive, PartsMoveAlone
<1>3. ConfirmationInv => OneRestorePerChallenge
  BY DEF ConfirmationInv
<1> QED
  BY <1>1, <1>2, <1>3, PTL DEF Spec

-----------------------------------------------------------------------------
(* Console                                                                 *)

\* A step of the operation that holds the lock keeps the invariant.
LEMMA ChangeStepsKeep ==
    ASSUME ConsoleInv, Register \/ Stage \/ Forget \/ Signal PROVE ConsoleInv'
<1> USE ConsoleAssumption DEF ConsoleInv
<1>0. change \in [kind : {"create", "delete", "update"},
                  step : {"register", "stage", "forget", "signal"},
                  name : CertNames, to : DomainSets \cup {Undeclared}]
  BY DEF Register, Stage, Forget, Signal, ConsoleType, NoChange
<1>1. change # NoChange
  BY <1>0 DEF NoChange
<1>2. \A step \in {"register", "stage", "forget", "signal"} :
        /\ [change EXCEPT !.step = step] \in
              [kind : {"create", "delete", "update"},
               step : {"register", "stage", "forget", "signal"},
               name : CertNames, to : DomainSets \cup {Undeclared}]
        /\ [change EXCEPT !.step = step].kind = change.kind
        /\ [change EXCEPT !.step = step].to = change.to
        /\ [change EXCEPT !.step = step].step = step
  BY <1>0
<1>3. CASE Register
  <2>1. registry' \subseteq CertNames \X DomainSets
    BY <1>0, <1>1, <1>3 DEF Register, Registered, Rows, ConsoleType, ChangeShape
  <2>2. hitches' \in 0..MaxHitches
    BY <1>3 DEF Register, Hitch, Steps, ConsoleType
  <2>3. UNCHANGED <<file, effective, hup, loop, busy, changes>>
    BY <1>3 DEF Register
  <2>4. told' \in BOOLEAN /\ (told => told')
    BY <1>3 DEF Register, ConsoleType
  <2>5. \/ change' = NoChange /\ (change.kind = "delete" => told')
        \/ \E step \in {"stage", "forget", "signal"} :
             /\ change' = [change EXCEPT !.step = step]
             /\ step = "forget" => change.kind = "delete"
             /\ step = "stage" => change.kind = "create"
    BY <1>0, <1>3 DEF Register, Steps, Ends, ConsoleType
  <2>6. change.step = "register" /\ (change' = NoChange => change.kind # "update")
    BY <1>0, <1>3 DEF Register, Steps, Ends, NoChange
  <2> QED
    BY <1>0, <1>1, <1>2, <2>1, <2>2, <2>3, <2>4, <2>5, <2>6
    DEF ConsoleType, ChangeShape, BehindForAReason, WillSignal
<1>4. CASE Stage
  <2>1. file' \in Declarations
    BY <1>0, <1>4 DEF Stage, Staged, ConsoleType, Declarations
  <2>2. hitches' \in 0..MaxHitches
    BY <1>4 DEF Stage, Hitch, Steps, ConsoleType
  <2>3. UNCHANGED <<registry, effective, hup, loop, busy, told, changes>>
    BY <1>4 DEF Stage
  <2>4. \/ file' = file /\ change' = NoChange
        \/ change.kind = "create" /\ change' = [change EXCEPT !.step = "signal"]
        \/ change.kind # "create" /\ change' = [change EXCEPT !.step = "register"]
    BY <1>4 DEF Stage, Steps, Ends
  <2>5. change.step = "stage"
    BY <1>4 DEF Stage
  <2> QED
    BY <1>0, <1>1, <1>2, <2>1, <2>2, <2>3, <2>4, <2>5
    DEF ConsoleType, ChangeShape, BehindForAReason, WillSignal
<1>5. CASE Forget
  <2>1. hitches' \in 0..MaxHitches
    BY <1>5 DEF Forget, Hitch, Steps, ConsoleType
  <2>4. told' = told \/ told' = TRUE
    BY <1>5 DEF Forget
  <2>2. UNCHANGED <<file, registry, effective, hup, loop, busy, changes>>
    BY <1>5 DEF Forget
  <2>3. \/ change' = NoChange /\ told'
        \/ told' = told /\ change' = [change EXCEPT !.step = "signal"]
    BY <1>5 DEF Forget, Steps, Ends
  <2> QED
    BY <1>0, <1>1, <1>2, <2>1, <2>2, <2>3, <2>4, <1>5
    DEF ConsoleType, ChangeShape, BehindForAReason, WillSignal, Forget
<1>6. CASE Signal
  BY <1>6 DEF Signal, Ends, ConsoleType, ChangeShape, BehindForAReason
<1> QED
  BY <1>3, <1>4, <1>5, <1>6

\* So does the beginning of one.
LEMMA ChangeBeginsKeeps ==
    ASSUME ConsoleInv, Create \/ Delete \/ Update PROVE ConsoleInv'
<1> USE ConsoleAssumption DEF ConsoleInv
<1>1. PICK kind \in {"create", "delete", "update"}, n \in CertNames,
           d \in DomainSets \cup {Undeclared} :
         Starts(kind, n, d, FirstStep(kind)) /\ (kind # "delete" => d \in DomainSets)
  BY DEF Create, Delete, Update, Declared
<1>2. FirstStep(kind) \in {"register", "stage"}
  BY DEF FirstStep
<1>3. PICK c : c = [kind |-> kind, step |-> FirstStep(kind), name |-> n, to |-> d]
  OBVIOUS
<1>4. /\ change' = c /\ change = NoChange
      /\ changes' \in 0..MaxChanges
      /\ UNCHANGED <<file, registry, effective, hup, loop, busy, told, hitches>>
  BY <1>1, <1>3 DEF Starts, ConsoleType
<1>5. /\ c \in [kind : {"create", "delete", "update"},
                step : {"register", "stage", "forget", "signal"},
                name : CertNames, to : DomainSets \cup {Undeclared}]
      /\ c.step # "forget" /\ (c.kind # "delete" => c.to \in DomainSets)
  BY <1>1, <1>2, <1>3
<1>6. ~WillSignal
  BY <1>4 DEF WillSignal, NoChange
<1> QED
  BY <1>4, <1>5, <1>6 DEF ConsoleType, ChangeShape, BehindForAReason

\* So does the loop: what it reads is what the file says when it reads it.
LEMMA LoopKeeps ==
    ASSUME ConsoleInv, BeginRound \/ EndRound \/ TakeSignal \/ Load \/ Swap PROVE ConsoleInv'
<1> USE ConsoleAssumption DEF ConsoleInv
<1>1. CASE BeginRound \/ EndRound \/ TakeSignal
  <2>1. loop' = [loop EXCEPT !.pc = loop'.pc] /\ loop'.pc \in {"round", "wait", "load"}
    BY <1>1 DEF BeginRound, EndRound, TakeSignal, Turns, ConsoleType
  <2>2. loop' \in [pc : {"wait", "round", "load", "swap"}, candidate : Declarations]
    BY <2>1 DEF ConsoleType
  <2>3. UNCHANGED <<file, registry, effective, change, busy, told, changes, hitches>>
    BY <1>1 DEF BeginRound, EndRound, TakeSignal
  <2>4. loop.pc \in {"wait", "round"} /\ (hup' = hup \/ (hup' = FALSE /\ loop'.pc = "load"))
    BY <1>1 DEF BeginRound, EndRound, TakeSignal, Turns, ConsoleType
  <2>5. WillSignal' = WillSignal
    BY <2>3 DEF WillSignal
  <2>6. ConsoleType'
    BY <2>2, <2>3, <2>4 DEF ConsoleType
  <2>7. ChangeShape'
    BY <2>3 DEF ChangeShape
  <2>8. BehindForAReason'
    BY <2>1, <2>3, <2>4, <2>5 DEF BehindForAReason
  <2> QED
    BY <2>6, <2>7, <2>8
<1>2. CASE Load
  <2>1. UNCHANGED <<file, registry, effective, change, hup, busy, changes>>
    BY <1>2 DEF Load
  <2>2. \/ loop' = [pc |-> "swap", candidate |-> file] /\ told' = told /\ hitches' = hitches
        \/ loop' = [pc |-> "wait", candidate |-> loop.candidate] /\ told' = TRUE
           /\ hitches' \in 0..MaxHitches
    BY <1>2 DEF Load, Hitch, Listening, ConsoleType
  <2>3. WillSignal' = WillSignal
    BY <2>1 DEF WillSignal
  <2>7. loop' \in [pc : {"wait", "round", "load", "swap"}, candidate : Declarations]
    BY <2>2 DEF ConsoleType
  <2>8. told' \in BOOLEAN /\ hitches' \in 0..MaxHitches
    BY <2>2 DEF ConsoleType
  <2>4. ConsoleType'
    BY <2>1, <2>7, <2>8 DEF ConsoleType
  <2>5. ChangeShape'
    BY <2>1 DEF ChangeShape
  <2>6. BehindForAReason'
    BY <2>1, <2>2, <2>3, <1>2 DEF BehindForAReason, Load
  <2> QED
    BY <2>4, <2>5, <2>6
<1>3. CASE Swap
  <2>1. UNCHANGED <<file, registry, change, busy, changes>> /\ hup' = hup /\ loop.pc = "swap"
    BY <1>3 DEF Swap, StillWaiting
  <2>2. /\ loop' = [pc |-> "wait", candidate |-> effective']
        /\ hitches' \in 0..MaxHitches
        /\ \/ told' = TRUE /\ effective' = effective
           \/ effective' = loop.candidate /\ told' = (told /\ file # effective')
    BY <1>3 DEF Swap, Hitch, Listening, ConsoleType
  <2>3. WillSignal' = WillSignal
    BY <2>1 DEF WillSignal
  <2>4. ConsoleType'
    BY <2>1, <2>2 DEF ConsoleType
  <2>5. ChangeShape'
    BY <2>1 DEF ChangeShape
  <2>6. BehindForAReason'
    BY <2>1, <2>2, <2>3 DEF BehindForAReason
  <2> QED
    BY <2>4, <2>5, <2>6
<1> QED
  BY <1>1, <1>2, <1>3

\* The invariant of Console is inductive.
LEMMA ConsoleInductive ==
    /\ ConsoleInit => ConsoleInv
    /\ ConsoleInv /\ [ConsoleNext]_console => ConsoleInv'
<1> USE ConsoleAssumption
<1>1. ASSUME ConsoleInit PROVE ConsoleInv
  <2>1. (CHOOSE d \in DomainSets : TRUE) \in DomainSets
    OBVIOUS
  <2>2. file \in Declarations
    BY <1>1, <2>1 DEF ConsoleInit, Declarations
  <2>3. registry \subseteq CertNames \X DomainSets
    BY <1>1, <2>2 DEF ConsoleInit, Declared, Declarations
  <2>6. loop = [pc |-> "wait", candidate |-> file]
    BY <1>1 DEF ConsoleInit, Listening
  <2>7. loop \in [pc : {"wait", "round", "load", "swap"}, candidate : Declarations]
    BY <2>2, <2>6
  <2>8. /\ effective = file /\ change = NoChange /\ hup = FALSE /\ busy = FALSE /\ told = FALSE
        /\ changes = 0 /\ hitches = 0
    BY <1>1 DEF ConsoleInit
  <2>9. changes \in 0..MaxChanges /\ hitches \in 0..MaxHitches
    BY <2>8
  <2>4. ConsoleType
    BY <2>2, <2>3, <2>7, <2>8, <2>9, Zenon DEF ConsoleType
  <2>5. ChangeShape /\ BehindForAReason
    BY <1>1 DEF ConsoleInit, ChangeShape, BehindForAReason, Listening
  <2> QED
    BY <2>4, <2>5 DEF ConsoleInv
<1>2. ASSUME ConsoleInv, StartPass \/ EndPass PROVE ConsoleInv'
  <2>1. UNCHANGED <<file, registry, effective, change, hup, loop, told, changes, hitches>>
    BY <1>2 DEF StartPass, EndPass
  <2> QED
    BY <1>2, <2>1 DEF StartPass, EndPass, ConsoleInv, ConsoleType, ChangeShape, BehindForAReason,
       WillSignal
<1>3. ASSUME ConsoleInv, Restart PROVE ConsoleInv'
  <2>3. loop' = [pc |-> "wait", candidate |-> file]
    BY <1>3 DEF Restart, Listening
  <2>4. loop' \in [pc : {"wait", "round", "load", "swap"}, candidate : Declarations]
    BY <1>3, <2>3 DEF ConsoleInv, ConsoleType
  <2>5. hitches' \in 0..MaxHitches
    BY <1>3 DEF Restart, Hitch, ConsoleInv, ConsoleType
  <2>1. ConsoleType'
    BY <1>3, <2>4, <2>5 DEF Restart, ConsoleInv, ConsoleType
  <2>2. ChangeShape' /\ BehindForAReason'
    BY <1>3 DEF Restart, Listening, ChangeShape, BehindForAReason
  <2> QED
    BY <2>1, <2>2 DEF ConsoleInv
<1>4. ASSUME ConsoleInv, UNCHANGED console PROVE ConsoleInv'
  BY <1>4 DEF console, ConsoleInv, ConsoleType, ChangeShape, BehindForAReason, WillSignal
<1> QED
  BY <1>1, <1>2, <1>3, <1>4, ChangeStepsKeep, ChangeBeginsKeeps, LoopKeeps DEF ConsoleNext

\* The daemon runs with another list than the file's only while a reload is on its way or
\* after somebody was told.
THEOREM StaleIsAlwaysAnnounced == Spec => []StaleIsAnnounced
<1>1. Init => ConsoleInv
  BY ConsoleInductive DEF Init
<1>2. ConsoleInv /\ [Next]_administration => ConsoleInv'
  BY ConsoleInductive, PartsMoveAlone
<1>3. ConsoleInv => StaleIsAnnounced
  BY DEF ConsoleInv, BehindForAReason, StaleIsAnnounced, WillSignal, NoChange
<1> QED
  BY <1>1, <1>2, <1>3, PTL DEF Spec

-----------------------------------------------------------------------------
(* Revocation                                                              *)

Ats == [pc : {"rest", "record", "account", "read", "material", "send", "clear"},
        id : Serials \cup {NoCert}, asked : Serials \cup {NoCert}]

\* What the invariant says of the requests is about these alone.
Undisturbed == UNCHANGED <<request, revoked, at, decided, said>>

\* Renewing, reclaiming and deleting do not touch a request.
LEMMA MaterialKeeps ==
    ASSUME RevocationInv, Renew \/ Reclaim \/ DeleteRow \/ UNCHANGED revocation
    PROVE  RevocationInv'
<1> USE RevocationAssumption DEF RevocationInv
<1>1. Undisturbed
  BY DEF Undisturbed, Renew, Reclaim, DeleteRow, revocation
<1>2. /\ issued' \in Serials /\ stored' \in Serials \cup {NoCert} /\ archive' \subseteq Serials
      /\ troubles' \in 0..MaxTroubles
  <2>1. CASE Renew
    <3>1. issued' = issued + 1 /\ issued < MaxCerts /\ stored' = issued + 1 /\ stored \in Serials
          /\ troubles' = troubles
      BY <2>1 DEF Renew, RevocationType
    <3>2. archive' \subseteq Serials
      BY <2>1, <3>1 DEF Renew, RevocationType
    <3> QED
      BY <3>1, <3>2 DEF RevocationType, Serials
  <2>2. CASE Reclaim
    BY <2>2 DEF Reclaim, RevocationType
  <2>3. CASE DeleteRow
    BY <2>3 DEF DeleteRow, Trouble, RevocationType
  <2>4. CASE UNCHANGED revocation
    BY <2>4 DEF revocation, RevocationType
  <2> QED
    BY <2>1, <2>2, <2>3, <2>4
<1>3. RevocationType'
  BY <1>1, <1>2 DEF Undisturbed, RevocationType
<1>4. OnlyDecided' /\ (OneDecision => OneDecision')
  BY <1>1 DEF Undisturbed, OnlyDecided, OneDecision
<1> QED
  BY <1>3, <1>4

\* How an attempt moves: where it was, where it is.
LEMMA Moved ==
    ASSUME RevocationType, NEW p \in Askers, NEW r \in Ats, at' = [at EXCEPT ![p] = r]
    PROVE  at' \in [Askers -> Ats] /\ \A q \in Askers : at'[q] = IF q = p THEN r ELSE at[q]
BY DEF RevocationType, Ats

\* The command's own steps keep the invariant.
LEMMA CommandKeeps ==
    ASSUME RevocationInv, Ask \/ Record \/ RecordFails \/ EnsureAccount \/ NoAccount \/ RetryPending
    PROVE  RevocationInv'
<1> USE RevocationAssumption DEF RevocationInv
<1>0. /\ "cli" \in Askers /\ "daemon" \in Askers /\ at \in [Askers -> Ats]
      /\ at["cli"] \in Ats /\ at["daemon"] \in Ats /\ Resting \in Ats /\ "cli" # "daemon"
  BY DEF Askers, RevocationType, Ats, Resting, NoCert
<1>1. CASE Ask
  <2>1. PICK r : r = [pc |-> "record", id |-> NoCert, asked |-> stored]
    OBVIOUS
  <2>2. /\ at' = [at EXCEPT !["cli"] = r] /\ r \in Ats /\ stored # NoCert /\ at["cli"] = Resting
        /\ UNCHANGED <<issued, stored, archive, request, revoked, decided, said, troubles>>
    BY <1>1, <2>1 DEF Ask, RevocationType, Ats
  <2>3. at' \in [Askers -> Ats] /\ at'["cli"] = r /\ at'["daemon"] = at["daemon"]
    BY <1>0, <2>2, Moved
  <2>4. RevocationType'
    BY <2>2, <2>3 DEF RevocationType, Ats
  <2>5. OnlyDecided'
    BY <1>0, <2>1, <2>2, <2>3 DEF OnlyDecided, Askers, AttemptPcs
  <2>6. OneDecision => OneDecision'
    BY <1>0, <2>1, <2>2, <2>3 DEF OneDecision, Askers, AttemptPcs
  <2> QED
    BY <2>4, <2>5, <2>6
<1>2. CASE Record
  <2>1. PICK a : a = at["cli"].asked
    OBVIOUS
  <2>2. a \in Serials /\ a # NoCert
    BY <1>0, <1>2, <2>1 DEF Record, OnlyDecided, Ats
  <2>3. PICK r : r = [at["cli"] EXCEPT !.pc = "account"]
    OBVIOUS
  <2>4. r \in Ats /\ r.pc = "account" /\ r.asked = a
    BY <1>0, <2>1, <2>3 DEF Ats
  <2>5. /\ at' = [at EXCEPT !["cli"] = r] /\ decided' = decided \cup {a}
        /\ request' = [id |-> a, tried |-> (request.id = a /\ request.tried)]
        /\ (AskWhileInFlight \/ at["daemon"] = Resting)
        /\ UNCHANGED <<issued, stored, archive, revoked, said, troubles>>
    BY <1>2, <2>1, <2>3 DEF Record, Moves, Upserted
  <2>6. at' \in [Askers -> Ats] /\ at'["cli"] = r /\ at'["daemon"] = at["daemon"]
    BY <1>0, <2>4, <2>5, Moved
  <2>7. request' \in [id : Serials \cup {NoCert}, tried : BOOLEAN] /\ request'.id = a
    <3>1. (request.id = a /\ request.tried) \in BOOLEAN
      BY DEF RevocationType
    <3> QED
      BY <2>2, <2>5, <3>1
  <2>8. RevocationType'
    BY <2>2, <2>5, <2>6, <2>7 DEF RevocationType, Ats
  <2>9. OnlyDecided'
    BY <1>0, <2>2, <2>4, <2>5, <2>6, <2>7 DEF OnlyDecided, Askers, AttemptPcs
  <2>10. AskWhileInFlight' \/ OneDecision'
    <3>1. ~AskWhileInFlight => at'["daemon"].pc = "rest"
      BY <2>5, <2>6 DEF Resting
    <3> QED
      BY <1>0, <2>2, <2>4, <2>5, <2>6, <2>7, <3>1 DEF OneDecision, Askers, AttemptPcs
  <2> QED
    BY <2>8, <2>9, <2>10
<1>3. CASE RecordFails \/ NoAccount
  <2>1. /\ at' = [at EXCEPT !["cli"] = Resting]
        /\ UNCHANGED <<issued, stored, archive, request, revoked, decided, said>>
        /\ troubles' \in 0..MaxTroubles
    BY <1>3 DEF RecordFails, NoAccount, Rests, Trouble, RevocationType
  <2>2. at' \in [Askers -> Ats] /\ at'["cli"] = Resting /\ at'["daemon"] = at["daemon"]
    BY <1>0, <2>1, Moved
  <2>3. RevocationType'
    BY <2>1, <2>2 DEF RevocationType, Ats
  <2>4. OnlyDecided' /\ (OneDecision => OneDecision')
    BY <1>0, <2>1, <2>2 DEF OnlyDecided, OneDecision, Askers, AttemptPcs, Resting
  <2> QED
    BY <2>3, <2>4
<1>4. CASE EnsureAccount
  <2>1. PICK r : r = [at["cli"] EXCEPT !.pc = "read"]
    OBVIOUS
  <2>2. r \in Ats /\ r.pc = "read" /\ r.asked = at["cli"].asked /\ at["cli"].pc = "account"
    BY <1>0, <1>4, <2>1 DEF Ats, EnsureAccount
  <2>3. /\ at' = [at EXCEPT !["cli"] = r]
        /\ UNCHANGED <<issued, stored, archive, request, revoked, decided, said, troubles>>
    BY <1>4, <2>1 DEF EnsureAccount, Moves
  <2>4. at' \in [Askers -> Ats] /\ at'["cli"] = r /\ at'["daemon"] = at["daemon"]
    BY <1>0, <2>2, <2>3, Moved
  <2>5. RevocationType'
    BY <2>3, <2>4 DEF RevocationType, Ats
  <2>6. OnlyDecided' /\ (OneDecision => OneDecision')
    BY <1>0, <2>2, <2>3, <2>4 DEF OnlyDecided, OneDecision, Askers, AttemptPcs
  <2> QED
    BY <2>5, <2>6
<1>5. CASE RetryPending
  <2>1. PICK r : r = [at["daemon"] EXCEPT !.pc = "read"]
    OBVIOUS
  <2>2. r \in Ats /\ r.pc = "read"
    BY <1>0, <1>5, <2>1 DEF Ats
  <2>3. /\ at' = [at EXCEPT !["daemon"] = r]
        /\ UNCHANGED <<issued, stored, archive, request, revoked, decided, said, troubles>>
    BY <1>5, <2>1 DEF RetryPending, Moves
  <2>4. at' \in [Askers -> Ats] /\ at'["daemon"] = r /\ at'["cli"] = at["cli"]
    BY <1>0, <2>2, <2>3, Moved
  <2>5. RevocationType'
    BY <2>3, <2>4 DEF RevocationType, Ats
  <2>6. OnlyDecided' /\ (OneDecision => OneDecision')
    BY <1>0, <2>2, <2>3, <2>4 DEF OnlyDecided, OneDecision, Askers, AttemptPcs
  <2> QED
    BY <2>5, <2>6
<1> QED
  BY <1>1, <1>2, <1>3, <1>4, <1>5

\* An attempt is what a request, a material and the CA's answer make of it: each of its
\* steps keeps the invariant.
LEMMA AttemptKeeps ==
    ASSUME RevocationInv, NEW p \in Askers, Attempt(p) \/ Dies(p)
    PROVE  RevocationInv'
<1> USE RevocationAssumption DEF RevocationInv
<1>0. /\ "cli" \in Askers /\ "daemon" \in Askers /\ at \in [Askers -> Ats] /\ at[p] \in Ats
      /\ Resting \in Ats /\ Resting.pc = "rest"
  BY DEF Askers, RevocationType, Ats, Resting, NoCert
<1>1. /\ request \in [id : Serials \cup {NoCert}, tried : BOOLEAN]
      /\ Failed \in [id : Serials \cup {NoCert}, tried : BOOLEAN]
      /\ Failed.id = request.id /\ (request = NoRequest => Failed = NoRequest)
      /\ NoRequest \in [id : Serials \cup {NoCert}, tried : BOOLEAN] /\ NoRequest.id = NoCert
  BY DEF RevocationType, Failed, NoRequest
<1>a. CASE ReadRequest(p)
  <2>1. UNCHANGED <<issued, stored, archive, request, revoked, decided, troubles>> /\ at[p].pc = "read"
    BY <1>a DEF ReadRequest
  <2>2. CASE request = NoRequest
    <3>1. at' = [at EXCEPT ![p] = Resting] /\ said' = Reports(p)
      BY <1>a, <2>2 DEF ReadRequest, Rests
    <3>2. at' \in [Askers -> Ats] /\ \A q \in Askers : at'[q] = IF q = p THEN Resting ELSE at[q]
      BY <1>0, <3>1, Moved
    <3>3. p = "cli" => at[p].asked \in Serials
      BY <1>0, <2>1 DEF OnlyDecided, Ats
    <3>4. said' \subseteq Serials
      BY <3>1, <3>3 DEF Reports, RevocationType
    <3>5. RevocationType'
      BY <2>1, <3>2, <3>4 DEF RevocationType, Ats
    <3>6. OnlyDecided'
      BY <1>0, <2>1, <3>2 DEF OnlyDecided, AttemptPcs
    <3>7. OneDecision => OneDecision'
      <4> SUFFICES ASSUME OneDecision PROVE OneDecision'
        OBVIOUS
      <4>1. p = "cli" => at[p].asked \in revoked
        BY <1>1, <2>1, <2>2, <3>3 DEF OneDecision, OnlyDecided, Serials, NoCert
      <4>2. said' \subseteq revoked
        BY <3>1, <4>1 DEF Reports, OneDecision
      <4> QED
        BY <1>0, <2>1, <3>2, <4>2 DEF OneDecision, AttemptPcs
    <3> QED
      BY <3>5, <3>6, <3>7, <2>1
  <2>3. CASE request # NoRequest
    <3>1. PICK r : r = [at[p] EXCEPT !.pc = "material", !.id = request.id]
      OBVIOUS
    <3>2. r \in Ats /\ r.pc = "material" /\ r.id = request.id /\ r.asked = at[p].asked
      BY <1>0, <1>1, <3>1 DEF Ats
    <3>3. at' = [at EXCEPT ![p] = r] /\ said' = said
      BY <1>a, <2>3, <3>1 DEF ReadRequest
    <3>4. at' \in [Askers -> Ats] /\ \A q \in Askers : at'[q] = IF q = p THEN r ELSE at[q]
      BY <1>0, <3>2, <3>3, Moved
    <3>5. RevocationType'
      BY <2>1, <3>3, <3>4 DEF RevocationType, Ats
    <3>6. OnlyDecided'
      BY <1>0, <2>1, <2>3, <3>2, <3>4 DEF OnlyDecided, AttemptPcs
    <3>7. OneDecision => OneDecision'
      BY <1>0, <2>1, <3>2, <3>3, <3>4 DEF OneDecision, AttemptPcs
    <3> QED
      BY <3>5, <3>6, <3>7, <2>1
  <2> QED
    BY <2>2, <2>3
<1>b. CASE FindMaterial(p)
  <2>1. PICK c : c = Material(at[p].id)
    OBVIOUS
  <2>2. c = NoCert \/ (c = at[p].id /\ c \in Serials)
    BY <1>0, <2>1 DEF Material, Ats
  <2>3. UNCHANGED <<issued, stored, archive, revoked, decided, said, troubles>> /\ at[p].pc = "material"
    BY <1>b DEF FindMaterial
  <2>4. CASE c = NoCert
    <3>1. at' = [at EXCEPT ![p] = Resting] /\ request' = Failed
      BY <1>b, <2>1, <2>4 DEF FindMaterial, Rests
    <3>2. at' \in [Askers -> Ats] /\ \A q \in Askers : at'[q] = IF q = p THEN Resting ELSE at[q]
      BY <1>0, <3>1, Moved
    <3>3. RevocationType'
      BY <1>1, <2>3, <3>1, <3>2 DEF RevocationType, Ats
    <3>4. OnlyDecided'
      BY <1>0, <1>1, <2>3, <3>1, <3>2 DEF OnlyDecided, AttemptPcs
    <3>5. OneDecision => OneDecision'
      BY <1>0, <1>1, <2>3, <3>1, <3>2 DEF OneDecision, AttemptPcs
    <3> QED
      BY <3>3, <3>4, <3>5
  <2>5. CASE c # NoCert
    <3>1. PICK r : r = [at[p] EXCEPT !.pc = "send", !.id = c]
      OBVIOUS
    <3>2. r \in Ats /\ r.pc = "send" /\ r.id = at[p].id /\ r.asked = at[p].asked
      BY <1>0, <2>2, <2>5, <3>1 DEF Ats
    <3>3. at' = [at EXCEPT ![p] = r] /\ request' = request
      BY <1>b, <2>1, <2>5, <3>1 DEF FindMaterial
    <3>4. at' \in [Askers -> Ats] /\ \A q \in Askers : at'[q] = IF q = p THEN r ELSE at[q]
      BY <1>0, <3>2, <3>3, Moved
    <3>5. RevocationType'
      BY <2>3, <3>3, <3>4 DEF RevocationType, Ats
    <3>6. OnlyDecided'
      BY <1>0, <2>3, <3>2, <3>3, <3>4 DEF OnlyDecided, AttemptPcs
    <3>7. OneDecision => OneDecision'
      BY <1>0, <2>3, <3>2, <3>3, <3>4 DEF OneDecision, AttemptPcs
    <3> QED
      BY <3>5, <3>6, <3>7
  <2> QED
    BY <2>4, <2>5
<1>c. CASE Revoke(p)
  <2>1. PICK r : r = [at[p] EXCEPT !.pc = "clear"]
    OBVIOUS
  <2>2. r \in Ats /\ r.pc = "clear" /\ r.id = at[p].id /\ r.asked = at[p].asked
    BY <1>0, <2>1 DEF Ats
  <2>3. /\ at' = [at EXCEPT ![p] = r] /\ revoked' = revoked \cup {at[p].id} /\ at[p].pc = "send"
        /\ UNCHANGED <<issued, stored, archive, request, decided, said, troubles>>
    BY <1>c, <2>1 DEF Revoke, Moves
  <2>4. at' \in [Askers -> Ats] /\ \A q \in Askers : at'[q] = IF q = p THEN r ELSE at[q]
    BY <1>0, <2>2, <2>3, Moved
  <2>5. at[p].id \in decided
    BY <2>3 DEF OnlyDecided, AttemptPcs
  <2>6. RevocationType'
    BY <2>3, <2>4, <2>5 DEF RevocationType, Ats
  <2>7. OnlyDecided'
    BY <1>0, <2>2, <2>3, <2>4, <2>5 DEF OnlyDecided, AttemptPcs
  <2>8. OneDecision => OneDecision'
    BY <1>0, <2>2, <2>3, <2>4 DEF OneDecision, AttemptPcs
  <2> QED
    BY <2>6, <2>7, <2>8, <2>3
<1>d. CASE RevokeFails(p)
  <2>1. /\ at' = [at EXCEPT ![p] = Resting] /\ request' = Failed /\ at[p].pc = "send"
        /\ revoked \subseteq revoked' /\ revoked' \subseteq revoked \cup {at[p].id}
        /\ troubles' \in 0..MaxTroubles
        /\ UNCHANGED <<issued, stored, archive, decided, said>>
    BY <1>d DEF RevokeFails, Rests, Trouble, RevocationType
  <2>2. at' \in [Askers -> Ats] /\ \A q \in Askers : at'[q] = IF q = p THEN Resting ELSE at[q]
    BY <1>0, <2>1, Moved
  <2>3. at[p].id \in decided
    BY <2>1 DEF OnlyDecided, AttemptPcs
  <2>4. RevocationType'
    BY <1>1, <2>1, <2>2, <2>3 DEF RevocationType, Ats
  <2>5. OnlyDecided'
    BY <1>0, <1>1, <2>1, <2>2, <2>3 DEF OnlyDecided, AttemptPcs
  <2>6. OneDecision => OneDecision'
    BY <1>0, <1>1, <2>1, <2>2 DEF OneDecision, AttemptPcs
  <2> QED
    BY <2>4, <2>5, <2>6, <2>1
<1>e. CASE Clear(p)
  <2>1. /\ at' = [at EXCEPT ![p] = Resting] /\ said' = Reports(p) /\ at[p].pc = "clear"
        /\ request' \in {request, NoRequest} /\ troubles' \in 0..MaxTroubles
        /\ UNCHANGED <<issued, stored, archive, revoked, decided>>
    BY <1>e DEF Clear, Rests, Trouble, RevocationType
  <2>2. at' \in [Askers -> Ats] /\ \A q \in Askers : at'[q] = IF q = p THEN Resting ELSE at[q]
    BY <1>0, <2>1, Moved
  <2>3. p = "cli" => at[p].asked \in Serials
    BY <1>0, <2>1 DEF OnlyDecided, Ats
  <2>4. said' \subseteq Serials
    BY <2>1, <2>3 DEF Reports, RevocationType
  <2>5. RevocationType'
    BY <1>1, <2>1, <2>2, <2>4 DEF RevocationType, Ats
  <2>6. OnlyDecided'
    BY <1>0, <1>1, <2>1, <2>2 DEF OnlyDecided, AttemptPcs
  <2>7. OneDecision => OneDecision'
    <3> SUFFICES ASSUME OneDecision PROVE OneDecision'
      OBVIOUS
    <3>1. at[p].id \in revoked
      BY <2>1 DEF OnlyDecided
    <3>2. request.id # NoCert => request.id \in revoked
      BY <2>1, <3>1 DEF OneDecision, AttemptPcs
    <3>3. at["cli"].pc \in {"account", "read"} \cup AttemptPcs => at["cli"].asked \in revoked
      <4>1. at["cli"].pc \in {"account", "read"} \cup AttemptPcs => at["cli"].asked # NoCert
        BY DEF OnlyDecided, AttemptPcs
      <4> QED
        BY <3>2, <4>1 DEF OneDecision
    <3>4. said' \subseteq revoked
      BY <2>1, <3>3 DEF Reports, OneDecision, AttemptPcs
    <3>5. \A q \in Askers : at'[q].pc \in AttemptPcs /\ request'.id # NoCert => at'[q].id = request'.id
      BY <1>0, <1>1, <2>1, <2>2 DEF OneDecision, AttemptPcs
    <3>6. at'["cli"].pc \in {"account", "read"} \cup AttemptPcs =>
             at'["cli"].asked \in revoked
      BY <1>0, <2>2, <3>3 DEF AttemptPcs
    <3> QED
      BY <2>1, <3>4, <3>5, <3>6 DEF OneDecision
  <2> QED
    BY <2>5, <2>6, <2>7, <2>1
<1>f. CASE Dies(p)
  <2>1. /\ at' = [at EXCEPT ![p] = Resting] /\ troubles' \in 0..MaxTroubles
        /\ UNCHANGED <<issued, stored, archive, request, revoked, decided, said>>
    BY <1>f DEF Dies, Rests, Trouble, RevocationType
  <2>2. at' \in [Askers -> Ats] /\ \A q \in Askers : at'[q] = IF q = p THEN Resting ELSE at[q]
    BY <1>0, <2>1, Moved
  <2>3. RevocationType'
    BY <2>1, <2>2 DEF RevocationType, Ats
  <2>4. OnlyDecided' /\ (OneDecision => OneDecision')
    BY <1>0, <2>1, <2>2 DEF OnlyDecided, OneDecision, AttemptPcs
  <2> QED
    BY <2>3, <2>4
<1> QED
  BY <1>a, <1>b, <1>c, <1>d, <1>e, <1>f DEF Attempt

\* The invariant of Revocation is inductive.
LEMMA RevocationInductive ==
    /\ RevocationInit => RevocationInv
    /\ RevocationInv /\ [RevocationNext]_revocation => RevocationInv'
<1>1. ASSUME RevocationInit PROVE RevocationInv
  <2>1. RevocationType
    BY <1>1, RevocationAssumption
    DEF RevocationInit, RevocationType, Serials, Askers, NoCert, NoRequest, Resting
  <2>2. OnlyDecided /\ OneDecision
    BY <1>1 DEF RevocationInit, OnlyDecided, OneDecision, Askers, AttemptPcs, NoRequest, Resting, NoCert
  <2> QED
    BY <2>1, <2>2 DEF RevocationInv
<1> QED
  BY <1>1, MaterialKeeps, CommandKeeps, AttemptKeeps DEF RevocationNext

\* Only a certificate the operator decided about is ever revoked, whenever he asks.
THEOREM OnlyDecidedIsRevoked == Spec => [](revoked \subseteq decided)
<1>1. Init => RevocationInv
  BY RevocationInductive DEF Init
<1>2. RevocationInv /\ [Next]_administration => RevocationInv'
  BY RevocationInductive, PartsMoveAlone
<1>3. RevocationInv => revoked \subseteq decided
  BY DEF RevocationInv, OnlyDecided
<1> QED
  BY <1>1, <1>2, <1>3, PTL DEF Spec

\* When no decision is recorded in the middle of another's attempt, what the command
\* reports as revoked is revoked as well, also when the daemon got there first.
THEOREM ReportsAreTrue == ASSUME ~AskWhileInFlight PROVE Spec => []RevocationsAreTrue
<1>1. Init => RevocationInv
  BY RevocationInductive DEF Init
<1>2. RevocationInv /\ [Next]_administration => RevocationInv'
  BY RevocationInductive, PartsMoveAlone
<1>3. RevocationInv => RevocationsAreTrue
  BY DEF RevocationInv, OnlyDecided, OneDecision, RevocationsAreTrue
<1> QED
  BY <1>1, <1>2, <1>3, PTL DEF Spec

\* And a decision leaves the table only carried out, or replaced by another.
THEOREM DecisionsAreKept == ASSUME ~AskWhileInFlight PROVE Spec => DecisionKept
<1>1. Init => RevocationInv
  BY RevocationInductive DEF Init
<1>2. RevocationInv /\ [Next]_administration => RevocationInv'
  BY RevocationInductive, PartsMoveAlone
<1>3. RevocationInv /\ [Next]_administration =>
        [request.id # NoCert /\ request'.id # request.id =>
            request.id \in revoked \/ decided' # decided \/ request'.id # NoCert]_revocation
  <2> SUFFICES ASSUME RevocationInv, RevocationNext, request.id # NoCert, request'.id # request.id
               PROVE  request.id \in revoked \/ request'.id # NoCert
    BY PartsMoveAlone
  <2>1. CASE Record
    BY <2>1 DEF Record, Upserted, RevocationInv, OnlyDecided
  <2>2. ASSUME NEW p \in Askers, Clear(p) PROVE request.id \in revoked
    BY <2>2 DEF Clear, RevocationInv, OnlyDecided, OneDecision, AttemptPcs
  <2>3. ASSUME NEW p \in Askers, FindMaterial(p) \/ RevokeFails(p) PROVE FALSE
    <3>1. Failed.id = request.id
      BY DEF Failed, RevocationInv, RevocationType
    <3> QED
      BY <2>3, <3>1 DEF FindMaterial, RevokeFails
  <2> QED
    BY <2>1, <2>2, <2>3 DEF RevocationNext, Attempt, Renew, Reclaim, DeleteRow, Ask, RecordFails,
       EnsureAccount, NoAccount, RetryPending, ReadRequest, Revoke, Dies
<1> QED
  BY <1>1, <1>2, <1>3, PTL DEF Spec, DecisionKept

-----------------------------------------------------------------------------
(* Onboarding                                                              *)

\* What a run computes from a state file is a state file again.
LEMMA RunIsTyped ==
    ASSUME OnboardingInv, NEW m \in Memories
    PROVE  /\ \A allow, guard, removed :
                  Accepted(allow, guard) \cup (m.names \ removed) \subseteq Declarable
           /\ \A eligible, removed, conflicts : eligible \subseteq Declarable
                  => Built(eligible, removed, conflicts) \subseteq Declarable
           /\ Marked(m) \in [Declarable -> {Here} \cup Ages]
<1> USE OnboardingAssumption
<1>1. asked \subseteq Declarable /\ document \subseteq Declarable /\ m.names \subseteq Declarable
      /\ m.absent \in [Declarable -> {Here} \cup Ages]
  BY DEF OnboardingInv, OnboardingType, Memories
<1>2. \A allow, guard, removed :
          Accepted(allow, guard) \cup (m.names \ removed) \subseteq Declarable
  BY <1>1 DEF Accepted
<1>3. \A eligible, removed, conflicts : eligible \subseteq Declarable
        => Built(eligible, removed, conflicts) \subseteq Declarable
  BY <1>1 DEF Built, In
<1>4. Marked(m) \in [Declarable -> {Here} \cup Ages]
  <2>1. \A n \in Declarable : AgeOf(m, n) \in {Here} \cup Ages
    BY <1>1 DEF AgeOf, Ages
  <2> QED
    BY <2>1 DEF Marked
<1> QED
  BY <1>2, <1>3, <1>4

\* A run keeps the types.
LEMMA OnboardKeeps == ASSUME OnboardingInv, Onboard PROVE OnboardingInv'
<1> USE OnboardingAssumption
<1>1. PICK force \in BOOLEAN, guard \in BOOLEAN, allow \in Allowlists,
           conflicts \in SUBSET Domains, blocked \in SUBSET Domains :
         Evaluate(force, guard, allow, conflicts, blocked)
  BY DEF Onboard
<1>2. PICK m : m = Recovered
  OBVIOUS
<1>3. m \in Memories
  BY <1>2 DEF Recovered, OnboardingInv, OnboardingType, Memories
<1>4. PICK removed : removed = Removed(m, force, guard)
  OBVIOUS
<1>5. PICK eligible : eligible = Accepted(allow, guard) \cup (m.names \ removed)
  OBVIOUS
<1>6. PICK new : new = Built(eligible, removed, conflicts)
  OBVIOUS
<1>7. eligible \subseteq Declarable /\ new \subseteq Declarable
      /\ Marked(m) \in [Declarable -> {Here} \cup Ages] /\ asked \subseteq Declarable
  <2>1. eligible \subseteq Declarable
    BY <1>3, <1>5, RunIsTyped
  <2>2. new \subseteq Declarable
    BY <1>3, <1>6, <2>1, RunIsTyped
  <2> QED
    BY <1>3, <2>1, <2>2, RunIsTyped DEF OnboardingInv, OnboardingType
<1>8. PICK c : c = IF Changed(m, new) THEN [m.changes EXCEPT ![0] = @ + 1] ELSE m.changes
  OBVIOUS
<1>9. c \in [0..BudgetWindow -> Nat]
  BY <1>3, <1>8 DEF Memories
<1>10. PICK k : k = [names |-> eligible, declared |-> asked, revision |-> new,
                     absent |-> Marked(m), changes |-> c]
  OBVIOUS
<1>11. k \in Memories
  BY <1>7, <1>9, <1>10 DEF Memories
<1>12. /\ run' = [at |-> "document", document |-> new, force |-> force, guard |-> guard, memory |-> k]
       /\ UNCHANGED <<asked, ruled, document, memory, unseen, moves>>
       /\ slips' = slips \/ (slips' = slips + 1 /\ slips < MaxSlips)
  BY <1>1, <1>2, <1>4, <1>5, <1>6, <1>8, <1>10 DEF Evaluate, Slip
<1>13. run' \in [at : {"idle", "document", "state"}, document : SUBSET Declarable,
                 memory : Memories, force : BOOLEAN, guard : BOOLEAN]
  BY <1>7, <1>11, <1>12
<1>14. slips' \in 0..MaxSlips
  BY <1>12 DEF OnboardingInv, OnboardingType
<1> QED
  BY <1>12, <1>13, <1>14 DEF OnboardingInv, OnboardingType, Memories

\* The types of Onboarding are inductive.
LEMMA OnboardingInductive ==
    /\ OnboardingInit => OnboardingInv
    /\ OnboardingInv /\ [OnboardingNext]_onboarding => OnboardingInv'
<1> USE OnboardingAssumption
<1>0. Blank \in Memories
  BY DEF Blank, Memories, Nowhere
<1>1. ASSUME OnboardingInit PROVE OnboardingInv
  BY <1>0, <1>1 DEF OnboardingInit, OnboardingInv, OnboardingType, NoRun, Nowhere, Memories
<1>2. ASSUME OnboardingInv, WriteDocument \/ SaveState \/ Interrupted PROVE OnboardingInv'
  <2>1. UNCHANGED <<asked, ruled, moves>>
    BY <1>2 DEF WriteDocument, SaveState, Interrupted
  <2>2. document' \subseteq Declarable /\ memory' \in Memories
    BY <1>2 DEF WriteDocument, SaveState, Interrupted, OnboardingInv, OnboardingType
  <2>3. run' \in [at : {"idle", "document", "state"}, document : SUBSET Declarable,
                  memory : Memories, force : BOOLEAN, guard : BOOLEAN]
    <3>1. NoRun \in [at : {"idle", "document", "state"}, document : SUBSET Declarable,
                     memory : Memories, force : BOOLEAN, guard : BOOLEAN]
      BY <1>0 DEF NoRun
    <3>2. CASE WriteDocument
      BY <1>2, <3>2 DEF WriteDocument, OnboardingInv
    <3> QED
      BY <1>2, <3>1, <3>2 DEF SaveState, Interrupted
  <2>4. unseen' \in [Declarable -> {Here} \cup Ages]
    BY <1>2 DEF WriteDocument, SaveState, Interrupted, OnboardingInv, OnboardingType, Ages
  <2>5. slips' \in 0..MaxSlips
    BY <1>2 DEF WriteDocument, SaveState, Interrupted, Slip, OnboardingInv, OnboardingType
  <2> QED
    BY <1>2, <2>1, <2>2, <2>3, <2>4, <2>5 DEF OnboardingInv, OnboardingType, Memories
<1>3. ASSUME OnboardingInv, FileLost \/ Edited PROVE OnboardingInv'
  <2>1. UNCHANGED <<run, unseen>>
    BY <1>3 DEF FileLost, Edited
  <2>2. /\ asked' \subseteq Declarable /\ ruled' \subseteq Declarable /\ document' \subseteq Declarable
        /\ memory' \in Memories
    BY <1>0, <1>3 DEF FileLost, Edited, OnboardingInv, OnboardingType
  <2>3. moves' \in 0..MaxMoves /\ slips' \in 0..MaxSlips
    BY <1>3 DEF FileLost, Edited, Slip, OnboardingInv, OnboardingType
  <2> QED
    BY <1>3, <2>1, <2>2, <2>3 DEF OnboardingInv, OnboardingType, Memories
<1>4. ASSUME OnboardingInv, DayPasses PROVE OnboardingInv'
  <2>1. \A age \in {Here} \cup Ages : Older(age) \in {Here} \cup Ages
    BY DEF Older, Ages, Here
  <2>2. memory.absent \in [Declarable -> {Here} \cup Ages]
        /\ memory.changes \in [0..BudgetWindow -> Nat]
        /\ unseen \in [Declarable -> {Here} \cup Ages]
    BY <1>4 DEF OnboardingInv, OnboardingType, Memories
  <2>3. PICK x : x = [n \in Declarable |-> Older(memory.absent[n])]
    OBVIOUS
  <2>4. PICK y : y = [a \in 0..BudgetWindow |-> IF a = 0 THEN 0 ELSE memory.changes[a - 1]]
    OBVIOUS
  <2>5. x \in [Declarable -> {Here} \cup Ages] /\ unseen' \in [Declarable -> {Here} \cup Ages]
    BY <1>4, <2>1, <2>2, <2>3 DEF DayPasses
  <2>6. y \in [0..BudgetWindow -> Nat]
    BY <2>2, <2>4
  <2>7. memory' = [memory EXCEPT !.absent = x, !.changes = y]
    BY <1>4, <2>3, <2>4 DEF DayPasses
  <2>8. memory' \in Memories
    BY <1>4, <2>5, <2>6, <2>7 DEF OnboardingInv, Memories
  <2>9. UNCHANGED <<asked, ruled, document, run, moves, slips>>
    BY <1>4 DEF DayPasses
  <2> QED
    BY <1>4, <2>5, <2>8, <2>9 DEF OnboardingInv, OnboardingType, Memories
<1>5. ASSUME OnboardingInv, UNCHANGED onboarding PROVE OnboardingInv'
  BY <1>5 DEF onboarding, OnboardingInv, OnboardingType
<1> QED
  BY <1>1, <1>2, <1>3, <1>4, <1>5, OnboardKeeps DEF OnboardingNext

\* A marker a run writes is no older than the time the name has been missed for.
LEMMA MarkersKeep ==
    /\ OnboardingInit => MarkersAreHonest
    /\ OnboardingSafe /\ [OnboardingNext]_onboarding => MarkersAreHonest'
<1> USE OnboardingAssumption
<1>0. ASSUME OnboardingSafe
      PROVE  /\ memory.absent \in [Declarable -> {Here} \cup Ages]
             /\ unseen \in [Declarable -> {Here} \cup Ages]
             /\ run.memory.absent \in [Declarable -> {Here} \cup Ages]
             /\ memory \in Memories /\ run.memory \in Memories
  BY <1>0 DEF OnboardingSafe, OnboardingInv, OnboardingType, Memories
<1>1. ASSUME OnboardingInit PROVE MarkersAreHonest
  <2>1. /\ memory = Blank /\ unseen = Nowhere /\ run.at = "idle" /\ Blank.absent = Nowhere
    BY <1>1 DEF OnboardingInit, NoRun, Blank
  <2>2. \A n \in Declarable : Nowhere[n] <= Nowhere[n]
    BY DEF Nowhere, Here
  <2> QED
    BY <2>1, <2>2 DEF MarkersAreHonest
<1>2. ASSUME OnboardingSafe, Onboard PROVE MarkersAreHonest'
  <2>1. PICK force \in BOOLEAN, guard \in BOOLEAN, allow \in Allowlists,
             conflicts \in SUBSET Domains, blocked \in SUBSET Domains :
           Evaluate(force, guard, allow, conflicts, blocked)
    BY <1>2 DEF Onboard
  <2>2. /\ UNCHANGED <<memory, unseen>>
        /\ run'.memory.declared = asked /\ run'.memory.absent = Marked(Recovered)
    BY <2>1 DEF Evaluate
  <2>3. Recovered.absent = memory.absent
    BY <1>0, <1>2 DEF Recovered, Memories
  <2>4. ASSUME NEW n \in Declarable
        PROVE  \/ Marked(Recovered)[n] = Here
               \/ n \notin asked /\ Marked(Recovered)[n] <= Unmarked(unseen[n])
    <3>1. memory.absent[n] <= unseen[n] /\ memory.absent[n] \in {Here} \cup Ages
          /\ unseen[n] \in {Here} \cup Ages
      BY <1>0, <1>2 DEF OnboardingSafe, MarkersAreHonest
    <3>2. AgeOf(Recovered, n) <= Unmarked(unseen[n])
      BY <2>3, <3>1 DEF AgeOf, Unmarked, Here, Ages
    <3>3. n \in Gone(Recovered) => n \notin asked
      BY DEF Gone
    <3> QED
      BY <3>2, <3>3 DEF Marked
  <2> QED
    BY <1>2, <2>2, <2>4 DEF OnboardingSafe, MarkersAreHonest
<1>3. ASSUME OnboardingSafe, SaveState PROVE MarkersAreHonest'
  <2>1. memory' = run.memory /\ run'.at = "idle" /\ run.at # "idle"
    BY <1>3 DEF SaveState, NoRun
  <2>2. ASSUME NEW n \in Declarable PROVE run.memory.absent[n] <= unseen'[n]
    <3>1. unseen'[n] = IF n \in run.memory.declared THEN Here
                       ELSE IF unseen[n] = Here THEN 0 ELSE unseen[n]
      BY <1>3 DEF SaveState
    <3>2. unseen[n] \in {Here} \cup Ages /\ run.memory.absent[n] \in {Here} \cup Ages
      BY <1>0, <1>3
    <3>3. \/ run.memory.absent[n] = Here
          \/ n \notin run.memory.declared /\ run.memory.absent[n] <= Unmarked(unseen[n])
      BY <1>3, <2>1 DEF OnboardingSafe, MarkersAreHonest
    <3> QED
      BY <3>1, <3>2, <3>3 DEF Unmarked, Here, Ages
  <2> QED
    BY <2>1, <2>2 DEF MarkersAreHonest
<1>4. ASSUME OnboardingSafe, DayPasses PROVE MarkersAreHonest'
  <2>1. \A a, b \in {Here} \cup Ages : a <= b => Older(a) <= Older(b)
    BY DEF Older, Here, Ages
  <2>2. PICK x : x = [n \in Declarable |-> Older(memory.absent[n])]
    OBVIOUS
  <2>3. memory'.absent = x
    <3>1. memory' = [memory EXCEPT !.absent = x,
                                   !.changes = [a \in 0..BudgetWindow |->
                                                IF a = 0 THEN 0 ELSE @[a - 1]]]
      BY <1>4, <2>2 DEF DayPasses
    <3> QED
      BY <1>0, <1>4, <3>1 DEF Memories
  <2>4. \A n \in Declarable : x[n] <= unseen'[n]
    BY <1>0, <1>4, <2>1, <2>2 DEF DayPasses, OnboardingSafe, MarkersAreHonest
  <2> QED
    BY <1>4, <2>3, <2>4 DEF DayPasses, MarkersAreHonest
<1>5. ASSUME OnboardingSafe, FileLost PROVE MarkersAreHonest'
  <2>1. UNCHANGED <<run, unseen>> /\ run.at = "idle"
        /\ (memory' = Blank \/ memory' = memory)
    BY <1>5 DEF FileLost
  <2>2. \A n \in Declarable : Blank.absent[n] <= unseen[n]
    BY <1>0, <1>5 DEF Blank, Nowhere, Here, Ages
  <2> QED
    BY <1>5, <2>1, <2>2 DEF OnboardingSafe, MarkersAreHonest
<1>6. ASSUME OnboardingSafe, WriteDocument \/ Interrupted \/ Edited \/ UNCHANGED onboarding
      PROVE  MarkersAreHonest'
  <2>1. UNCHANGED <<memory, unseen>>
    BY <1>6 DEF WriteDocument, Interrupted, Edited, onboarding
  <2>2. run'.at = "idle" \/ (run'.memory = run.memory /\ run.at # "idle")
    <3>1. CASE WriteDocument
      BY <1>6, <3>1 DEF WriteDocument, OnboardingSafe, OnboardingInv
    <3> QED
      BY <1>6, <3>1 DEF Interrupted, Edited, NoRun, onboarding
  <2> QED
    BY <1>6, <2>1, <2>2 DEF OnboardingSafe, MarkersAreHonest
<1> QED
  BY <1>1, <1>2, <1>3, <1>4, <1>5, <1>6 DEF OnboardingNext

\* The invariant of Onboarding is inductive.
LEMMA OnboardingSafeInductive ==
    /\ OnboardingInit => OnboardingSafe
    /\ OnboardingSafe /\ [OnboardingNext]_onboarding => OnboardingSafe'
BY OnboardingInductive, MarkersKeep DEF OnboardingSafe

\* What a run that is not forced leaves out of the document, it takes out of it for age.
LEMMA OnlyTheOldLeave ==
    ASSUME OnboardingSafe, NEW n \in document, NEW guard \in BOOLEAN, NEW allow, NEW conflicts,
           n \notin Built(Accepted(allow, guard)
                             \cup (Recovered.names \ Removed(Recovered, FALSE, guard)),
                          Removed(Recovered, FALSE, guard), conflicts)
    PROVE  Unrecorded(n) \/ (Unwanted(n) /\ guard /\ unseen[n] >= GracePeriod)
<1> USE OnboardingAssumption
<1>1. PICK m : m = Recovered
  OBVIOUS
<1>2. PICK removed : removed = Removed(m, FALSE, guard)
  OBVIOUS
<1>3. PICK eligible : eligible = Accepted(allow, guard) \cup (m.names \ removed)
  OBVIOUS
<1>4. n \in Declarable /\ DomainOf[n] \in Domains
  BY DEF OnboardingSafe, OnboardingInv, OnboardingType, Domains
<1>5. memory \in Memories /\ unseen[n] \in {Here} \cup Ages
      /\ memory.absent[n] \in {Here} \cup Ages /\ memory.absent[n] <= unseen[n]
  BY <1>4 DEF OnboardingSafe, OnboardingInv, OnboardingType, MarkersAreHonest, Memories
<1>6. n \notin eligible \/ n \in removed
  <2>1. n \notin Built(eligible, removed, conflicts)
    BY <1>1, <1>2, <1>3
  <2> QED
    BY <1>4, <2>1 DEF Built, In
<1>7. CASE memory.names = {}
  BY <1>7 DEF Unrecorded
<1>8. CASE memory.names # {}
  <2>1. m = memory
    BY <1>1, <1>8 DEF Recovered
  <2>2. CASE n \in removed
    <3>1. n \in Gone(memory) /\ guard /\ AgeOf(memory, n) >= GracePeriod /\ n \notin ruled
      BY <1>2, <2>1, <2>2 DEF Removed
    <3>2. unseen[n] >= GracePeriod
      BY <1>5, <3>1 DEF AgeOf, Here, Ages
    <3> QED
      BY <3>1, <3>2 DEF Gone, Unwanted
  <2>3. CASE n \notin removed
    BY <1>3, <1>6, <2>1, <2>3 DEF Unrecorded
  <2> QED
    BY <2>2, <2>3
<1> QED
  BY <1>7, <1>8

\* A run that is not forced takes a name out only after the grace period.
THEOREM NamesStay == Spec => NamesStayUntilDue
<1>1. Init => OnboardingSafe
  BY OnboardingSafeInductive DEF Init
<1>2. OnboardingSafe /\ [Next]_administration => OnboardingSafe'
  BY OnboardingSafeInductive, PartsMoveAlone
<1>3. OnboardingSafe /\ [Next]_administration =>
        [run.at = "idle" /\ run'.at = "document" /\ ~run'.force =>
             \A n \in document \ run'.document :
                 \/ Unrecorded(n)
                 \/ Unwanted(n) /\ run'.guard /\ unseen[n] >= GracePeriod]_onboarding
  <2> SUFFICES ASSUME OnboardingSafe, OnboardingNext, run.at = "idle", run'.at = "document",
                      ~run'.force, NEW n \in document \ run'.document
               PROVE  Unrecorded(n) \/ (Unwanted(n) /\ run'.guard /\ unseen[n] >= GracePeriod)
    BY PartsMoveAlone
  <2>1. Onboard
    BY DEF OnboardingNext, WriteDocument, SaveState, Interrupted, FileLost, Edited, DayPasses,
           NoRun
  <2>2. PICK force \in BOOLEAN, guard \in BOOLEAN, allow \in Allowlists,
             conflicts \in SUBSET Domains, blocked \in SUBSET Domains :
           Evaluate(force, guard, allow, conflicts, blocked)
    BY <2>1 DEF Onboard
  <2>3. /\ run'.force = force /\ run'.guard = guard
        /\ run'.document = Built(Accepted(allow, guard)
                                   \cup (Recovered.names \ Removed(Recovered, force, guard)),
                                 Removed(Recovered, force, guard), conflicts)
    BY <2>2 DEF Evaluate
  <2>4. n \notin Built(Accepted(allow, guard)
                         \cup (Recovered.names \ Removed(Recovered, FALSE, guard)),
                      Removed(Recovered, FALSE, guard), conflicts)
    <3>1. force = FALSE
      BY <2>3
    <3> QED
      BY <2>3, <3>1
  <2>5. Unrecorded(n) \/ (Unwanted(n) /\ guard /\ unseen[n] >= GracePeriod)
    BY <2>4, OnlyTheOldLeave
  <2> QED
    BY <2>3, <2>5
<1> QED
  BY <1>1, <1>2, <1>3, PTL DEF Spec, NamesStayUntilDue

-----------------------------------------------------------------------------
(* Evidence                                                                *)

Passes == [pc : {"idle", "work", "probe"}, ver : 0..MaxVers,
           at : [Hosts -> {"wait", "judged", "done"} \cup Verdicts]]

\* What is asked for, issued, answered and at work, and what of it a pass can rely on.
LEMMA EvidenceTyped ==
    ASSUME EvidenceInv
    PROVE  /\ pass \in [Sites -> Passes] /\ row \in [Sites -> [ver : 0..MaxVers, bound : BOOLEAN]]
           /\ doc \in [Sites -> 0..MaxVers] /\ lock \in [Hosts -> Sites \cup {NoSite}]
           /\ answers \in [Hosts -> {"none"} \cup Verdicts] /\ NoSite \notin Sites
           /\ MaxVers \in Nat /\ Sans \in [Sites -> [Vers -> SUBSET Hosts]]
BY EvidenceAssumption DEF EvidenceInv, EvidenceType, EvidenceShape, Passes

\* A pass that begins has dialled nothing yet.
LEMMA NoPassTyped ==
    /\ NoPass \in Passes /\ NoPass.at = [h \in Hosts |-> "done"] /\ NoPass.pc = "idle"
    /\ \A v \in 1..MaxVers : \A p : p = [NoPass EXCEPT !.pc = "work", !.ver = v]
          => p \in Passes /\ p.pc = "work" /\ p.ver # 0 /\ p.at = NoPass.at
<1>1. PICK d : d = [h \in Hosts |-> "done"]
  OBVIOUS
<1>2. d \in [Hosts -> {"wait", "judged", "done"} \cup Verdicts]
  BY <1>1
<1>3. NoPass = [pc |-> "idle", ver |-> 0, at |-> d]
  BY <1>1 DEF NoPass
<1>4. MaxVers \in Nat
  BY EvidenceAssumption
<1>5. NoPass \in Passes
  BY <1>2, <1>3, <1>4 DEF Passes
<1>6. ASSUME NEW v \in 1..MaxVers, NEW p, p = [NoPass EXCEPT !.pc = "work", !.ver = v]
      PROVE  p \in Passes /\ p.pc = "work" /\ p.ver # 0 /\ p.at = NoPass.at
  <2>1. p = [pc |-> "work", ver |-> v, at |-> d]
    BY <1>3, <1>6
  <2> QED
    BY <1>2, <1>3, <1>4, <2>1 DEF Passes
<1> QED
  BY <1>1, <1>3, <1>5, <1>6

\* The world moves what no pass and no round holds.
LEMMA WorldKeeps ==
    ASSUME EvidenceInv,
           \/ \E s \in Sites : Bind(s) \/ \E v \in 0..MaxVers : Edit(s, v)
           \/ \E h \in Hosts : \E a, x : Serves(h, a, x)
    PROVE  EvidenceInv'
<1>1. UNCHANGED <<answers, lock, recorded, marked, pass, round, late, fresh>>
  BY DEF Edit, Bind, Serves
<1>2. doc' \in [Sites -> 0..MaxVers]
  BY EvidenceTyped DEF Edit, Bind, Serves
<1>3. row' \in [Sites -> [ver : 0..MaxVers, bound : BOOLEAN]]
      /\ \A t \in Sites : row'[t].bound => row'[t].ver # 0
  <2>0. /\ row \in [Sites -> [ver : 0..MaxVers, bound : BOOLEAN]]
        /\ \A t \in Sites : row[t].bound => row[t].ver # 0
    BY EvidenceTyped DEF EvidenceInv, WorkShape
  <2>1. ASSUME NEW s \in Sites, Bind(s)
        PROVE  /\ row' \in [Sites -> [ver : 0..MaxVers, bound : BOOLEAN]]
               /\ \A t \in Sites : row'[t].bound => row'[t].ver # 0
    BY <2>0, <2>1 DEF Bind
  <2> QED
    BY <2>0, <2>1 DEF Edit, Serves
<1> QED
  BY <1>1, <1>2, <1>3 DEF EvidenceInv, EvidenceType, EvidenceShape, WorkShape, FreshIsKnown, InFlight

\* A certificate is claimed, by a trigger or by the round that walks it.
LEMMA ClaimKeeps ==
    ASSUME EvidenceInv, NEW s \in Sites, Trigger(s) \/ Advance(s)
    PROVE  EvidenceInv'
<1>0. EvidenceType /\ EvidenceShape /\ WorkShape /\ FreshIsKnown
  BY DEF EvidenceInv
<1>1. UNCHANGED <<doc, row, answers, lock, recorded, marked, fresh>>
  BY DEF Trigger, Advance
<1>2. /\ round'.pc = round.pc /\ round'.doc = round.doc /\ round'.left \subseteq round.left
      /\ round'.busy = round.busy /\ round'.current = round.current /\ round'.todo = round.todo
      /\ round' = [pc |-> round'.pc, doc |-> round'.doc, left |-> round'.left,
                   on |-> round'.on, current |-> round'.current, busy |-> round'.busy,
                   todo |-> round'.todo]
  <2>1. CASE Trigger(s)
    BY <1>0, <2>1 DEF Trigger, EvidenceShape
  <2>2. CASE Advance(s)
    BY <1>0, <2>2 DEF Advance, EvidenceShape
  <2> QED
    BY <2>1, <2>2
<1>3. CASE UNCHANGED <<pass, late>>
  BY <1>0, <1>1, <1>2, <1>3
  DEF EvidenceInv, EvidenceType, EvidenceShape, WorkShape, FreshIsKnown, InFlight, Listed
<1>4. ASSUME NEW v \in 1..MaxVers, Claims(s, v) PROVE EvidenceInv'
  <2>1. PICK p : p = [NoPass EXCEPT !.pc = "work", !.ver = v]
    OBVIOUS
  <2>2. p \in Passes /\ p.pc = "work" /\ p.ver # 0 /\ p.at = NoPass.at
    BY <1>4, <2>1, NoPassTyped
  <2>3. pass[s] = NoPass /\ pass' = [pass EXCEPT ![s] = p]
    BY <1>4, <2>1 DEF Claims
  <2>4. pass' \in [Sites -> Passes]
    BY <2>2, <2>3, EvidenceTyped
  <2>5. pass'[s] = p /\ \A t \in Sites \ {s} : pass'[t] = pass[t]
    BY <2>3, EvidenceTyped
  <2>6. WorkShape'
    BY <1>0, <1>1, <2>2, <2>3, <2>5 DEF WorkShape, NoPass
  <2>7. late' = IF round.pc \in {"snapped", "reclaim"} THEN late \cup {s} ELSE late \ {s}
    BY <1>4 DEF Claims
  <2>8. FreshIsKnown'
    BY <1>0, <1>1, <1>2, <2>5, <2>7 DEF FreshIsKnown, InFlight
  <2>9. EvidenceShape'
    BY <1>0, <1>1, <1>2, <2>4 DEF EvidenceShape, Listed, Passes
  <2>10. EvidenceType'
    <3>1. late' \subseteq Sites
      BY <1>0, <2>7 DEF EvidenceType
    <3>2. \A h \in Hosts : lock[h] \in Sites => pass'[lock[h]] # NoPass
      BY <1>0, <1>1, <2>6 DEF WorkShape, NoPass
    <3> QED
      BY <1>0, <1>1, <2>4, <3>1, <3>2 DEF EvidenceType, Passes
  <2> QED
    BY <2>6, <2>8, <2>9, <2>10 DEF EvidenceInv
<1>5. CASE Trigger(s)
  <2>1. doc[s] \in 1..MaxVers
    BY <1>5, EvidenceTyped DEF Trigger
  <2> QED
    BY <1>4, <1>5, <2>1 DEF Trigger
<1>6. CASE Advance(s)
  <2>1. round.doc[s] \in 1..MaxVers
    BY <1>0, <1>6, EvidenceTyped DEF Advance, EvidenceShape, Listed
  <2> QED
    BY <1>3, <1>4, <1>6, <2>1 DEF Advance
<1> QED
  BY <1>5, <1>6

\* A pass's work ends with what it will dial.
LEMMA ReconcileKeeps ==
    ASSUME EvidenceInv, NEW s \in Sites, Reconcile(s)
    PROVE  EvidenceInv'
<1>0. EvidenceType /\ EvidenceShape /\ WorkShape /\ FreshIsKnown
  BY DEF EvidenceInv
<1>1. UNCHANGED <<doc, answers, lock, marked, round, late>> /\ pass[s].pc = "work"
  BY DEF Reconcile
<1>2. pass[s].ver \in 1..MaxVers
  BY <1>0, <1>1, EvidenceTyped DEF WorkShape, Passes
<1>3. row' \in [Sites -> [ver : 0..MaxVers, bound : BOOLEAN]]
  <2>1. CASE row' = [row EXCEPT ![s].ver = pass[s].ver]
    BY <1>2, <2>1, EvidenceTyped
  <2>2. CASE row' = row
    BY <2>2, EvidenceTyped
  <2> QED
    BY <2>1, <2>2 DEF Reconcile, Work
<1>4. row'[s].ver # 0 /\ \A t \in Sites : row'[t].bound => row'[t].ver # 0
  <2>1. CASE Due(s, pass[s].ver) /\ row' = [row EXCEPT ![s].ver = pass[s].ver]
    BY <1>0, <1>2, <2>1, EvidenceTyped DEF WorkShape
  <2>2. CASE ~Due(s, pass[s].ver) /\ row' = row
    <3>1. pass[s].ver <= row[s].ver
      BY <1>2, <2>2, EvidenceTyped DEF Due
    <3> QED
      BY <1>0, <1>2, <2>2, <3>1, EvidenceTyped DEF WorkShape
  <2> QED
    BY <2>1, <2>2 DEF Reconcile, Work
<1>5. PICK hosts : hosts = IF row'[s].bound THEN Sans[s][row'[s].ver] ELSE {}
  OBVIOUS
<1>6. hosts \subseteq Hosts
  <2>1. CASE row'[s].bound
    <3>1. row'[s].ver \in Vers
      BY <1>3, <1>4, EvidenceTyped DEF Vers
    <3> QED
      BY <1>5, <2>1, <3>1, EvidenceTyped
  <2> QED
    BY <1>5, <2>1
<1>7. PICK p : p = [pc |-> "probe", ver |-> row'[s].ver,
                    at |-> [h \in Hosts |-> IF h \in hosts THEN "wait" ELSE "done"]]
  OBVIOUS
<1>8. p \in Passes /\ p.pc = "probe" /\ p.ver # 0
  BY <1>3, <1>4, <1>7 DEF Passes
<1>9. /\ pass' = [pass EXCEPT ![s] = p] /\ recorded' = recorded \cup hosts
      /\ fresh' = fresh \cup ({s} \X hosts)
  BY <1>5, <1>7 DEF Reconcile
<1>10. pass' \in [Sites -> Passes]
  BY <1>8, <1>9, EvidenceTyped
<1>11. pass'[s] = p /\ \A t \in Sites \ {s} : pass'[t] = pass[t]
  BY <1>9, EvidenceTyped
<1>12. WorkShape'
  <2>1. \A t \in Sites : /\ pass'[t].pc # "idle" => pass'[t].ver # 0
                         /\ pass'[t].pc = "idle" => pass'[t] = NoPass
                         /\ pass'[t].pc = "work" => pass'[t].at = NoPass.at
    BY <1>0, <1>8, <1>11 DEF WorkShape
  <2>2. \A h \in Hosts : lock[h] \in Sites => lock[h] # s
    BY <1>0, <1>1 DEF WorkShape
  <2> QED
    BY <1>0, <1>1, <1>4, <1>11, <2>1, <2>2 DEF WorkShape
<1>13. FreshIsKnown'
  <2>1. s \in InFlight /\ InFlight' \subseteq InFlight
    BY <1>1, <1>11 DEF InFlight, NoPass
  <2>2. \A f \in fresh' : f \in fresh \/ (f[1] = s /\ f[2] \in hosts)
    BY <1>9
  <2> QED
    BY <1>0, <1>1, <1>9, <2>1, <2>2 DEF FreshIsKnown
<1>14. EvidenceShape'
  BY <1>0, <1>1, <1>10 DEF EvidenceShape, Listed, Passes
<1>15. EvidenceType'
  <2>1. fresh' \subseteq Sites \X Hosts /\ recorded' \subseteq Hosts
    BY <1>0, <1>6, <1>9 DEF EvidenceType
  <2>2. \A h \in Hosts : lock[h] \in Sites => pass'[lock[h]] # NoPass
    BY <1>1, <1>12 DEF WorkShape, NoPass
  <2> QED
    BY <1>0, <1>1, <1>3, <1>10, <2>1, <2>2 DEF EvidenceType, Passes
<1> QED
  BY <1>12, <1>13, <1>14, <1>15 DEF EvidenceInv

\* A step of the check of one host moves its place in the pass, its mutex and its answer.
LEMMA CheckKeeps ==
    ASSUME EvidenceInv, NEW s \in Sites, NEW h \in Hosts,
           Dial(s, h) \/ Judge(s, h) \/ Persist(s, h)
    PROVE  EvidenceInv'
<1>0. EvidenceType /\ EvidenceShape /\ WorkShape /\ FreshIsKnown
  BY DEF EvidenceInv
<1>1. UNCHANGED <<doc, row, recorded, marked, round, late, fresh>>
  BY DEF Dial, Judge, Persist
<1>2. PICK step \in {"judged", "done"} \cup Verdicts : At(s, h, step)
                /\ (Dial(s, h) => step \in Verdicts)
  <2>1. \A v : Conclusion(h, s, v) \in Verdicts
    BY DEF Conclusion, Verdicts
  <2> QED
    BY <2>1 DEF Dial, Judge, Persist
<1>3. PICK p : p = [pass[s] EXCEPT !.at[h] = step]
  OBVIOUS
<1>4. /\ p \in Passes /\ p.pc = pass[s].pc /\ p.ver = pass[s].ver /\ p.at[h] = step
      /\ \A g \in Hosts \ {h} : p.at[g] = pass[s].at[g]
  <2>1. PICK d : d = [pass[s].at EXCEPT ![h] = step]
    OBVIOUS
  <2>2. pass[s] \in Passes /\ pass[s].at \in [Hosts -> {"wait", "judged", "done"} \cup Verdicts]
    BY EvidenceTyped DEF Passes
  <2>3. d \in [Hosts -> {"wait", "judged", "done"} \cup Verdicts]
    BY <2>1, <2>2
  <2>4. p = [pass[s] EXCEPT !.at = d]
    BY <1>3, <2>1
  <2>5. p = [pc |-> pass[s].pc, ver |-> pass[s].ver, at |-> d]
    BY <2>2, <2>4 DEF Passes
  <2> QED
    BY <2>1, <2>2, <2>3, <2>5 DEF Passes
<1>5. pass' = [pass EXCEPT ![s] = p]
  BY <1>2, <1>3 DEF At
<1>6. pass' \in [Sites -> Passes]
  BY <1>4, <1>5, EvidenceTyped
<1>7. pass'[s] = p /\ \A t \in Sites \ {s} : pass'[t] = pass[t]
  BY <1>5, EvidenceTyped
<1>8. pass[s].pc = "probe"
  <2>1. pass[s].at[h] # "done"
    BY DEF Dial, Judge, Persist, Verdicts
  <2>2. NoPass.at[h] = "done"
    BY DEF NoPass
  <2>3. pass[s].pc \in {"idle", "work", "probe"}
    BY EvidenceTyped DEF Passes
  <2> QED
    BY <1>0, <2>1, <2>2, <2>3 DEF WorkShape
<1>9. answers' \in [Hosts -> {"none"} \cup Verdicts] /\ lock' \in [Hosts -> Sites \cup {NoSite}]
  BY EvidenceTyped DEF Dial, Judge, Persist, Recorded, Verdicts
<1>10. /\ \A g \in Hosts \ {h} : lock'[g] = lock[g]
       /\ lock'[h] = s => step \in Verdicts
       /\ lock'[h] \in {lock[h], s, NoSite}
  <2>1. CASE Dial(s, h)
    BY <1>2, <2>1, EvidenceTyped DEF Dial
  <2>2. CASE Judge(s, h)
    BY <2>2, EvidenceTyped DEF Judge
  <2>3. CASE Persist(s, h)
    <3>1. lock[h] # s
      BY <1>0, <2>3 DEF Persist, WorkShape, Verdicts
    <3> QED
      BY <2>3, <3>1 DEF Persist
  <2> QED
    BY <2>1, <2>2, <2>3
<1>11. WorkShape'
  <2>1. \A t \in Sites : /\ pass'[t].pc # "idle" => pass'[t].ver # 0
                         /\ pass'[t].pc = "idle" => pass'[t] = NoPass
                         /\ pass'[t].pc = "work" => pass'[t].at = NoPass.at
                         /\ row'[t].bound => row'[t].ver # 0
    BY <1>0, <1>1, <1>4, <1>7, <1>8 DEF WorkShape
  <2>2. ASSUME NEW g \in Hosts, lock'[g] \in Sites
        PROVE  pass'[lock'[g]].pc = "probe" /\ pass'[lock'[g]].at[g] \in Verdicts
    <3>1. CASE lock'[g] = s /\ g = h
      BY <1>4, <1>7, <1>8, <1>10, <3>1
    <3>2. CASE lock'[g] = s /\ g # h
      BY <1>0, <1>4, <1>7, <1>8, <1>10, <3>2 DEF WorkShape
    <3>3. CASE lock'[g] # s
      <4>1. lock'[g] = lock[g]
        BY <1>10, <2>2, <3>3, EvidenceTyped
      <4> QED
        BY <1>0, <1>7, <2>2, <3>3, <4>1 DEF WorkShape
    <3> QED
      BY <3>1, <3>2, <3>3
  <2> QED
    BY <2>1, <2>2 DEF WorkShape
<1>12. FreshIsKnown'
  <2>1. InFlight' \subseteq InFlight
    BY <1>7, <1>8 DEF InFlight, NoPass
  <2> QED
    BY <1>0, <1>1, <2>1 DEF FreshIsKnown
<1>13. EvidenceShape'
  BY <1>0, <1>1, <1>6, <1>9 DEF EvidenceShape, Listed, Passes
<1>14. EvidenceType'
  <2>1. \A g \in Hosts : lock'[g] \in Sites => pass'[lock'[g]] # NoPass
    BY <1>11 DEF WorkShape, NoPass
  <2> QED
    BY <1>0, <1>1, <1>6, <1>9, <2>1 DEF EvidenceType, Passes, Verdicts
<1> QED
  BY <1>11, <1>12, <1>13, <1>14 DEF EvidenceInv

\* A pass ends: it checks no host any more.
LEMMA FinishPassKeeps ==
    ASSUME EvidenceInv, NEW s \in Sites, FinishPass(s)
    PROVE  EvidenceInv'
<1>0. EvidenceType /\ EvidenceShape /\ WorkShape /\ FreshIsKnown
  BY DEF EvidenceInv
<1>1. UNCHANGED <<doc, row, answers, lock, recorded, marked, round, late, fresh>>
      /\ pass' = [pass EXCEPT ![s] = NoPass]
  BY DEF FinishPass
<1>2. pass' \in [Sites -> Passes] /\ pass'[s] = NoPass
      /\ \A t \in Sites \ {s} : pass'[t] = pass[t]
  BY <1>1, EvidenceTyped, NoPassTyped
<1>3. \A h \in Hosts : lock[h] # s
  BY <1>0 DEF FinishPass, WorkShape, Verdicts
<1>4. WorkShape'
  BY <1>0, <1>1, <1>2, <1>3 DEF WorkShape, NoPass
<1>5. FreshIsKnown'
  BY <1>0, <1>1, <1>2 DEF FreshIsKnown, InFlight
<1>6. EvidenceShape'
  BY <1>0, <1>1, <1>2 DEF EvidenceShape, Listed, Passes
<1>7. EvidenceType'
  BY <1>0, <1>1, <1>2, <1>3 DEF EvidenceType, Passes
<1> QED
  BY <1>4, <1>5, <1>6, <1>7 DEF EvidenceInv

\* A round moves from one part to the next.
LEMMA RoundMoves ==
    ASSUME EvidenceInv, StartRound \/ Walk \/ Arrive \/ Snapshot \/ ListHosts \/ FinishRound
    PROVE  EvidenceInv'
<1>0. EvidenceType /\ EvidenceShape /\ WorkShape /\ FreshIsKnown
  BY DEF EvidenceInv
<1>1. UNCHANGED <<doc, row, answers, lock, pass>>
  BY DEF StartRound, Walk, Arrive, Snapshot, ListHosts, FinishRound
<1>2. WorkShape'
  BY <1>0, <1>1 DEF WorkShape
<1>3. recorded' \subseteq Hosts /\ marked' \subseteq Sites /\ late' \subseteq Sites
      /\ fresh' \subseteq Sites \X Hosts
  BY <1>0 DEF StartRound, Walk, Arrive, Snapshot, ListHosts, FinishRound, EvidenceType
<1>4. EvidenceType'
  BY <1>0, <1>1, <1>3 DEF EvidenceType
<1>5. EvidenceShape'
  <2>0. PICK none : none = [s \in Sites |-> 0]
    OBVIOUS
  <2>1. \/ round' = NoRound
        \/ round' = [pc |-> round'.pc, doc |-> round'.doc, left |-> round'.left,
                     on |-> round'.on, current |-> round'.current, busy |-> round'.busy,
                     todo |-> round'.todo]
           /\ round'.pc \in {"orphans", "walk", "snapped", "reclaim"}
    <3>1. CASE StartRound
      BY <1>0, <3>1 DEF StartRound, EvidenceShape
    <3>2. CASE Walk \/ Arrive
      BY <1>0, <3>2 DEF Walk, Arrive, EvidenceShape
    <3>3. CASE Snapshot \/ ListHosts
      BY <1>0, <3>3 DEF Snapshot, ListHosts, EvidenceShape
    <3> QED
      BY <3>1, <3>2, <3>3 DEF FinishRound
  <2>2. round'.doc \in [Sites -> 0..MaxVers] /\ (round' = NoRound => round'.doc = none)
    <3>1. none \in [Sites -> 0..MaxVers] /\ NoRound.doc = none
      BY <2>0, EvidenceTyped DEF NoRound
    <3>2. CASE StartRound
      BY <1>0, <3>1, <3>2, EvidenceTyped DEF StartRound, EvidenceShape
    <3>3. CASE Walk \/ Arrive \/ Snapshot \/ ListHosts
      BY <1>0, <3>1, <3>3 DEF Walk, Arrive, Snapshot, ListHosts, EvidenceShape
    <3> QED
      BY <3>1, <3>2, <3>3 DEF FinishRound
  <2>3. round'.left \subseteq Listed(round'.doc)
    <3>1. CASE StartRound
      <4>1. round.left = {} /\ round'.left = round.left
        BY <1>0, <3>1 DEF StartRound, EvidenceShape
      <4> QED
        BY <4>1
    <3>2. CASE Walk
      BY <1>0, <3>2 DEF Walk, EvidenceShape
    <3>3. CASE Arrive \/ Snapshot \/ ListHosts
      BY <1>0, <3>3 DEF Arrive, Snapshot, ListHosts, EvidenceShape
    <3>4. CASE FinishRound
      BY <3>4 DEF FinishRound, NoRound
    <3> QED
      BY <3>1, <3>2, <3>3, <3>4
  <2>4. CASE round' = NoRound
    <3>1. NoRound = [pc |-> "idle", doc |-> none, left |-> {}, on |-> NoSite,
                     current |-> {}, busy |-> {}, todo |-> {}]
      BY <2>0 DEF NoRound
    <3> QED
      BY <1>0, <1>1, <2>2, <2>3, <2>4, <3>1 DEF EvidenceShape
  <2> QED
    BY <1>0, <1>1, <2>1, <2>2, <2>3, <2>4 DEF EvidenceShape
<1>6. FreshIsKnown'
  <2>1. CASE StartRound \/ Walk \/ Arrive
    BY <1>0, <2>1 DEF StartRound, Walk, Arrive, FreshIsKnown, EvidenceShape
  <2>2. CASE Snapshot
    <3>1. round'.pc = "snapped" /\ round'.current = recorded /\ round'.busy = InFlight
          /\ fresh' = fresh /\ pass' = pass /\ round.pc = "walk"
      BY <1>0, <2>2 DEF Snapshot, EvidenceShape
    <3> QED
      BY <1>0, <3>1 DEF FreshIsKnown, InFlight
  <2>3. CASE ListHosts
    <3>1. round'.pc = "reclaim" /\ round.pc = "snapped"
          /\ round'.current = round.current /\ round'.busy = round.busy
          /\ round'.todo \subseteq Hosts \ round.current
          /\ fresh' = fresh /\ pass' = pass /\ late' = late
      BY <1>0, <2>3 DEF ListHosts, EvidenceShape
    <3> QED
      BY <1>0, <3>1 DEF FreshIsKnown, InFlight
  <2>4. CASE FinishRound
    BY <2>4 DEF FinishRound, FreshIsKnown, NoRound
  <2> QED
    BY <2>1, <2>2, <2>3, <2>4
<1> QED
  BY <1>2, <1>4, <1>5, <1>6 DEF EvidenceInv

\* A round drops what is held of a host.
LEMMA DropKeeps ==
    ASSUME EvidenceInv,
           (\E s \in Sites : TearDown(s)) \/ (\E h \in Hosts : ReclaimHost(h))
    PROVE  EvidenceInv'
<1>0. EvidenceType /\ EvidenceShape /\ WorkShape /\ FreshIsKnown
  BY DEF EvidenceInv
<1>1. UNCHANGED <<doc, row, recorded, pass, late, fresh>>
  BY DEF TearDown, ReclaimHost
<1>2. /\ answers' \in [Hosts -> {"none"} \cup Verdicts]
      /\ lock' \in [Hosts -> Sites \cup {NoSite}]
      /\ \A h \in Hosts : lock'[h] \in {lock[h], NoSite}
  <2>1. ASSUME NEW hosts, Forgets(hosts)
        PROVE  /\ answers' \in [Hosts -> {"none"} \cup Verdicts]
               /\ lock' \in [Hosts -> Sites \cup {NoSite}]
               /\ \A h \in Hosts : lock'[h] \in {lock[h], NoSite}
    BY <2>1, EvidenceTyped DEF Forgets
  <2>2. ASSUME UNCHANGED <<answers, lock>>
        PROVE  /\ answers' \in [Hosts -> {"none"} \cup Verdicts]
               /\ lock' \in [Hosts -> Sites \cup {NoSite}]
               /\ \A h \in Hosts : lock'[h] \in {lock[h], NoSite}
    BY <2>2, EvidenceTyped
  <2> QED
    BY <2>1, <2>2 DEF TearDown, ReclaimHost
<1>3. marked' \subseteq Sites
  BY <1>0 DEF TearDown, ReclaimHost, EvidenceType
<1>4. /\ round'.pc = round.pc /\ round'.doc = round.doc /\ round'.left = round.left
      /\ round'.busy = round.busy /\ round'.current = round.current
      /\ round'.todo \subseteq round.todo
      /\ round' = [pc |-> round'.pc, doc |-> round'.doc, left |-> round'.left,
                   on |-> round'.on, current |-> round'.current, busy |-> round'.busy,
                   todo |-> round'.todo]
  BY <1>0 DEF TearDown, ReclaimHost, EvidenceShape
<1>5. WorkShape'
  BY <1>0, <1>1, <1>2, EvidenceTyped DEF WorkShape
<1>6. EvidenceType'
  BY <1>0, <1>1, <1>2, <1>3, EvidenceTyped DEF EvidenceType, Verdicts
<1>7. EvidenceShape'
  BY <1>0, <1>1, <1>2, <1>4 DEF EvidenceShape, Listed
<1>8. FreshIsKnown'
  BY <1>0, <1>1, <1>4 DEF FreshIsKnown, InFlight
<1> QED
  BY <1>5, <1>6, <1>7, <1>8 DEF EvidenceInv

\* The invariant of Evidence is inductive.
LEMMA EvidenceInductive ==
    /\ EvidenceInit => EvidenceInv
    /\ EvidenceInv /\ [EvidenceNext]_evidence => EvidenceInv'
<1>0. \A p : p = [s \in Sites |-> NoPass] => p \in [Sites -> Passes]
  BY NoPassTyped
<1>a. /\ \A d : d = [s \in Sites |-> 0] => d \in [Sites -> 0..MaxVers]
      /\ \A d : d = [s \in Sites |-> 0] =>
             NoRound = [pc |-> "idle", doc |-> d, left |-> {}, on |-> NoSite,
                        current |-> {}, busy |-> {}, todo |-> {}]
  <2>1. \A d : d = [s \in Sites |-> 0] => d \in [Sites -> 0..MaxVers]
    BY EvidenceAssumption
  <2> QED
    BY <2>1 DEF NoRound
<1>b. NoRound.pc = "idle" /\ NoRound.left = {} /\ NoRound.doc \in [Sites -> 0..MaxVers]
      /\ NoRound = [pc |-> NoRound.pc, doc |-> NoRound.doc, left |-> NoRound.left,
                    on |-> NoRound.on, current |-> NoRound.current, busy |-> NoRound.busy,
                    todo |-> NoRound.todo]
  <2>1. PICK d : d = [s \in Sites |-> 0]
    OBVIOUS
  <2> QED
    BY <1>a, <2>1
<1>1. ASSUME EvidenceInit PROVE EvidenceInv
  <2>0. /\ pass \in [Sites -> Passes] /\ answers = [h \in Hosts |-> "none"]
        /\ lock = [h \in Hosts |-> NoSite] /\ round = NoRound
        /\ recorded = {} /\ fresh = {} /\ marked = {} /\ late = {} /\ NoSite \notin Sites
        /\ pass = [s \in Sites |-> NoPass]
    BY <1>0, <1>1, EvidenceAssumption DEF EvidenceInit
  <2>1. EvidenceType
    <3>1. \A r : r = [ver |-> 0, bound |-> FALSE] => r \in [ver : 0..MaxVers, bound : BOOLEAN]
      BY EvidenceAssumption
    <3>2. row \in [Sites -> [ver : 0..MaxVers, bound : BOOLEAN]]
      BY <1>1, <3>1 DEF EvidenceInit
    <3>3. doc \in [Sites -> 0..MaxVers]
      <4>1. 1 \in 0..MaxVers
        BY EvidenceAssumption
      <4> QED
        BY <1>1, <4>1 DEF EvidenceInit
    <3> QED
      BY <2>0, <3>2, <3>3 DEF EvidenceType, Passes
  <2>2. EvidenceShape
    BY <1>b, <2>0 DEF EvidenceShape, Passes
  <2>3. WorkShape
    BY <1>1, <2>0 DEF EvidenceInit, WorkShape, NoPass
  <2>4. FreshIsKnown
    BY <1>b, <2>0 DEF FreshIsKnown
  <2> QED
    BY <2>1, <2>2, <2>3, <2>4 DEF EvidenceInv
<1>2. ASSUME EvidenceInv, Reboot PROVE EvidenceInv'
  <2>0. EvidenceType /\ EvidenceShape /\ WorkShape /\ pass' \in [Sites -> Passes]
    BY <1>0, <1>2 DEF EvidenceInv, Reboot
  <2>1. EvidenceType'
    BY <1>2, <2>0, EvidenceAssumption DEF Reboot, EvidenceType, Passes
  <2>2. EvidenceShape'
    BY <1>2, <1>b, <2>0, EvidenceAssumption DEF Reboot, EvidenceShape, Passes
  <2>3. WorkShape'
    BY <1>2, <2>0, EvidenceAssumption DEF Reboot, WorkShape, NoPass
  <2>4. FreshIsKnown'
    BY <1>2 DEF Reboot, FreshIsKnown, NoRound
  <2> QED
    BY <2>1, <2>2, <2>3, <2>4 DEF EvidenceInv
<1>3. ASSUME EvidenceInv, UNCHANGED evidence PROVE EvidenceInv'
  <2>1. EvidenceType' /\ EvidenceShape'
    BY <1>3 DEF evidence, EvidenceInv, EvidenceType, EvidenceShape, Listed
  <2>2. WorkShape' /\ FreshIsKnown'
    BY <1>3 DEF evidence, EvidenceInv, WorkShape, FreshIsKnown, InFlight
  <2> QED
    BY <2>1, <2>2 DEF EvidenceInv
<1>4. ASSUME EvidenceInv, EvidenceNext PROVE EvidenceInv'
  <2>1. \A s \in Sites, v \in 0..MaxVers : Edit(s, v) => EvidenceInv'
    BY <1>4, WorldKeeps
  <2>2. \A s \in Sites : Bind(s) => EvidenceInv'
    BY <1>4, WorldKeeps
  <2>3. \A h \in Hosts : \A a, x : Serves(h, a, x) => EvidenceInv'
    BY <1>4, WorldKeeps
  <2>4. \A s \in Sites : Trigger(s) \/ Advance(s) => EvidenceInv'
    BY <1>4, ClaimKeeps
  <2>5. \A s \in Sites : Reconcile(s) => EvidenceInv'
    BY <1>4, ReconcileKeeps
  <2>6. \A s \in Sites, h \in Hosts : Dial(s, h) \/ Judge(s, h) \/ Persist(s, h) => EvidenceInv'
    BY <1>4, CheckKeeps
  <2>7. \A s \in Sites : FinishPass(s) => EvidenceInv'
    BY <1>4, FinishPassKeeps
  <2>8. StartRound \/ Walk \/ Arrive \/ Snapshot \/ ListHosts \/ FinishRound => EvidenceInv'
    BY <1>4, RoundMoves
  <2>9. /\ \A s \in Sites : TearDown(s) => EvidenceInv'
        /\ \A h \in Hosts : ReclaimHost(h) => EvidenceInv'
    BY <1>4, DropKeeps
  <2> QED
    BY <1>2, <1>4, <2>1, <2>2, <2>3, <2>4, <2>5, <2>6, <2>7, <2>8, <2>9 DEF EvidenceNext
<1> QED
  BY <1>1, <1>3, <1>4

\* The end of a round never drops what a pass begun before its record has recorded in the
\* same round, for a certificate that owns the host alone or has left the document.
THEOREM LiveEvidenceIsKept == Spec => LiveEvidenceKept
<1>1. Init => EvidenceInv
  BY EvidenceInductive DEF Init
<1>2. EvidenceInv /\ [Next]_administration => EvidenceInv'
  BY EvidenceInductive, PartsMoveAlone
<1>3. EvidenceInv /\ [Next]_administration =>
        [\A f \in fresh :
           LET s == f[1] h == f[2] IN
           /\ round.pc = "reclaim" /\ s \notin late /\ answers[h] # "none"
           /\ IF s \in Listed(round.doc) THEN Owners(h) = {s} ELSE Owners(h) = {}
           => (answers'[h] # "none" \/ upsets' # upsets)]_evidence
  <2> SUFFICES ASSUME EvidenceInv, EvidenceNext, NEW f \in fresh, NEW s, NEW h,
                      s = f[1], h = f[2], round.pc = "reclaim", s \notin late, answers[h] # "none",
                      IF s \in Listed(round.doc) THEN Owners(h) = {s} ELSE Owners(h) = {}
               PROVE  answers'[h] # "none" \/ upsets' # upsets
    BY PartsMoveAlone
  <2>1. s \in Sites /\ h \in Hosts
    BY DEF EvidenceInv, EvidenceType
  <2>2. h \in round.todo => s \in round.busy
    BY DEF EvidenceInv, FreshIsKnown
  <2>3. ASSUME NEW g \in Hosts, ReclaimHost(g) PROVE answers'[h] # "none"
    <3>1. CASE g = h
      <4>1. ASSUME NEW owner \in IF Owners(h) = {} THEN {NoSite} ELSE Owners(h)
            PROVE  Kept(h, owner)
        <5>1. NoSite \notin Sites
          BY EvidenceTyped
        <5>2. h \in round.todo
          BY <2>3, <3>1 DEF ReclaimHost
        <5> QED
          BY <2>1, <2>2, <4>1, <5>1, <5>2 DEF Kept, StillWorking, Listed
      <4>2. answers' = answers
        BY <2>3, <3>1, <4>1 DEF ReclaimHost
      <4> QED
        BY <4>2
    <3>2. CASE g # h
      BY <2>1, <2>3, <3>2 DEF ReclaimHost, Forgets
    <3> QED
      BY <3>1, <3>2
  <2>4. ASSUME NEW t \in Sites, NEW g \in Hosts, Judge(t, g)
        PROVE  answers'[h] # "none" \/ upsets' # upsets
    BY <2>1, <2>4, EvidenceTyped DEF Judge, Recorded
  <2>5. CASE Reboot
    <3>1. upsets' = upsets + 1 /\ upsets < MaxUpsets
      BY <2>5 DEF Reboot, Upset
    <3> QED
      BY <3>1
  <2>6. ASSUME UNCHANGED answers PROVE answers'[h] # "none"
    BY <2>6
  <2> QED
    BY <2>3, <2>4, <2>5, <2>6
    DEF EvidenceNext, Trigger, Reconcile, FinishPass, Bind, TearDown, Advance, Edit, Dial,
        Persist, StartRound, Walk, Arrive, Snapshot, ListHosts, FinishRound, Serves
<1> QED
  BY <1>1, <1>2, <1>3, PTL DEF Spec, LiveEvidenceKept

-----------------------------------------------------------------------------
(* All parts                                                               *)

\* The parts keep their invariants side by side.
LEMMA AdministrationInductive ==
    /\ Init => AdministrationInv
    /\ AdministrationInv /\ [Next]_administration => AdministrationInv'
<1>1. Init => AdministrationInv
  BY RevocationInductive, ConsoleInductive, LockoutInductive, ConfirmationInductive,
     EvidenceInductive, OnboardingSafeInductive DEF Init, AdministrationInv
<1>2. AdministrationInv /\ [Next]_administration => AdministrationInv'
  BY PartsMoveAlone, RevocationInductive, ConsoleInductive, LockoutInductive,
     ConfirmationInductive, EvidenceInductive, OnboardingSafeInductive DEF AdministrationInv
<1> QED
  BY <1>1, <1>2

\* Every part keeps its types.
THEOREM AdministrationTyped == Spec => []AdministrationType
<1>1. AdministrationInv => AdministrationType
  BY DEF AdministrationInv, AdministrationType, RevocationInv, ConsoleInv, LockoutInv,
         ConfirmationInv, EvidenceInv, OnboardingSafe, OnboardingInv
<1> QED
  BY <1>1, AdministrationInductive, PTL DEF Spec
=============================================================================
