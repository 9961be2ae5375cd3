---------------------------- MODULE FungibleProofs ----------------------------
(***************************************************************************)
(* Everybody who needs a transaction has it before it can be ordered.          *)
(*                                                                          *)
(* The programs of the views are sequences put together from parts, so the      *)
(* argument begins with what a concatenation contains and in which order         *)
(* (Concatenated, Precedes): the records are stored before the                  *)
(* acknowledgement that the initiator awaits before it broadcasts                *)
(* (InitiatorSteps, PartySteps, AuditorSteps).  A view is at some suffix of its   *)
(* program (Suffix), so what comes before a step that is done is done            *)
(* (DoneBefore), and a step that is done has left its effect on a disk or had     *)
(* its message (EffectsOK).  From the broadcast one goes back through the        *)
(* messages to what every party has stored (EveryoneDone, PartiesKnow).          *)
(* The rest rests on this: the vaults follow the ledger (FollowInv), and the     *)
(* records follow the vaults (RecordOK), and of two transactions that select one   *)
(* token the second waits for the first to be rejected (RaceInv).              *)
(***************************************************************************)
EXTENDS FungibleViews, VaultProofs

-----------------------------------------------------------------------------
\* Sequences of steps.

\* All there are.
Steps ==
    {"ask identity", "tell identity", "identity", "quota", "select", "gather", "ask action", "action",
     "send action", "actions", "transient", "ask signature", "sign", "signature", "ask audit", "audit",
     "append", "approve", "audited", "approval", "ask approval", "approval request", "approved",
     "envelope", "records", "distribute", "receive", "acknowledge", "acknowledged",
     "distribute to auditor", "acknowledged by auditor", "prepared", "busy", "broadcast",
     "ask broadcast", "broadcast request", "committed", "final"}

\* a is a step of p, and no b comes before one.
Precedes(p, a, b) ==
    /\ a \in Range(p)
    /\ \A i, j \in DOMAIN p : p[i] = a /\ p[j] = b => i < j

\* What a concatenation is made of.
LEMMA Concatenated ==
    ASSUME NEW p \in Seq(Steps), NEW q \in Seq(Steps)
    PROVE  /\ p \o q \in Seq(Steps)
           /\ Range(p \o q) = Range(p) \cup Range(q)
           /\ \A a, b : Precedes(p, a, b) /\ a \notin Range(q) => Precedes(p \o q, a, b)
           /\ \A a, b : Precedes(q, a, b) /\ b \notin Range(p) => Precedes(p \o q, a, b)
  <1> DEFINE m == Len(p)
             n == Len(q)
             s == p \o q
  <1>1. m \in Nat /\ n \in Nat /\ DOMAIN p = 1 .. m /\ DOMAIN q = 1 .. n
    OBVIOUS
  <1>2. /\ s \in Seq(Steps) /\ DOMAIN s = 1 .. (m + n)
        /\ \A i \in 1 .. m : s[i] = p[i]
        /\ \A i \in 1 .. (m + n) : i \notin 1 .. m => s[i] = q[i - m] /\ i - m \in 1 .. n
        /\ \A i \in 1 .. n : s[m + i] = q[i] /\ m + i \in 1 .. (m + n) /\ m + i \notin 1 .. m
    OBVIOUS
  <1>3. \A i \in 1 .. m : i \in 1 .. (m + n)
    BY <1>1
  <1> HIDE DEF m, n, s
  <1>4. Range(s) = Range(p) \cup Range(q)
    <2>1. \A x \in Range(s) : x \in Range(p) \cup Range(q)
      <3> TAKE x \in Range(s)
      <3>1. PICK i \in 1 .. (m + n) : x = s[i]
        BY <1>2 DEF Range
      <3>2. CASE i \in 1 .. m
        BY <1>1, <1>2, <3>1, <3>2 DEF Range
      <3>3. CASE i \notin 1 .. m
        BY <1>1, <1>2, <3>1, <3>3 DEF Range
      <3> QED
        BY <3>2, <3>3
    <2>2. Range(p) \subseteq Range(s)
      BY <1>1, <1>2, <1>3 DEF Range
    <2>3. Range(q) \subseteq Range(s)
      BY <1>1, <1>2 DEF Range
    <2> QED
      BY <2>1, <2>2, <2>3
  <1>5. ASSUME NEW a, NEW b, Precedes(p, a, b), a \notin Range(q)
        PROVE  Precedes(s, a, b)
    <2> SUFFICES ASSUME NEW i \in 1 .. (m + n), NEW j \in 1 .. (m + n), s[i] = a, s[j] = b
                 PROVE  i < j
      BY <1>2, <1>4, <1>5 DEF Precedes
    <2>1. i \in 1 .. m /\ p[i] = a
      BY <1>1, <1>2, <1>5 DEF Range
    <2>2. CASE j \in 1 .. m
      BY <1>1, <1>2, <1>5, <2>1, <2>2 DEF Precedes
    <2>3. CASE j \notin 1 .. m
      BY <1>1, <2>1, <2>3
    <2> QED
      BY <2>2, <2>3
  <1>6. ASSUME NEW a, NEW b, Precedes(q, a, b), b \notin Range(p)
        PROVE  Precedes(s, a, b)
    <2> SUFFICES ASSUME NEW i \in 1 .. (m + n), NEW j \in 1 .. (m + n), s[i] = a, s[j] = b
                 PROVE  i < j
      BY <1>2, <1>4, <1>6 DEF Precedes
    <2>1. j \notin 1 .. m /\ q[j - m] = b /\ j - m \in 1 .. n
      BY <1>1, <1>2, <1>6 DEF Range
    <2>2. CASE i \in 1 .. m
      BY <1>1, <2>1, <2>2
    <2>3. CASE i \notin 1 .. m
      <3>1. i - m \in DOMAIN q /\ j - m \in DOMAIN q /\ q[i - m] = a
        BY <1>1, <1>2, <2>1, <2>3
      <3>2. i - m < j - m
        BY <1>6, <2>1, <3>1 DEF Precedes
      <3> QED
        BY <1>1, <3>2
    <2> QED
      BY <2>2, <2>3
  <1> QED
    BY <1>2, <1>4, <1>5, <1>6 DEF s

\* A step that occurs in one place only.
Once(p, a) == \A i, j \in DOMAIN p : p[i] = a /\ p[j] = a => i = j

LEMMA OnceInLast ==
    ASSUME NEW p \in Seq(Steps), NEW q \in Seq(Steps), NEW a, a \notin Range(p), Once(q, a)
    PROVE  Once(p \o q, a)
  <1> DEFINE m == Len(p)
             n == Len(q)
             s == p \o q
  <1>1. m \in Nat /\ n \in Nat /\ DOMAIN p = 1 .. m /\ DOMAIN q = 1 .. n
    OBVIOUS
  <1>2. /\ DOMAIN s = 1 .. (m + n)
        /\ \A i \in 1 .. m : s[i] = p[i]
        /\ \A i \in 1 .. (m + n) : i \notin 1 .. m => s[i] = q[i - m] /\ i - m \in 1 .. n
    OBVIOUS
  <1> HIDE DEF m, n, s
  <1>3. \A i \in 1 .. (m + n) : s[i] = a => i \notin 1 .. m /\ q[i - m] = a /\ i - m \in 1 .. n
    BY <1>1, <1>2 DEF Range
  <1> SUFFICES ASSUME NEW i \in 1 .. (m + n), NEW j \in 1 .. (m + n), s[i] = a, s[j] = a
               PROVE  i = j
    BY <1>2 DEF Once, s
  <1>4. i - m = j - m
    BY <1>1, <1>3 DEF Once
  <1> QED
    BY <1>1, <1>4

LEMMA OnceInFirst ==
    ASSUME NEW p \in Seq(Steps), NEW q \in Seq(Steps), NEW a, a \notin Range(q), Once(p, a)
    PROVE  Once(p \o q, a)
  <1> DEFINE m == Len(p)
             n == Len(q)
             s == p \o q
  <1>1. m \in Nat /\ n \in Nat /\ DOMAIN p = 1 .. m /\ DOMAIN q = 1 .. n
    OBVIOUS
  <1>2. /\ DOMAIN s = 1 .. (m + n)
        /\ \A i \in 1 .. m : s[i] = p[i]
        /\ \A i \in 1 .. (m + n) : i \notin 1 .. m => s[i] = q[i - m] /\ i - m \in 1 .. n
    OBVIOUS
  <1> HIDE DEF m, n, s
  <1>3. \A i \in 1 .. (m + n) : s[i] = a => i \in 1 .. m /\ p[i] = a
    BY <1>1, <1>2 DEF Range
  <1> SUFFICES ASSUME NEW i \in 1 .. (m + n), NEW j \in 1 .. (m + n), s[i] = a, s[j] = a
               PROVE  i = j
    BY <1>2 DEF Once, s
  <1> QED
    BY <1>1, <1>3 DEF Once

\* The concatenation of two or three sequences.
LEMMA FlattenFew ==
    ASSUME NEW s \in Seq(Seq(Steps)), Len(s) \in {2, 3}
    PROVE  /\ Len(s) = 2 => FlattenSeq(s) = s[1] \o s[2]
           /\ Len(s) = 3 => FlattenSeq(s) = (s[1] \o s[2]) \o s[3]
  <1> DEFINE D == 1 .. Len(s)
             Eq(f) == f = [i \in D |-> IF i = 1 THEN s[i] ELSE f[i - 1] \o s[i]]
             f0 == CHOOSE f : Eq(f)
             w == [i \in D |-> IF i = 1 THEN s[1]
                               ELSE IF i = 2 THEN s[1] \o s[2] ELSE (s[1] \o s[2]) \o s[3]]
  <1>1. Len(s) # 0 /\ 1 \in D /\ 2 \in D /\ (Len(s) = 3 => 3 \in D)
        /\ \A i \in D : i = 1 \/ i = 2 \/ (i = 3 /\ Len(s) = 3)
    <2> HIDE DEF w, Eq, f0
    <2>1. CASE Len(s) = 2
      BY <2>1
    <2>2. CASE Len(s) = 3
      BY <2>2
    <2> QED
      BY <2>1, <2>2
  <1>2. FlattenSeq(s) = f0[Len(s)]
    BY <1>1, Zenon DEF FlattenSeq
  <1>3. 2 - 1 = 1 /\ 3 - 1 = 2 /\ 2 # 1 /\ 3 # 1 /\ 3 # 2
    OBVIOUS
  <1> HIDE DEF D
  <1>4. Eq(w)
    <2>1. w[1] = s[1] /\ w[2] = s[1] \o s[2]
      BY <1>1, <1>3
    <2>2. Len(s) = 3 => w[3] = (s[1] \o s[2]) \o s[3]
      BY <1>1, <1>3
    <2>3. w = [i \in D |-> w[i]]
      OBVIOUS
    <2> HIDE DEF w
    <2>4. ASSUME NEW i \in D PROVE w[i] = IF i = 1 THEN s[i] ELSE w[i - 1] \o s[i]
      BY <1>1, <1>3, <2>1, <2>2
    <2> QED
      BY <2>3, <2>4
  <1>5. Eq(f0)
    <2> HIDE DEF w, Eq
    <2> QED
      BY <1>4
  <1>6. \A i \in D : f0[i] = IF i = 1 THEN s[i] ELSE f0[i - 1] \o s[i]
    <2> HIDE DEF f0
    <2> QED
      BY <1>5
  <1> HIDE DEF f0
  <1>7. f0[1] = s[1] /\ f0[2] = s[1] \o s[2]
    BY <1>1, <1>3, <1>6
  <1>8. Len(s) = 3 => f0[3] = (s[1] \o s[2]) \o s[3]
    BY <1>1, <1>3, <1>6, <1>7
  <1> QED
    BY <1>2, <1>7, <1>8

\* Short sequences.
LEMMA NoStep == Range(<< >>) = {}
  BY DEF Range

LEMMA OneStep ==
    ASSUME NEW S, NEW a \in S
    PROVE  <<a>> \in Seq(S) /\ Len(<<a>>) = 1 /\ <<a>>[1] = a /\ Range(<<a>>) = {a}
  <1> DEFINE x == <<a>>
  <1>1. x \in Seq(S) /\ Len(x) = 1 /\ x[1] = a
    OBVIOUS
  <1>2. DOMAIN x = 1 .. 1 /\ 1 .. 1 = {1}
    OBVIOUS
  <1> HIDE DEF x
  <1>3. Range(x) = {a}
    BY <1>1, <1>2 DEF Range
  <1> QED
    BY <1>1, <1>3 DEF x

LEMMA TwoSteps ==
    ASSUME NEW a \in Steps, NEW b \in Steps \ {a}
    PROVE  /\ <<a, b>> \in Seq(Steps) /\ Range(<<a, b>>) = {a, b}
           /\ Precedes(<<a, b>>, a, b)
  <1> DEFINE x == <<a, b>>
  <1>1. x \in Seq(Steps)
    OBVIOUS
  <1>2. x[1] = a /\ x[2] = b
    OBVIOUS
  <1>3. DOMAIN x = 1 .. 2 /\ 1 .. 2 = {1, 2}
    OBVIOUS
  <1> HIDE DEF x
  <1>4. Range(x) = {a, b}
    BY <1>2, <1>3 DEF Range
  <1>5. Precedes(x, a, b)
    BY <1>2, <1>3, <1>4 DEF Precedes
  <1> QED
    BY <1>1, <1>4, <1>5 DEF x

LEMMA ThreeSteps ==
    ASSUME NEW a \in Steps, NEW b \in Steps \ {a}, NEW c \in Steps \ {a, b}
    PROVE  /\ <<a, b, c>> \in Seq(Steps) /\ Range(<<a, b, c>>) = {a, b, c}
           /\ Precedes(<<a, b, c>>, a, b) /\ Precedes(<<a, b, c>>, a, c)
           /\ Precedes(<<a, b, c>>, b, c)
  <1> DEFINE x == <<a, b, c>>
  <1>1. x \in Seq(Steps)
    OBVIOUS
  <1>2. x[1] = a /\ x[2] = b /\ x[3] = c
    OBVIOUS
  <1>3. DOMAIN x = 1 .. 3 /\ 1 .. 3 = {1, 2, 3}
    OBVIOUS
  <1> HIDE DEF x
  <1>4. Range(x) = {a, b, c}
    BY <1>2, <1>3 DEF Range
  <1>5. Precedes(x, a, b) /\ Precedes(x, a, c) /\ Precedes(x, b, c)
    BY <1>2, <1>3, <1>4 DEF Precedes
  <1> QED
    BY <1>1, <1>4, <1>5 DEF x

LEMMA FourSteps ==
    ASSUME NEW a \in Steps, NEW b \in Steps \ {a}, NEW c \in Steps \ {a, b}, NEW d \in Steps \ {a, b, c}
    PROVE  /\ <<a, b, c, d>> \in Seq(Steps) /\ Range(<<a, b, c, d>>) = {a, b, c, d}
           /\ Precedes(<<a, b, c, d>>, a, c) /\ Precedes(<<a, b, c, d>>, b, c)
           /\ Precedes(<<a, b, c, d>>, a, d) /\ Precedes(<<a, b, c, d>>, b, d)
           /\ Precedes(<<a, b, c, d>>, c, d)
  <1> DEFINE x == <<a, b, c, d>>
  <1>1. x \in Seq(Steps)
    OBVIOUS
  <1>2. x[1] = a /\ x[2] = b /\ x[3] = c /\ x[4] = d
    OBVIOUS
  <1>3. DOMAIN x = 1 .. 4 /\ 1 .. 4 = {1, 2, 3, 4}
    OBVIOUS
  <1> HIDE DEF x
  <1>4. Range(x) = {a, b, c, d}
    BY <1>2, <1>3 DEF Range
  <1>5. Precedes(x, a, c) /\ Precedes(x, b, c)
    BY <1>2, <1>3, <1>4 DEF Precedes
  <1>6. Precedes(x, a, d) /\ Precedes(x, b, d) /\ Precedes(x, c, d)
    BY <1>2, <1>3, <1>4 DEF Precedes
  <1> QED
    BY <1>1, <1>4, <1>5, <1>6 DEF x

\* The elements of a concatenation.
LEMMA Elements ==
    ASSUME NEW S, NEW p \in Seq(S), NEW q \in Seq(S)
    PROVE  /\ p \o q \in Seq(S)
           /\ Len(p \o q) = Len(p) + Len(q)
           /\ \A i \in 1 .. Len(p) : (p \o q)[i] = p[i]
           /\ \A i \in 1 .. Len(q) : (p \o q)[Len(p) + i] = q[i]
  OBVIOUS

-----------------------------------------------------------------------------
\* The programs of the views.

\* What everybody has to have before a transaction is broadcast, as steps of its
\* initiator.
Needed(t) ==
    {"transient", "envelope", "records", "acknowledged by auditor"}
        \cup (IF Responder[t] # NoNode THEN {"acknowledged"} ELSE {})
        \cup (IF OnOrion(t) THEN {"approved"} ELSE {"approval"})
        \cup (IF View[t] \in {"issue", "prepared"} THEN {} ELSE {"select"})

\* Who hands a transaction to the network, and the step of the initiator that leads
\* to it.
Caster(t) == IF OnOrion(t) THEN "committer" ELSE "initiator"
Sending(t) == IF OnOrion(t) THEN "ask broadcast" ELSE "broadcast"

StepsBefore ==
    {"ask identity", "identity", "quota", "select", "gather", "ask action", "actions"}
StepsOfEndorsement ==
    {"transient", "ask signature", "signature", "ask audit", "audited", "approval",
     "ask approval", "approved", "envelope", "records", "distribute", "acknowledged",
     "distribute to auditor", "acknowledged by auditor"}
StepsOfOrdering == {"broadcast", "ask broadcast", "committed", "final"}

\* Sending a transaction to everybody.
LEMMA Distribution ==
    ASSUME NEW t \in TxIds
    PROVE  /\ distributeEnv(t) \in Seq(Steps)
           /\ Range(distributeEnv(t)) \subseteq {"envelope", "records", "distribute", "acknowledged",
                                         "distribute to auditor", "acknowledged by auditor"}
           /\ {"envelope", "records", "acknowledged by auditor"} \subseteq Range(distributeEnv(t))
           /\ Responder[t] # NoNode => "acknowledged" \in Range(distributeEnv(t))
           /\ Precedes(distributeEnv(t), "envelope", "records")
  <1> DEFINE mine == <<"envelope", "records">>
             theirs == <<"distribute", "acknowledged">>
             auditors == <<"distribute to auditor", "acknowledged by auditor">>
             me == <<"me">>
             party == <<"party">>
             auditor == <<"auditor">>
             l == distributionListCompressed(t)
             s == [i \in DOMAIN l |-> distributeTo(l[i])]
  <1>1. mine \in Seq(Steps) /\ Range(mine) = {"envelope", "records"} /\ Precedes(mine, "envelope", "records")
    <2>1. "envelope" \in Steps /\ "records" \in Steps \ {"envelope"}
      BY DEF Steps
    <2> QED
      BY <2>1, TwoSteps
  <1>2. theirs \in Seq(Steps) /\ Range(theirs) = {"distribute", "acknowledged"}
    <2>1. "distribute" \in Steps /\ "acknowledged" \in Steps \ {"distribute"}
      BY DEF Steps
    <2> QED
      BY <2>1, TwoSteps
  <1>3. auditors \in Seq(Steps) /\ Range(auditors) = {"distribute to auditor", "acknowledged by auditor"}
    <2>1. "distribute to auditor" \in Steps /\ "acknowledged by auditor" \in Steps \ {"distribute to auditor"}
      BY DEF Steps
    <2> QED
      BY <2>1, TwoSteps
  <1>4. distributeTo("me") = mine /\ distributeTo("party") = theirs /\ distributeTo("auditor") = auditors
    BY DEF distributeTo
  <1>5. distributeEnv(t) = FlattenSeq(s)
    BY DEF distributeEnv
  <1> DEFINE Entries == {"me", "party", "auditor"}
  <1>12. "me" \in Entries /\ "party" \in Entries /\ "auditor" \in Entries
    OBVIOUS
  <1> HIDE DEF Entries
  <1>6. me \in Seq(Entries) /\ Len(me) = 1 /\ me[1] = "me"
    BY <1>12, OneStep
  <1>7. party \in Seq(Entries) /\ Len(party) = 1 /\ party[1] = "party"
    BY <1>12, OneStep
  <1>8. auditor \in Seq(Entries) /\ Len(auditor) = 1 /\ auditor[1] = "auditor"
    BY <1>12, OneStep
  <1>9. 1 \in 1 .. 1 /\ 1 + 1 = 2 /\ 2 + 1 = 3 /\ 1 \in 1 .. 2 /\ 2 \in 1 .. 2
        /\ (\A i \in 1 .. 2 : i = 1 \/ i = 2) /\ (\A i \in 1 .. 3 : i = 1 \/ i = 2 \/ i = 3)
    OBVIOUS
  <1>10. CASE Responder[t] = NoNode
    <2>1. l = me \o auditor
      BY <1>6, <1>10, ConcatEmptySeq DEF distributionListCompressed
    <2> HIDE DEF mine, theirs, auditors, me, party, auditor, l
    <2>2. l \in Seq(Entries) /\ Len(l) = 2 /\ l[1] = "me" /\ l[2] = "auditor"
      <3>1. /\ l \in Seq(Entries) /\ Len(l) = Len(me) + Len(auditor)
            /\ \A i \in 1 .. Len(me) : l[i] = me[i]
            /\ \A i \in 1 .. Len(auditor) : l[Len(me) + i] = auditor[i]
        BY <1>6, <1>8, <2>1, Elements
      <3> QED
        BY <1>6, <1>8, <1>9, <3>1
    <2>3. DOMAIN l = 1 .. 2 /\ DOMAIN s = 1 .. 2
      BY <2>2
    <2>4. s[1] = mine /\ s[2] = auditors
      BY <1>4, <1>9, <2>2, <2>3
    <2>5. \A i \in 1 .. 2 : s[i] \in Seq(Steps)
      BY <1>1, <1>3, <1>9, <2>4
    <2>6. s = [i \in 1 .. 2 |-> s[i]]
      BY <2>3
    <2> HIDE DEF s
    <2>7. s \in Seq(Seq(Steps)) /\ Len(s) = 2
      BY <2>5, <2>6
    <2>8. FlattenSeq(s) = mine \o auditors
      BY <2>4, <2>7, FlattenFew
    <2>9. /\ mine \o auditors \in Seq(Steps)
          /\ Range(mine \o auditors) = Range(mine) \cup Range(auditors)
      BY <1>1, <1>3, Concatenated
    <2>10. Precedes(mine \o auditors, "envelope", "records")
      BY <1>1, <1>3, Concatenated
    <2> QED
      BY <1>1, <1>3, <1>5, <1>10, <2>8, <2>9, <2>10
  <1>11. CASE Responder[t] # NoNode
    <2> DEFINE l2 == me \o party
    <2>1. l = l2 \o auditor
      BY <1>11 DEF distributionListCompressed
    <2> HIDE DEF mine, theirs, auditors, me, party, auditor, l
    <2>2. l2 \in Seq(Entries) /\ Len(l2) = 2 /\ l2[1] = "me" /\ l2[2] = "party"
      BY <1>6, <1>7, <1>9, Elements
    <2> HIDE DEF l2
    <2>3. l \in Seq(Entries) /\ Len(l) = 3 /\ l[1] = "me" /\ l[2] = "party" /\ l[3] = "auditor"
      <3>1. /\ l \in Seq(Entries) /\ Len(l) = Len(l2) + Len(auditor)
            /\ \A i \in 1 .. Len(l2) : l[i] = l2[i]
            /\ \A i \in 1 .. Len(auditor) : l[Len(l2) + i] = auditor[i]
        <4>1. l2 \in Seq(Entries) /\ auditor \in Seq(Entries)
          BY <1>8, <2>2
        <4>2. /\ l2 \o auditor \in Seq(Entries) /\ Len(l2 \o auditor) = Len(l2) + Len(auditor)
              /\ \A i \in 1 .. Len(l2) : (l2 \o auditor)[i] = l2[i]
              /\ \A i \in 1 .. Len(auditor) : (l2 \o auditor)[Len(l2) + i] = auditor[i]
          BY <4>1, Elements
        <4> QED
          BY <2>1, <4>2
      <3>2. l[1] = l2[1] /\ l[2] = l2[2]
        BY <1>9, <2>2, <3>1
      <3>3. l[3] = auditor[1]
        BY <1>8, <1>9, <2>2, <3>1
      <3>4. Len(l) = 3
        BY <1>8, <1>9, <2>2, <3>1
      <3> QED
        BY <1>8, <2>2, <3>1, <3>2, <3>3, <3>4
    <2>4. DOMAIN l = 1 .. 3 /\ DOMAIN s = 1 .. 3 /\ 1 \in 1 .. 3 /\ 2 \in 1 .. 3 /\ 3 \in 1 .. 3
      BY <2>3
    <2>5. s[1] = mine /\ s[2] = theirs /\ s[3] = auditors
      BY <1>4, <2>3, <2>4
    <2>6. \A i \in 1 .. 3 : s[i] \in Seq(Steps)
      BY <1>1, <1>2, <1>3, <1>9, <2>5
    <2>7. s = [i \in 1 .. 3 |-> s[i]]
      BY <2>4
    <2> HIDE DEF s
    <2>8. s \in Seq(Seq(Steps)) /\ Len(s) = 3
      BY <2>6, <2>7
    <2>9. FlattenSeq(s) = (mine \o theirs) \o auditors
      BY <2>5, <2>8, FlattenFew
    <2> DEFINE both == mine \o theirs
    <2>10. both \in Seq(Steps) /\ Range(both) = Range(mine) \cup Range(theirs)
      BY <1>1, <1>2, Concatenated
    <2>11. Precedes(both, "envelope", "records")
      BY <1>1, <1>2, Concatenated
    <2> HIDE DEF both
    <2>12. /\ both \o auditors \in Seq(Steps)
           /\ Range(both \o auditors) = Range(both) \cup Range(auditors)
      BY <1>3, <2>10, Concatenated
    <2>13. Precedes(both \o auditors, "envelope", "records")
      BY <1>3, <2>10, <2>11, Concatenated
    <2> QED
      BY <1>1, <1>2, <1>3, <1>5, <2>9, <2>10, <2>12, <2>13 DEF both
  <1> QED
    BY <1>10, <1>11

\* Whose program is whose.
LEMMA ProgramOf ==
    ASSUME NEW t \in TxIds
    PROVE  /\ Program[t]["initiator"] = InitiatorProgram(t)
           /\ Program[t]["party"] = ResponderProgram(t)
           /\ Program[t]["auditor"] = AuditView
           /\ Program[t]["approver"] = OfCustodian(t, RequestApprovalResponderView)
           /\ Program[t]["committer"] = OfCustodian(t, BroadcastResponderView)
  <1>1. Program[t] = [r \in Roles |->
            CASE r = "initiator" -> InitiatorProgram(t)
              [] r = "party"     -> ResponderProgram(t)
              [] r = "auditor"   -> AuditView
              [] r = "approver"  -> OfCustodian(t, RequestApprovalResponderView)
              [] r = "committer" -> OfCustodian(t, BroadcastResponderView)]
    BY ViewsAssumption DEF Programs
  <1> QED
    BY <1>1 DEF Roles, CustodianRoles

\* No b in the first part.
LEMMA Before ==
    ASSUME NEW p, NEW a \in Range(p), NEW b, b \notin Range(p)
    PROVE  Precedes(p, a, b)
  BY DEF Precedes, Range

\* What comes before the last part.
LEMMA InFirst ==
    ASSUME NEW p \in Seq(Steps), NEW q \in Seq(Steps), NEW a \in Range(p) \ Range(q),
           NEW b, b \notin Range(p)
    PROVE  Precedes(p \o q, a, b)
  BY Before, Concatenated

\* How a transaction collects what it needs.
LEMMA Endorsement ==
    ASSUME NEW t \in TxIds
    PROVE  /\ CollectEndorsements(t) \in Seq(Steps)
           /\ Range(CollectEndorsements(t)) \subseteq StepsOfEndorsement
           /\ {"transient", "envelope", "records", "acknowledged by auditor"}
                  \subseteq Range(CollectEndorsements(t))
           /\ Responder[t] # NoNode => "acknowledged" \in Range(CollectEndorsements(t))
           /\ OnOrion(t) => "approved" \in Range(CollectEndorsements(t))
           /\ ~OnOrion(t) => "approval" \in Range(CollectEndorsements(t))
           /\ Precedes(CollectEndorsements(t), "transient", "records")
           /\ Precedes(CollectEndorsements(t), "envelope", "records")
  <1> DEFINE a == <<"transient">>
             b == requestSignaturesOnTransfers(t)
             c1 == startRemote
             c2 == <<"audited">>
             c == c1 \o c2
             d == RequestApproval(t)
             e == distributeEnv(t)
             ab == a \o b
             abc == ab \o c
             abcd == abc \o d
  <1>1. a \in Seq(Steps) /\ Range(a) = {"transient"}
    BY OneStep, ZenonT(60) DEF Steps
  <1>2. b \in Seq(Steps) /\ Range(b) \subseteq {"ask signature", "signature"}
    <2> DEFINE both == <<"ask signature", "signature">>
    <2>3. both \in Seq(Steps) /\ Range(both) = {"ask signature", "signature"}
      <3>1. "ask signature" \in Steps /\ "signature" \in Steps \ {"ask signature"}
        BY DEF Steps
      <3> QED
        BY <3>1, TwoSteps
    <2>4. View[t] = "swap" => b = both
      BY DEF requestSignaturesOnTransfers
    <2> HIDE DEF both, b
    <2>1. CASE View[t] = "swap"
      BY <2>1, <2>3, <2>4
    <2>2. CASE View[t] # "swap"
      BY <2>2 DEF requestSignaturesOnTransfers, Range, b
    <2> QED
      BY <2>1, <2>2
  <1>3. c1 \in Seq(Steps) /\ Range(c1) = {"ask audit"}
    BY OneStep, ZenonT(60) DEF Steps, startRemote
  <1>4. c2 \in Seq(Steps) /\ Range(c2) = {"audited"}
    BY OneStep, ZenonT(60) DEF Steps
  <1>5. d \in Seq(Steps) /\ Range(d) = IF OnOrion(t) THEN {"ask approval", "approved"} ELSE {"approval"}
    <2>1. CASE OnOrion(t)
      <3>1. "ask approval" \in Steps /\ "approved" \in Steps \ {"ask approval"}
        BY DEF Steps
      <3> QED
        BY <2>1, <3>1, TwoSteps DEF RequestApproval, RequestApprovalView
    <2>2. CASE ~OnOrion(t)
      BY <2>2, OneStep, ZenonT(60) DEF Steps, RequestApproval, EndorseChaincodeView
    <2> QED
      BY <2>1, <2>2
  <1>6. CollectEndorsements(t) = abcd \o e
    <2>1. a \o requestSignaturesOnIssues(t) = a
      BY <1>1, ConcatEmptySeq DEF requestSignaturesOnIssues
    <2> QED
      BY <2>1 DEF CollectEndorsements, requestAudit, AuditingViewInitiator
  <1>7. /\ e \in Seq(Steps)
        /\ Range(e) \subseteq {"envelope", "records", "distribute", "acknowledged",
                               "distribute to auditor", "acknowledged by auditor"}
        /\ {"envelope", "records", "acknowledged by auditor"} \subseteq Range(e)
        /\ Responder[t] # NoNode => "acknowledged" \in Range(e)
        /\ Precedes(e, "envelope", "records")
    BY Distribution
  <1> HIDE DEF a, b, c1, c2, d, e
  <1>8. c \in Seq(Steps) /\ Range(c) = {"ask audit", "audited"}
    <2>1. c \in Seq(Steps) /\ Range(c) = Range(c1) \cup Range(c2)
      BY <1>3, <1>4, Concatenated
    <2> QED
      BY <1>3, <1>4, <2>1
  <1> HIDE DEF c
  <1>9. ab \in Seq(Steps) /\ Range(ab) = {"transient"} \cup Range(b)
    BY <1>1, <1>2, Concatenated
  <1> HIDE DEF ab
  <1>10. abc \in Seq(Steps) /\ Range(abc) = {"transient", "ask audit", "audited"} \cup Range(b)
    <2>1. abc \in Seq(Steps) /\ Range(abc) = Range(ab) \cup Range(c)
      BY <1>8, <1>9, Concatenated
    <2> QED
      BY <1>8, <1>9, <2>1
  <1> HIDE DEF abc
  <1>11. abcd \in Seq(Steps) /\ Range(abcd) = {"transient", "ask audit", "audited"} \cup Range(b) \cup Range(d)
    BY <1>5, <1>10, Concatenated
  <1> HIDE DEF abcd
  <1>12. abcd \o e \in Seq(Steps) /\ Range(abcd \o e) = Range(abcd) \cup Range(e)
    BY <1>7, <1>11, Concatenated
  <1>13. "transient" \in Range(abcd) \ Range(e) /\ "records" \notin Range(abcd)
    BY <1>2, <1>5, <1>7, <1>11
  <1>14. Precedes(abcd \o e, "transient", "records")
    BY <1>7, <1>11, <1>13, InFirst
  <1>15. Precedes(abcd \o e, "envelope", "records")
    BY <1>7, <1>11, <1>13, Concatenated
  <1>16. Range(abcd \o e) \subseteq StepsOfEndorsement
    BY <1>2, <1>5, <1>7, <1>11, <1>12 DEF StepsOfEndorsement
  <1>17. OnOrion(t) => "approved" \in Range(abcd \o e)
    BY <1>5, <1>11, <1>12
  <1>18. ~OnOrion(t) => "approval" \in Range(abcd \o e)
    BY <1>5, <1>11, <1>12
  <1> QED
    BY <1>6, <1>7, <1>12, <1>13, <1>14, <1>15, <1>16, <1>17, <1>18

\* How it is broadcast.
LEMMA Ordering ==
    ASSUME NEW t \in TxIds
    PROVE  /\ OrderingAndFinalityView(t) \in Seq(Steps)
           /\ Range(OrderingAndFinalityView(t)) =
                  {"final"} \cup IF OnOrion(t) THEN {"ask broadcast", "committed"} ELSE {"broadcast"}
           /\ ~OnOrion(t) => Once(OrderingAndFinalityView(t), "broadcast")
  <1> DEFINE a == BroadcastEnvelope(t)
             b == FinalityView
  <1>1. b \in Seq(Steps) /\ Range(b) = {"final"}
    BY OneStep, ZenonT(60) DEF Steps, FinalityView
  <1>2. a \in Seq(Steps) /\ Range(a) = IF OnOrion(t) THEN {"ask broadcast", "committed"} ELSE {"broadcast"}
    <2>1. CASE OnOrion(t)
      <3>1. "ask broadcast" \in Steps /\ "committed" \in Steps \ {"ask broadcast"}
        BY DEF Steps
      <3> QED
        BY <2>1, <3>1, TwoSteps DEF BroadcastEnvelope, BroadcastView
    <2>2. CASE ~OnOrion(t)
      BY <2>2, OneStep, ZenonT(60) DEF Steps, BroadcastEnvelope
    <2> QED
      BY <2>1, <2>2
  <1>3. OrderingAndFinalityView(t) = a \o b
    BY DEF OrderingAndFinalityView
  <1>4. ~OnOrion(t) => Once(a, "broadcast")
    <2>1. Len(<<"broadcast">>) = 1 /\ DOMAIN <<"broadcast">> = 1 .. 1 /\ 1 .. 1 = {1}
      OBVIOUS
    <2> QED
      BY <2>1 DEF Once, BroadcastEnvelope
  <1> HIDE DEF a, b
  <1>5. a \o b \in Seq(Steps) /\ Range(a \o b) = Range(a) \cup Range(b)
    BY <1>1, <1>2, Concatenated
  <1>6. ~OnOrion(t) => Once(a \o b, "broadcast")
    BY <1>1, <1>2, <1>4, OnceInFirst
  <1> QED
    BY <1>1, <1>2, <1>3, <1>5, <1>6

\* The initiator gets ready, collects what it needs, and has the transaction ordered.
LEMMA InitiatorShape ==
    ASSUME NEW t \in TxIds
    PROVE  \E h \in Seq(Steps), m \in Seq(Steps) :
              /\ InitiatorProgram(t) = ((h \o CollectEndorsements(t)) \o m) \o OrderingAndFinalityView(t)
              /\ Range(h) \subseteq StepsBefore
              /\ Range(m) \subseteq {"busy", "prepared"}
              /\ "prepared" \in Range(m) => View[t] = "prepared"
              /\ "select" \in Range(h) <=> View[t] \notin {"issue", "prepared"}
  <1> DEFINE R == <<"ask identity", "identity">>
             Q == <<"quota">>
             L == <<"select">>
             B == <<"busy">>
             W == <<"prepared">>
             G == <<"gather">>
             LG == <<"select", "gather">>
             A == <<"ask action", "actions">>
             C == CollectEndorsements(t)
             O == OrderingAndFinalityView(t)
             OK(h, m) == /\ InitiatorProgram(t) = ((h \o C) \o m) \o O
                         /\ Range(h) \subseteq StepsBefore
                         /\ Range(m) \subseteq {"busy", "prepared"}
                         /\ "prepared" \in Range(m) => View[t] = "prepared"
                         /\ "select" \in Range(h) <=> View[t] \notin {"issue", "prepared"}
  <1>1. R \in Seq(Steps) /\ Range(R) = {"ask identity", "identity"}
    <2>1. "ask identity" \in Steps /\ "identity" \in Steps \ {"ask identity"}
      BY DEF Steps
    <2> QED
      BY <2>1, TwoSteps
  <1>2. Q \in Seq(Steps) /\ Range(Q) = {"quota"}
    BY OneStep, ZenonT(60) DEF Steps
  <1>3. L \in Seq(Steps) /\ Range(L) = {"select"}
    BY OneStep, ZenonT(60) DEF Steps
  <1>4. B \in Seq(Steps) /\ Range(B) = {"busy"}
    BY OneStep, ZenonT(60) DEF Steps
  <1>5. W \in Seq(Steps) /\ Range(W) = {"prepared"}
    BY OneStep, ZenonT(60) DEF Steps
  <1>6. G \in Seq(Steps) /\ Range(G) = {"gather"}
    BY OneStep, ZenonT(60) DEF Steps
  <1>7. LG \in Seq(Steps) /\ Range(LG) = {"select", "gather"}
    <2>1. "select" \in Steps /\ "gather" \in Steps \ {"select"}
      BY DEF Steps
    <2> QED
      BY <2>1, TwoSteps
  <1>8. A \in Seq(Steps) /\ Range(A) = {"ask action", "actions"}
    <2>1. "ask action" \in Steps /\ "actions" \in Steps \ {"ask action"}
      BY DEF Steps
    <2> QED
      BY <2>1, TwoSteps
  <1>9. /\ View[t] = "issue" => InitiatorProgram(t) = (((R \o Q) \o C) \o B) \o O
        /\ View[t] = "transfer" => InitiatorProgram(t) = (((R \o L) \o C) \o B) \o O
        /\ View[t] = "selector" => InitiatorProgram(t) = (((R \o LG) \o C) \o B) \o O
        /\ View[t] = "redeem" => InitiatorProgram(t) = ((L \o C) \o B) \o O
        /\ View[t] = "prepared" => InitiatorProgram(t) = (((R \o G) \o C) \o W) \o O
        /\ View[t] = "swap" => InitiatorProgram(t) = ((((R \o L) \o A) \o C) \o B) \o O
    BY DEF InitiatorProgram, IssueCashView, TransferView, TransferWithSelectorView, RedeemView,
           PrepareTransferView, BroadcastPreparedTransferView, SwapInitiatorView, collectRemote,
           RequestRecipientIdentityView, ExchangeRecipientIdentitiesView
  <1>10. View[t] \in {"issue", "transfer", "selector", "redeem", "prepared", "swap"}
    BY ViewsAssumption
  <1> HIDE DEF R, Q, L, B, W, G, LG, A, C, O
  <1>11. R \o Q \in Seq(Steps) /\ Range(R \o Q) = Range(R) \cup Range(Q)
    BY <1>1, <1>2, Concatenated
  <1>12. R \o L \in Seq(Steps) /\ Range(R \o L) = Range(R) \cup Range(L)
    BY <1>1, <1>3, Concatenated
  <1>13. R \o LG \in Seq(Steps) /\ Range(R \o LG) = Range(R) \cup Range(LG)
    BY <1>1, <1>7, Concatenated
  <1>14. R \o G \in Seq(Steps) /\ Range(R \o G) = Range(R) \cup Range(G)
    BY <1>1, <1>6, Concatenated
  <1>15. (R \o L) \o A \in Seq(Steps) /\ Range((R \o L) \o A) = Range(R \o L) \cup Range(A)
    BY <1>8, <1>12, Concatenated
  <1>16. \E h \in Seq(Steps), m \in Seq(Steps) : OK(h, m)
    <2>1. CASE View[t] = "issue"
      <3>1. OK(R \o Q, B)
        BY <1>1, <1>2, <1>4, <1>9, <1>11, <2>1 DEF StepsBefore
      <3> QED
        BY <1>4, <1>11, <3>1
    <2>2. CASE View[t] = "transfer"
      <3>1. OK(R \o L, B)
        BY <1>1, <1>3, <1>4, <1>9, <1>12, <2>2 DEF StepsBefore
      <3> QED
        BY <1>4, <1>12, <3>1
    <2>3. CASE View[t] = "selector"
      <3>1. OK(R \o LG, B)
        BY <1>1, <1>7, <1>4, <1>9, <1>13, <2>3 DEF StepsBefore
      <3> QED
        BY <1>4, <1>13, <3>1
    <2>4. CASE View[t] = "redeem"
      <3>1. OK(L, B)
        BY <1>3, <1>4, <1>9, <2>4 DEF StepsBefore
      <3> QED
        BY <1>3, <1>4, <3>1
    <2>5. CASE View[t] = "prepared"
      <3>1. OK(R \o G, W)
        BY <1>1, <1>5, <1>6, <1>9, <1>14, <2>5 DEF StepsBefore
      <3> QED
        BY <1>5, <1>14, <3>1
    <2>6. CASE View[t] = "swap"
      <3>1. OK((R \o L) \o A, B)
        BY <1>1, <1>3, <1>4, <1>8, <1>9, <1>12, <1>15, <2>6 DEF StepsBefore
      <3> QED
        BY <1>4, <1>15, <3>1
    <2> QED
      BY <1>10, <2>1, <2>2, <2>3, <2>4, <2>5, <2>6
  <1> QED
    BY <1>16 DEF C, O

\* The program of the initiator.
LEMMA InitiatorSteps ==
    ASSUME NEW t \in TxIds
    PROVE  LET p == Program[t]["initiator"]
           IN /\ p \in Seq(Steps)
              /\ \A a \in Needed(t) : Precedes(p, a, Sending(t))
              /\ Sending(t) \in Range(p)
              /\ "append" \notin Range(p) /\ "final" \in Range(p)
              /\ "broadcast" \in Range(p) => ~OnOrion(t) /\ Once(p, "broadcast")
              /\ "select" \in Range(p) <=> View[t] \notin {"issue", "prepared"}
              /\ "prepared" \in Range(p) => View[t] = "prepared"
              /\ Precedes(p, "transient", "records")
              /\ Precedes(p, "envelope", "records")
  <1> DEFINE c == CollectEndorsements(t)
             o == OrderingAndFinalityView(t)
             p == Program[t]["initiator"]
  <1>1. PICK h \in Seq(Steps), m \in Seq(Steps) :
              /\ p = ((h \o c) \o m) \o o
              /\ Range(h) \subseteq StepsBefore
              /\ Range(m) \subseteq {"busy", "prepared"}
              /\ "prepared" \in Range(m) => View[t] = "prepared"
              /\ "select" \in Range(h) <=> View[t] \notin {"issue", "prepared"}
    BY InitiatorShape, ProgramOf
  <1>2. /\ c \in Seq(Steps) /\ Range(c) \subseteq StepsOfEndorsement
        /\ {"transient", "envelope", "records", "acknowledged by auditor"} \subseteq Range(c)
        /\ Responder[t] # NoNode => "acknowledged" \in Range(c)
        /\ OnOrion(t) => "approved" \in Range(c)
        /\ ~OnOrion(t) => "approval" \in Range(c)
        /\ Precedes(c, "transient", "records") /\ Precedes(c, "envelope", "records")
    BY Endorsement
  <1>3. /\ o \in Seq(Steps)
        /\ Range(o) = {"final"} \cup IF OnOrion(t) THEN {"ask broadcast", "committed"} ELSE {"broadcast"}
        /\ ~OnOrion(t) => Once(o, "broadcast")
    BY Ordering
  <1> DEFINE hc == h \o c
             hcm == hc \o m
  <1> HIDE DEF c, o, p
  <1>4. hc \in Seq(Steps) /\ Range(hc) = Range(h) \cup Range(c)
    BY <1>1, <1>2, Concatenated
  <1>5. Precedes(hc, "transient", "records") /\ Precedes(hc, "envelope", "records")
    BY <1>1, <1>2, Concatenated DEF StepsBefore
  <1> HIDE DEF hc
  <1>6. hcm \in Seq(Steps) /\ Range(hcm) = Range(hc) \cup Range(m)
    BY <1>1, <1>4, Concatenated
  <1>7. "transient" \notin Range(m) /\ "envelope" \notin Range(m)
    BY <1>1
  <1>8. Precedes(hcm, "transient", "records") /\ Precedes(hcm, "envelope", "records")
    BY <1>1, <1>4, <1>5, <1>7, Concatenated
  <1>9. p = hcm \o o
    BY <1>1 DEF hcm, hc
  <1> HIDE DEF hcm
  <1>10. p \in Seq(Steps) /\ Range(p) = Range(hcm) \cup Range(o)
    BY <1>3, <1>6, <1>9, Concatenated
  <1>11. "transient" \notin Range(o) /\ "envelope" \notin Range(o)
    BY <1>3
  <1>12. Precedes(p, "transient", "records") /\ Precedes(p, "envelope", "records")
    BY <1>3, <1>6, <1>8, <1>9, <1>11, Concatenated
  <1>13. Range(hcm) \subseteq StepsBefore \cup StepsOfEndorsement \cup {"busy", "prepared"}
    BY <1>1, <1>2, <1>4, <1>6
  <1>14. Sending(t) \in Range(o) \ Range(hcm)
    BY <1>3, <1>13 DEF Sending, StepsBefore, StepsOfEndorsement
  <1>15. ASSUME NEW a \in Needed(t) PROVE Precedes(p, a, Sending(t))
    <2>1. a \in Range(hcm)
      <3>1. CASE a = "select"
        BY <1>1, <1>4, <1>6, <1>15, <3>1 DEF Needed
      <3>2. CASE a # "select"
        BY <1>2, <1>4, <1>6, <1>15, <3>2 DEF Needed
      <3> QED
        BY <3>1, <3>2
    <2>2. a \notin Range(o)
      BY <1>3, <1>13, <2>1 DEF StepsBefore, StepsOfEndorsement
    <2> QED
      BY <1>3, <1>6, <1>9, <1>14, <2>1, <2>2, InFirst
  <1>16. "append" \notin Range(p) /\ "final" \in Range(p)
    BY <1>3, <1>10, <1>13 DEF StepsBefore, StepsOfEndorsement
  <1>17. "broadcast" \in Range(p) => ~OnOrion(t) /\ Once(p, "broadcast")
    <2>1. "broadcast" \notin Range(hcm)
      BY <1>13 DEF StepsBefore, StepsOfEndorsement
    <2>2. "broadcast" \in Range(p) => ~OnOrion(t)
      BY <1>3, <1>10, <2>1
    <2> QED
      BY <1>3, <1>6, <1>9, <2>1, <2>2, OnceInLast
  <1>18. "select" \in Range(p) <=> "select" \in Range(h)
    BY <1>1, <1>2, <1>3, <1>4, <1>6, <1>10 DEF StepsOfEndorsement
  <1>19. "prepared" \in Range(p) => "prepared" \in Range(m)
    BY <1>1, <1>2, <1>3, <1>4, <1>6, <1>10 DEF StepsBefore, StepsOfEndorsement
  <1> QED
    BY <1>1, <1>10, <1>12, <1>14, <1>15, <1>16, <1>17, <1>18, <1>19 DEF p

\* A party stores everything before it acknowledges, and the records last.
StoresFirst(p) ==
    /\ p \in Seq(Steps) /\ "acknowledge" \in Range(p)
    /\ \A a \in {"transient", "envelope"} : Precedes(p, a, "records")
    /\ \A a \in {"transient", "envelope", "records"} : Precedes(p, a, "acknowledge")

LEMMA Surrounded ==
    ASSUME NEW p \in Seq(Steps), StoresFirst(p), NEW q \in Seq(Steps),
           Range(q) \cap {"transient", "envelope", "records", "acknowledge"} = {}
    PROVE  StoresFirst(p \o q) /\ StoresFirst(q \o p)
  <1>1. /\ p \o q \in Seq(Steps) /\ q \o p \in Seq(Steps)
        /\ Range(p \o q) = Range(p) \cup Range(q) /\ Range(q \o p) = Range(p) \cup Range(q)
    BY Concatenated
  <1>2. /\ \A a, b : Precedes(p, a, b) /\ a \notin Range(q) => Precedes(p \o q, a, b)
        /\ \A a, b : Precedes(p, a, b) /\ b \notin Range(q) => Precedes(q \o p, a, b)
    BY Concatenated
  <1>3. \A a \in {"transient", "envelope", "records", "acknowledge"} : a \notin Range(q)
    OBVIOUS
  <1> QED
    BY <1>1, <1>2, <1>3 DEF StoresFirst

LEMMA Accepting ==
    StoresFirst(AcceptView) /\ Range(AcceptView) = {"transient", "envelope", "records", "acknowledge"}
  <1> DEFINE v == <<"transient", "envelope", "records", "acknowledge">>
  <1>1. /\ v \in Seq(Steps) /\ Range(v) = {"transient", "envelope", "records", "acknowledge"}
        /\ Precedes(v, "transient", "records") /\ Precedes(v, "envelope", "records")
        /\ Precedes(v, "transient", "acknowledge") /\ Precedes(v, "envelope", "acknowledge")
        /\ Precedes(v, "records", "acknowledge")
    <2>1. /\ "transient" \in Steps /\ "envelope" \in Steps \ {"transient"}
          /\ "records" \in Steps \ {"transient", "envelope"}
          /\ "acknowledge" \in Steps \ {"transient", "envelope", "records"}
      BY DEF Steps
    <2> QED
      BY <2>1, FourSteps
  <1>2. AcceptView = v
    BY DEF AcceptView
  <1> HIDE DEF v
  <1> QED
    BY <1>1, <1>2 DEF StoresFirst

LEMMA Endorsing ==
    StoresFirst(EndorseView)
      /\ Range(EndorseView) = {"sign", "transient", "receive", "envelope", "records", "acknowledge"}
  <1> DEFINE a == <<"sign", "transient">>
             b == <<"receive">>
             c == <<"envelope", "records", "acknowledge">>
             ab == a \o b
  <1>1. a \in Seq(Steps) /\ Range(a) = {"sign", "transient"}
    <2>1. "sign" \in Steps /\ "transient" \in Steps \ {"sign"}
      BY DEF Steps
    <2> QED
      BY <2>1, TwoSteps
  <1>2. b \in Seq(Steps) /\ Range(b) = {"receive"}
    BY OneStep, ZenonT(60) DEF Steps
  <1>3. /\ c \in Seq(Steps) /\ Range(c) = {"envelope", "records", "acknowledge"}
        /\ Precedes(c, "envelope", "records") /\ Precedes(c, "envelope", "acknowledge")
        /\ Precedes(c, "records", "acknowledge")
    <2>1. /\ "envelope" \in Steps
          /\ "records" \in Steps \ {"envelope"}
          /\ "acknowledge" \in Steps \ {"envelope", "records"}
      BY DEF Steps
    <2> QED
      BY <2>1, ThreeSteps
  <1>4. EndorseView = ab \o c
    BY DEF EndorseView, ReceiveTransaction
  <1> HIDE DEF a, b, c
  <1>5. ab \in Seq(Steps) /\ Range(ab) = Range(a) \cup Range(b)
    BY <1>1, <1>2, Concatenated
  <1> HIDE DEF ab
  <1>6. ab \o c \in Seq(Steps) /\ Range(ab \o c) = Range(ab) \cup Range(c)
    BY <1>3, <1>5, Concatenated
  <1>7. /\ "records" \notin Range(ab) /\ "acknowledge" \notin Range(ab)
        /\ "transient" \in Range(ab) \ Range(c)
    BY <1>1, <1>2, <1>3, <1>5
  <1>8. Precedes(ab \o c, "transient", "records") /\ Precedes(ab \o c, "transient", "acknowledge")
    BY <1>3, <1>5, <1>7, InFirst
  <1>9. /\ Precedes(ab \o c, "envelope", "records") /\ Precedes(ab \o c, "envelope", "acknowledge")
        /\ Precedes(ab \o c, "records", "acknowledge")
    BY <1>3, <1>5, <1>7, Concatenated
  <1>10. Range(ab \o c) = {"sign", "transient", "receive", "envelope", "records", "acknowledge"}
    BY <1>1, <1>2, <1>3, <1>5, <1>6
  <1> QED
    BY <1>4, <1>6, <1>8, <1>9, <1>10 DEF StoresFirst

\* The program of the other party.
LEMMA PartySteps ==
    ASSUME NEW t \in TxIds
    PROVE  LET p == Program[t]["party"]
           IN /\ p \in Seq(Steps)
              /\ Responder[t] # NoNode => StoresFirst(p)
              /\ Responder[t] = NoNode => p = << >>
              /\ View[t] = "swap" => Precedes(p, "select", "acknowledge") /\ "final" \in Range(p)
              /\ "select" \in Range(p) => View[t] = "swap"
              /\ Range(p) \cap {"append", "broadcast", "approval", "prepared"} = {}
  <1> DEFINE p == ResponderProgram(t)
             T == <<"tell identity">>
             R == <<"receive">>
             B == <<"busy">>
             F == <<"final">>
             A == <<"action">>
             L == <<"select">>
             D == <<"send action">>
             V == AcceptView
             E == EndorseView
             TR == T \o R
             TRV == TR \o V
             TRVB == TRV \o B
             TA == T \o A
             TAL == TA \o L
             TALD == TAL \o D
             TALDE == TALD \o E
             TALDEB == TALDE \o B
             Stored == {"transient", "envelope", "records", "acknowledge"}
             None == {"append", "broadcast", "approval", "prepared"}
  <1>1. T \in Seq(Steps) /\ Range(T) = {"tell identity"}
    BY OneStep, ZenonT(60) DEF Steps
  <1>2. R \in Seq(Steps) /\ Range(R) = {"receive"}
    BY OneStep, ZenonT(60) DEF Steps
  <1>3. B \in Seq(Steps) /\ Range(B) = {"busy"}
    BY OneStep, ZenonT(60) DEF Steps
  <1>4. F \in Seq(Steps) /\ Range(F) = {"final"}
    BY OneStep, ZenonT(60) DEF Steps
  <1>5. A \in Seq(Steps) /\ Range(A) = {"action"}
    BY OneStep, ZenonT(60) DEF Steps
  <1>6. L \in Seq(Steps) /\ Range(L) = {"select"}
    BY OneStep, ZenonT(60) DEF Steps
  <1>7. D \in Seq(Steps) /\ Range(D) = {"send action"}
    BY OneStep, ZenonT(60) DEF Steps
  <1>8. V \in Seq(Steps) /\ StoresFirst(V) /\ Range(V) = Stored
    BY Accepting DEF StoresFirst
  <1>9. E \in Seq(Steps) /\ StoresFirst(E) /\ Range(E) = {"sign", "receive"} \cup Stored
    BY Endorsing DEF StoresFirst
  <1>10. /\ View[t] = "redeem" => p = << >>
         /\ View[t] = "prepared" => p = TRV
         /\ View[t] = "swap" => p = TALDEB \o F
         /\ View[t] \notin {"redeem", "prepared", "swap"} => p = TRVB \o F
    BY DEF ResponderProgram, AcceptPreparedCashView, SwapResponderView, AcceptCashView,
           RespondRequestRecipientIdentityView, RespondExchangeRecipientIdentitiesView,
           receiveActionsView, collectActionsResponderView, ReceiveTransaction, FinalityView
  <1>11. View[t] = "redeem" <=> Responder[t] = NoNode
    BY ViewsAssumption
  <1>12. Program[t]["party"] = p
    BY ProgramOf
  <1> HIDE DEF p, T, R, B, F, A, L, D, V, E
  <1>13. TR \in Seq(Steps) /\ Range(TR) = Range(T) \cup Range(R)
    BY <1>1, <1>2, Concatenated
  <1> HIDE DEF TR
  <1>14. TRV \in Seq(Steps) /\ Range(TRV) = Range(TR) \cup Range(V)
    BY <1>8, <1>13, Concatenated
  <1>15. Range(TR) \cap Stored = {}
    BY <1>1, <1>2, <1>13
  <1>16. StoresFirst(TRV)
    <2> HIDE DEF Stored
    <2>1. Range(TR) \cap {"transient", "envelope", "records", "acknowledge"} = {}
      BY <1>15 DEF Stored
    <2> QED
      BY <1>8, <1>13, <2>1, Surrounded
  <1> HIDE DEF TRV
  <1>17. TRVB \in Seq(Steps) /\ Range(TRVB) = Range(TRV) \cup Range(B)
    BY <1>3, <1>14, Concatenated
  <1>18. StoresFirst(TRVB)
    <2>1. Range(B) \cap {"transient", "envelope", "records", "acknowledge"} = {}
      BY <1>3
    <2> QED
      BY <1>3, <1>14, <1>16, <2>1, Surrounded
  <1> HIDE DEF TRVB
  <1>19. /\ TRVB \o F \in Seq(Steps) /\ Range(TRVB \o F) = Range(TRVB) \cup Range(F)
    BY <1>4, <1>17, Concatenated
  <1>20. Range(F) \cap {"transient", "envelope", "records", "acknowledge"} = {}
    BY <1>4
  <1>21. StoresFirst(TRVB \o F)
    BY <1>4, <1>17, <1>18, <1>20, Surrounded
  <1>22. TA \in Seq(Steps) /\ Range(TA) = Range(T) \cup Range(A)
    BY <1>1, <1>5, Concatenated
  <1> HIDE DEF TA
  <1>23. TAL \in Seq(Steps) /\ Range(TAL) = Range(TA) \cup Range(L)
    BY <1>6, <1>22, Concatenated
  <1> HIDE DEF TAL
  <1>24. TALD \in Seq(Steps) /\ Range(TALD) = Range(TAL) \cup Range(D)
    BY <1>7, <1>23, Concatenated
  <1> HIDE DEF TALD
  <1>25. TALDE \in Seq(Steps) /\ Range(TALDE) = Range(TALD) \cup Range(E)
    BY <1>9, <1>24, Concatenated
  <1>26. StoresFirst(TALDE)
    <2>1. Range(TALD) \cap {"transient", "envelope", "records", "acknowledge"} = {}
      BY <1>1, <1>5, <1>6, <1>7, <1>22, <1>23, <1>24
    <2> QED
      BY <1>9, <1>24, <2>1, Surrounded
  <1>27. Precedes(TALDE, "select", "acknowledge")
    <2>1. "select" \in Range(TALD) \ Range(E) /\ "acknowledge" \notin Range(TALD)
      BY <1>1, <1>5, <1>6, <1>7, <1>9, <1>22, <1>23, <1>24
    <2> QED
      BY <1>9, <1>24, <2>1, InFirst
  <1> HIDE DEF TALDE
  <1>28. TALDEB \in Seq(Steps) /\ Range(TALDEB) = Range(TALDE) \cup Range(B)
    BY <1>3, <1>25, Concatenated
  <1>29. StoresFirst(TALDEB) /\ Precedes(TALDEB, "select", "acknowledge")
    <2>1. Range(B) \cap {"transient", "envelope", "records", "acknowledge"} = {} /\ "select" \notin Range(B)
      BY <1>3
    <2>2. StoresFirst(TALDEB)
      BY <1>3, <1>25, <1>26, <2>1, Surrounded
    <2>3. Precedes(TALDEB, "select", "acknowledge")
      BY <1>3, <1>25, <1>27, <2>1, Concatenated
    <2> QED
      BY <2>2, <2>3
  <1> HIDE DEF TALDEB
  <1>30. TALDEB \o F \in Seq(Steps) /\ Range(TALDEB \o F) = Range(TALDEB) \cup Range(F)
    BY <1>4, <1>28, Concatenated
  <1>31. StoresFirst(TALDEB \o F) /\ Precedes(TALDEB \o F, "select", "acknowledge")
    <2>1. "select" \notin Range(F)
      BY <1>4
    <2>2. StoresFirst(TALDEB \o F)
      BY <1>4, <1>28, <1>29, <1>20, Surrounded
    <2>3. Precedes(TALDEB \o F, "select", "acknowledge")
      BY <1>4, <1>28, <1>29, <2>1, Concatenated
    <2> QED
      BY <2>2, <2>3
  <1>32. Range(TRVB \o F) \cap (None \cup {"select"}) = {} /\ Range(TRV) \cap (None \cup {"select"}) = {}
    BY <1>1, <1>2, <1>3, <1>4, <1>8, <1>13, <1>14, <1>17, <1>19
  <1>33. Range(TALDEB \o F) \cap None = {}
    BY <1>1, <1>3, <1>4, <1>5, <1>6, <1>7, <1>9, <1>22, <1>23, <1>24, <1>25, <1>28, <1>30
  <1>38. "final" \in Range(TALDEB \o F)
    BY <1>4, <1>30
  <1>34. CASE View[t] = "redeem"
    <2>1. p = << >> /\ Range(p) = {} /\ p \in Seq(Steps)
      BY <1>10, <1>34 DEF Range
    <2> QED
      BY <1>11, <1>12, <1>34, <2>1
  <1>35. CASE View[t] = "prepared"
    <2>1. p = TRV /\ View[t] # "redeem" /\ View[t] # "swap"
      BY <1>10, <1>35
    <2>2. Responder[t] # NoNode
      BY <1>11, <2>1
    <2> QED
      BY <1>12, <1>14, <1>16, <1>32, <2>1, <2>2
  <1>36. CASE View[t] = "swap"
    <2>1. p = TALDEB \o F /\ View[t] # "redeem"
      BY <1>10, <1>36
    <2>2. Responder[t] # NoNode
      BY <1>11, <2>1
    <2> QED
      BY <1>12, <1>30, <1>31, <1>33, <1>36, <1>38, <2>1, <2>2
  <1>37. CASE View[t] \notin {"redeem", "prepared", "swap"}
    <2>1. p = TRVB \o F /\ View[t] # "redeem" /\ View[t] # "swap"
      BY <1>10, <1>37
    <2>2. Responder[t] # NoNode
      BY <1>11, <2>1
    <2> QED
      BY <1>12, <1>19, <1>21, <1>32, <2>1, <2>2
  <1> QED
    BY <1>34, <1>35, <1>36, <1>37

\* The program of the auditor.
LEMMA AuditorSteps ==
    ASSUME NEW t \in TxIds
    PROVE  LET p == Program[t]["auditor"]
           IN /\ p \in Seq(Steps)
              /\ Range(p) = {"audit", "append", "approve", "receive", "transient", "envelope", "acknowledge"}
              /\ \A a \in {"transient", "envelope", "append"} : Precedes(p, a, "acknowledge")
  <1> DEFINE a == <<"audit">>
             b == <<"append">>
             c == <<"approve">>
             d == <<"receive">>
             e == <<"transient", "envelope", "acknowledge">>
             de == d \o e
             cde == c \o de
             bcde == b \o cde
  <1>1. a \in Seq(Steps) /\ Range(a) = {"audit"}
    BY OneStep, ZenonT(60) DEF Steps
  <1>2. b \in Seq(Steps) /\ Range(b) = {"append"}
    BY OneStep, ZenonT(60) DEF Steps
  <1>3. c \in Seq(Steps) /\ Range(c) = {"approve"}
    BY OneStep, ZenonT(60) DEF Steps
  <1>4. d \in Seq(Steps) /\ Range(d) = {"receive"}
    BY OneStep, ZenonT(60) DEF Steps
  <1>5. /\ e \in Seq(Steps) /\ Range(e) = {"transient", "envelope", "acknowledge"}
        /\ Precedes(e, "transient", "acknowledge") /\ Precedes(e, "envelope", "acknowledge")
    <2>1. /\ "transient" \in Steps /\ "envelope" \in Steps \ {"transient"}
          /\ "acknowledge" \in Steps \ {"transient", "envelope"}
      BY DEF Steps
    <2> QED
      BY <2>1, ThreeSteps
  <1>6. Program[t]["auditor"] = a \o bcde
    BY ProgramOf DEF AuditView, AuditApproveView, signAndSendBack, waitEnvelope, ReceiveTransaction
  <1> HIDE DEF a, b, c, d, e
  <1>7. /\ de \in Seq(Steps) /\ Range(de) = Range(d) \cup Range(e)
        /\ Precedes(de, "transient", "acknowledge") /\ Precedes(de, "envelope", "acknowledge")
    <2>1. "acknowledge" \notin Range(d)
      BY <1>4
    <2> QED
      BY <1>4, <1>5, <2>1, Concatenated
  <1> HIDE DEF de
  <1>8. /\ cde \in Seq(Steps) /\ Range(cde) = Range(c) \cup Range(de)
        /\ Precedes(cde, "transient", "acknowledge") /\ Precedes(cde, "envelope", "acknowledge")
    <2>1. "acknowledge" \notin Range(c)
      BY <1>3
    <2> QED
      BY <1>3, <1>7, <2>1, Concatenated
  <1> HIDE DEF cde
  <1>9. /\ bcde \in Seq(Steps) /\ Range(bcde) = Range(b) \cup Range(cde)
        /\ Precedes(bcde, "transient", "acknowledge") /\ Precedes(bcde, "envelope", "acknowledge")
    <2>1. "acknowledge" \notin Range(b)
      BY <1>2
    <2> QED
      BY <1>2, <1>8, <2>1, Concatenated
  <1>10. Precedes(bcde, "append", "acknowledge")
    <2>1. "append" \in Range(bcde) /\ "append" \notin Range(cde) /\ "acknowledge" \notin Range(b)
          /\ "append" \in Range(b)
      BY <1>2, <1>3, <1>4, <1>5, <1>7, <1>8, <1>9
    <2>2. Precedes(b, "append", "acknowledge")
      BY <2>1, Before
    <2> QED
      BY <1>2, <1>8, <2>1, <2>2, Concatenated
  <1> HIDE DEF bcde
  <1>11. /\ a \o bcde \in Seq(Steps) /\ Range(a \o bcde) = Range(a) \cup Range(bcde)
    BY <1>1, <1>9, Concatenated
  <1>12. \A x \in {"transient", "envelope", "append"} : Precedes(a \o bcde, x, "acknowledge")
    <2>1. "acknowledge" \notin Range(a)
      BY <1>1
    <2> QED
      BY <1>1, <1>9, <1>10, <2>1, Concatenated
  <1>13. Range(a \o bcde) = {"audit", "append", "approve", "receive", "transient", "envelope", "acknowledge"}
    BY <1>1, <1>2, <1>3, <1>4, <1>5, <1>7, <1>8, <1>9, <1>11
  <1> QED
    BY <1>6, <1>11, <1>12, <1>13

\* The programs of the custodian.
LEMMA CustodianSteps ==
    ASSUME NEW t \in TxIds
    PROVE  /\ Program[t]["approver"] \in Seq(Steps)
           /\ Range(Program[t]["approver"]) \subseteq {"approval request", "approval"}
           /\ OnOrion(t) => Precedes(Program[t]["approver"], "approval request", "approval")
           /\ Program[t]["committer"] \in Seq(Steps)
           /\ Range(Program[t]["committer"]) \subseteq {"broadcast request", "broadcast"}
           /\ ~OnOrion(t) => Program[t]["approver"] = << >> /\ Program[t]["committer"] = << >>
           /\ OnOrion(t) => Precedes(Program[t]["committer"], "broadcast request", "broadcast")
           /\ Once(Program[t]["committer"], "broadcast")
  <1> DEFINE a == <<"approval request", "approval">>
             c == <<"broadcast request", "broadcast">>
             p == Program[t]["approver"]
             q == Program[t]["committer"]
  <1>1. /\ a \in Seq(Steps) /\ Range(a) = {"approval request", "approval"}
        /\ Precedes(a, "approval request", "approval")
    BY TwoSteps, ZenonT(60) DEF Steps
  <1>2. /\ c \in Seq(Steps) /\ Range(c) = {"broadcast request", "broadcast"}
        /\ Precedes(c, "broadcast request", "broadcast")
    BY TwoSteps, ZenonT(60) DEF Steps
  <1>6. Once(c, "broadcast") /\ Once(<< >>, "broadcast")
    <2>1. c[1] = "broadcast request" /\ c[2] = "broadcast" /\ DOMAIN c = 1 .. 2 /\ 1 .. 2 = {1, 2}
      OBVIOUS
    <2> HIDE DEF c
    <2>2. Once(c, "broadcast")
      BY <2>1 DEF Once
    <2>3. Once(<< >>, "broadcast")
      BY DEF Once
    <2> QED
      BY <2>2, <2>3
  <1>3. /\ OnOrion(t) => p = a /\ q = c
        /\ ~OnOrion(t) => p = << >> /\ q = << >>
    BY ProgramOf DEF OfCustodian, RequestApprovalResponderView, BroadcastResponderView
  <1> HIDE DEF a, c, p, q
  <1>4. CASE OnOrion(t)
    BY <1>1, <1>2, <1>3, <1>4, <1>6 DEF p, q
  <1>5. CASE ~OnOrion(t)
    <2>1. p = << >> /\ q = << >> /\ Range(p) = {} /\ Range(q) = {} /\ p \in Seq(Steps) /\ q \in Seq(Steps)
      BY <1>3, <1>5 DEF Range
    <2> QED
      BY <1>5, <1>6, <2>1 DEF p, q
  <1> QED
    BY <1>4, <1>5

\* Who broadcasts, approves, records.
LEMMA ProgramFacts ==
    ASSUME NEW t \in TxIds, NEW r \in Roles
    PROVE  /\ Program[t][r] \in Seq(Steps)
           /\ "broadcast" \in Range(Program[t][r]) => r = Caster(t) /\ Once(Program[t][r], "broadcast")
           /\ "append" \in Range(Program[t][r]) => r = "auditor"
           /\ "select" \in Range(Program[t][r]) => r \in {"initiator", "party"}
           /\ "records" \in Range(Program[t][r]) =>
                 /\ r \in {"initiator", "party"}
                 /\ Precedes(Program[t][r], "transient", "records")
                 /\ Precedes(Program[t][r], "envelope", "records")
  <1>1. r \in {"initiator", "party", "auditor", "approver", "committer"}
    BY DEF Roles, CustodianRoles
  <1>2. CASE r = "initiator"
    BY <1>2, InitiatorSteps DEF Caster
  <1>3. CASE r = "party"
    <2> DEFINE p == Program[t][r]
    <2>1. /\ p \in Seq(Steps)
          /\ Responder[t] # NoNode => StoresFirst(p)
          /\ Responder[t] = NoNode => p = << >>
          /\ Range(p) \cap {"append", "broadcast", "approval", "prepared"} = {}
      BY <1>3, PartySteps
    <2>2. Responder[t] = NoNode => "records" \notin Range(p)
      BY <2>1, NoStep
    <2> HIDE DEF p
    <2>3. "records" \in Range(p) => Precedes(p, "transient", "records") /\ Precedes(p, "envelope", "records")
      BY <2>1, <2>2 DEF StoresFirst
    <2>4. "broadcast" \notin Range(p) /\ "append" \notin Range(p)
      BY <2>1
    <2> QED
      BY <1>3, <2>1, <2>3, <2>4 DEF p
  <1>4. CASE r = "auditor"
    <2> DEFINE p == Program[t][r]
    <2>1. /\ p \in Seq(Steps)
          /\ Range(p) = {"audit", "append", "approve", "receive", "transient", "envelope", "acknowledge"}
      BY <1>4, AuditorSteps
    <2> HIDE DEF p
    <2>2. "broadcast" \notin Range(p) /\ "select" \notin Range(p) /\ "records" \notin Range(p)
      BY <2>1
    <2> QED
      BY <1>4, <2>1, <2>2 DEF p
  <1>5. CASE r = "approver"
    BY <1>5, CustodianSteps
  <1>6. CASE r = "committer"
    <2>1. /\ Program[t][r] \in Seq(Steps) /\ Range(Program[t][r]) \subseteq {"broadcast request", "broadcast"}
          /\ Once(Program[t][r], "broadcast")
          /\ ~OnOrion(t) => Range(Program[t][r]) = {}
      BY <1>6, CustodianSteps, NoStep
    <2> QED
      BY <1>6, <2>1 DEF Caster
  <1> QED
    BY <1>1, <1>2, <1>3, <1>4, <1>5, <1>6

-----------------------------------------------------------------------------
\* What is left of a program.
Suffix(s, p) ==
    /\ s \in Seq(Steps) /\ Len(s) <= Len(p)
    /\ \A i \in 1 .. Len(s) : s[i] = p[(Len(p) - Len(s)) + i]

LEMMA WholeAndNothing ==
    ASSUME NEW p \in Seq(Steps)
    PROVE  Suffix(p, p) /\ Suffix(<< >>, p)
  <1>1. Len(p) \in Nat /\ Len(<< >>) = 0 /\ << >> \in Seq(Steps)
    OBVIOUS
  <1> QED
    BY <1>1 DEF Suffix

\* Taking a step.
LEMMA TailIsSuffix ==
    ASSUME NEW p \in Seq(Steps), NEW s, Suffix(s, p), s # << >>
    PROVE  /\ Suffix(Tail(s), p)
           /\ Head(s) \in Range(p) /\ Head(s) \in Range(s)
           /\ Range(s) = Range(Tail(s)) \cup {Head(s)}
  <1> DEFINE m == Len(s)
             n == Len(p)
             u == Tail(s)
  <1>1. s \in Seq(Steps) /\ m <= n /\ \A i \in 1 .. m : s[i] = p[(n - m) + i]
    BY DEF Suffix
  <1>2. m \in Nat \ {0} /\ n \in Nat /\ DOMAIN s = 1 .. m /\ DOMAIN p = 1 .. n /\ Head(s) = s[1]
    BY <1>1
  <1>3. u \in Seq(Steps) /\ Len(u) = m - 1 /\ \A i \in 1 .. (m - 1) : u[i] = s[i + 1]
    BY <1>1, <1>2
  <1>4. DOMAIN u = 1 .. (m - 1)
    BY <1>3
  <1> HIDE DEF m, n, u
  <1>5. \A i \in 1 .. (m - 1) : i + 1 \in 1 .. m /\ (n - m) + (i + 1) = (n - (m - 1)) + i
    BY <1>2
  <1>6. m - 1 <= n
    BY <1>1, <1>2
  <1>7. \A i \in 1 .. (m - 1) : u[i] = p[(n - (m - 1)) + i]
    BY <1>1, <1>3, <1>5
  <1>8. Suffix(u, p)
    BY <1>3, <1>6, <1>7 DEF Suffix, n
  <1>9. 1 \in 1 .. m /\ (n - m) + 1 \in 1 .. n
    BY <1>1, <1>2
  <1>10. Head(s) \in Range(p)
    BY <1>1, <1>2, <1>9 DEF Range
  <1>11. Head(s) \in Range(s)
    BY <1>2, <1>9 DEF Range
  <1>12. \A i \in 1 .. m : i = 1 \/ (i - 1 \in 1 .. (m - 1) /\ (i - 1) + 1 = i)
    BY <1>2
  <1>13. Range(s) \subseteq Range(u) \cup {Head(s)}
    <2> SUFFICES ASSUME NEW i \in 1 .. m PROVE s[i] \in Range(u) \cup {Head(s)}
      BY <1>2 DEF Range
    <2>1. CASE i = 1
      BY <1>2, <2>1
    <2>2. CASE i - 1 \in 1 .. (m - 1) /\ (i - 1) + 1 = i
      <3>1. u[i - 1] = s[i]
        BY <1>3, <2>2
      <3> QED
        BY <1>4, <2>2, <3>1 DEF Range
    <2> QED
      BY <1>12, <2>1, <2>2
  <1>14. Range(u) \subseteq Range(s)
    <2> SUFFICES ASSUME NEW i \in 1 .. (m - 1) PROVE u[i] \in Range(s)
      BY <1>4 DEF Range
    <2>1. i + 1 \in 1 .. m /\ u[i] = s[i + 1]
      BY <1>3, <1>5
    <2> QED
      BY <1>2, <2>1 DEF Range
  <1> QED
    BY <1>8, <1>10, <1>11, <1>13, <1>14 DEF u

\* A step that is done, or the one that is next, has behind it what comes before it.
LEMMA DoneBefore ==
    ASSUME NEW p \in Seq(Steps), NEW s, Suffix(s, p), NEW a, NEW b \in Range(p), Precedes(p, a, b),
           b \notin Range(s) \/ (s # << >> /\ b = Head(s))
    PROVE  a \notin Range(s)
  <1> DEFINE m == Len(s)
             n == Len(p)
             d == n - m
  <1>1. s \in Seq(Steps) /\ m <= n /\ \A i \in 1 .. m : s[i] = p[d + i]
    BY DEF Suffix
  <1>2. m \in Nat /\ n \in Nat /\ DOMAIN s = 1 .. m /\ DOMAIN p = 1 .. n /\ (s # << >> => Head(s) = s[1] /\ m # 0)
    BY <1>1
  <1> HIDE DEF m, n
  <1>3. \A i \in 1 .. m : d + i \in 1 .. n
    BY <1>1, <1>2
  <1>4. PICK j \in 1 .. n : p[j] = b /\ j <= d + 1
    <2>1. CASE b \notin Range(s)
      <3>1. PICK j \in 1 .. n : p[j] = b
        BY <1>2 DEF Range
      <3>2. ~(j > d)
        <4> SUFFICES ASSUME j > d PROVE FALSE
          OBVIOUS
        <4>1. j - d \in 1 .. m /\ d + (j - d) = j
          BY <1>1, <1>2
        <4>2. s[j - d] = b
          BY <1>1, <3>1, <4>1
        <4> QED
          BY <1>2, <2>1, <4>1, <4>2 DEF Range
      <3> QED
        BY <1>1, <1>2, <3>1, <3>2
    <2>2. CASE s # << >> /\ b = Head(s)
      <3>1. 1 \in 1 .. m /\ d + 1 \in 1 .. n
        BY <1>1, <1>2, <2>2
      <3>2. p[d + 1] = b
        BY <1>1, <1>2, <2>2, <3>1
      <3> QED
        BY <1>1, <1>2, <3>1, <3>2
    <2> QED
      BY <2>1, <2>2
  <1>5. ASSUME NEW i \in 1 .. m, s[i] = a PROVE FALSE
    <2>1. p[d + i] = a /\ d + i \in 1 .. n
      BY <1>1, <1>3, <1>5
    <2>2. d + i < j
      BY <1>2, <1>4, <2>1 DEF Precedes
    <2> QED
      BY <1>1, <1>2, <1>4, <2>2
  <1> QED
    BY <1>2, <1>5 DEF Range

\* A step that occurs once is done when it is taken.
LEMMA DoneForGood ==
    ASSUME NEW p \in Seq(Steps), NEW s, Suffix(s, p), s # << >>, Once(p, Head(s))
    PROVE  Head(s) \notin Range(Tail(s))
  <1> DEFINE m == Len(s)
             n == Len(p)
             d == n - m
             u == Tail(s)
  <1>1. s \in Seq(Steps) /\ m <= n /\ \A i \in 1 .. m : s[i] = p[d + i]
    BY DEF Suffix
  <1>2. m \in Nat \ {0} /\ n \in Nat /\ DOMAIN p = 1 .. n /\ Head(s) = s[1]
    BY <1>1
  <1>3. Len(u) = m - 1 /\ DOMAIN u = 1 .. (m - 1) /\ \A i \in 1 .. (m - 1) : u[i] = s[i + 1]
    BY <1>1, <1>2
  <1> HIDE DEF m, n, u
  <1>4. \A i \in 1 .. m : d + i \in 1 .. n
    BY <1>1, <1>2
  <1>5. ASSUME NEW i \in 1 .. (m - 1), u[i] = Head(s) PROVE FALSE
    <2>1. i + 1 \in 1 .. m /\ 1 \in 1 .. m
      BY <1>2
    <2>2. p[d + (i + 1)] = Head(s) /\ p[d + 1] = Head(s)
      BY <1>1, <1>2, <1>3, <1>5, <2>1
    <2>3. d + (i + 1) = d + 1
      BY <1>2, <1>4, <2>1, <2>2 DEF Once
    <2> QED
      BY <1>1, <1>2, <2>3
  <1> QED
    BY <1>3, <1>5 DEF Range, u

\* It is the end of the program.
LEMMA SuffixIs ==
    ASSUME NEW p \in Seq(Steps), NEW s, Suffix(s, p)
    PROVE  s = SubSeq(p, (Len(p) - Len(s)) + 1, Len(p))
  <1> DEFINE m == Len(s)
             n == Len(p)
             u == SubSeq(p, (n - m) + 1, n)
  <1>1. s \in Seq(Steps) /\ m <= n /\ \A i \in 1 .. m : s[i] = p[(n - m) + i]
    BY DEF Suffix
  <1>2. m \in Nat /\ n \in Nat /\ s = [i \in 1 .. m |-> s[i]] /\ \A i \in 1 .. n : p[i] \in Steps
    BY <1>1
  <1>3. u = [i \in 1 .. ((n - ((n - m) + 1)) + 1) |-> p[(((n - m) + 1) + i) - 1]]
    BY <1>1, <1>2
  <1>4. (n - ((n - m) + 1)) + 1 = m /\ \A i \in 1 .. m : (((n - m) + 1) + i) - 1 = (n - m) + i
    BY <1>1, <1>2
  <1> QED
    BY <1>1, <1>2, <1>3, <1>4

-----------------------------------------------------------------------------
\* What everybody knows.

\* The databases of the nodes and the views keep what they are meant to keep.
DataOK ==
    /\ transient \in [Nodes -> SUBSET TxIds]
    /\ envelope \in [Nodes -> SUBSET TxIds]
    /\ records \in [DBs -> [TxIds -> {"none", "Pending", "Confirmed", "Deleted"}]]
    /\ listening \in [DBs -> SUBSET TxIds]
    /\ notices \in [DBs -> SUBSET TxIds]

LocksOK ==
    /\ locks \in [Nodes -> [Inputs -> TxIds \cup {Free}]]
    /\ collected \in [Nodes -> SUBSET Inputs]
    /\ robbed \in SUBSET TxIds

ViewsOK ==
    /\ failed \in SUBSET Views
    /\ LocksOK
    /\ failures \in 0 .. MaxFailures
    /\ crashes \in 0 .. MaxCrashes

\* A view has done a part of its program; nobody has anything to do for the
\* transactions of the start.
TodoOK ==
    /\ todo \in [TxIds -> [Roles -> Seq(Steps)]]
    /\ \A t \in TxIds, r \in Roles : Suffix(todo[t][r], Program[t][r])
    /\ \A t \in InGenesis, r \in Roles : todo[t][r] = << >>

\* What a step leaves behind: something on a disk of its node, or the message it
\* received, which was sent.
Effective(t, r, a) ==
    /\ a = "transient" => t \in transient[NodeOf(t, r)]
    /\ a = "envelope" => t \in envelope[NodeOf(t, r)]
    /\ a = "records" => records[NodeOf(t, r)][t] # "none"
    /\ a = "append" => records[AuditDB][t] # "none"
    /\ \A s, b : <<r, a, s, b>> \in Awaited => Sent(t, s, b)

EffectsOK ==
    \A t \in TxIds \ InGenesis, r \in Roles : \A a \in Range(Program[t][r]) :
        Sent(t, r, a) => Effective(t, r, a)

StartKnown ==
    \A t \in InGenesis :
        /\ \A n \in Nodes : t \in transient[n] /\ t \in envelope[n]
        /\ \A db \in DBs : records[db][t] # "none"

\* Nobody broadcasts a transaction before everything is in place, and whoever
\* broadcast one has gone on or failed.
SubmittedOK ==
    \A t \in TxIds \ InGenesis : t \in submitted \/ Ordered(t) =>
        /\ \A a \in Needed(t) : Sent(t, "initiator", a)
        /\ Sent(t, Caster(t), "broadcast") \/ <<t, Caster(t)>> \in failed

KnowInv == DataOK /\ ViewsOK /\ TodoOK /\ EffectsOK /\ StartKnown /\ SubmittedOK

\* The roles that store anything have a node.
LEMMA StoringNode ==
    ASSUME NEW t \in TxIds, NEW r \in Roles,
           NEW a \in Range(Program[t][r]) \cap {"transient", "envelope", "records", "select"}
    PROVE  NodeOf(t, r) \in Nodes
  <1>1. r \in {"initiator", "party", "auditor", "approver", "committer"}
    BY DEF Roles, CustodianRoles
  <1>2. CASE r = "initiator"
    BY <1>2, TtxAssumption DEF NodeOf, CustodianRoles
  <1>3. CASE r = "party"
    <2>1. Responder[t] = NoNode => Range(Program[t][r]) = {}
      BY <1>3, PartySteps, NoStep
    <2> QED
      BY <1>3, <2>1, TtxAssumption DEF NodeOf, CustodianRoles
  <1>4. CASE r = "auditor"
    BY <1>4, VaultAssumption DEF NodeOf, CustodianRoles
  <1>5. CASE r = "approver"
    <2>1. Range(Program[t][r]) \subseteq {"approval request", "approval"}
      BY <1>5, CustodianSteps
    <2> QED
      BY <2>1
  <1>6. CASE r = "committer"
    <2>1. Range(Program[t][r]) \subseteq {"broadcast request", "broadcast"}
      BY <1>6, CustodianSteps
    <2> QED
      BY <2>1
  <1> QED
    BY <1>1, <1>2, <1>3, <1>4, <1>5, <1>6

LEMMA GenesisIds == InGenesis \subseteq TxIds
  <1>1. \A k \in Networks : Range(Genesis[k]) \subseteq TxIds
    BY VaultAssumption DEF Range
  <1> QED
    BY <1>1 DEF InGenesis

\* A view that has not ended has a next step, which is one of its program.
LEMMA NextStep ==
    ASSUME TodoOK, NEW t \in TxIds, NEW r \in Roles, ~Ended(t, r)
    PROVE  /\ t \notin InGenesis /\ todo[t][r] # << >> /\ <<t, r>> \notin failed
           /\ Head(todo[t][r]) \in Range(Program[t][r])
           /\ ~Sent(t, r, Head(todo[t][r]))
  <1>1. todo[t][r] # << >> /\ t \notin InGenesis /\ Suffix(todo[t][r], Program[t][r]) /\ <<t, r>> \notin failed
    BY DEF TodoOK, Ended
  <1>2. Program[t][r] \in Seq(Steps)
    BY ProgramFacts
  <1>3. Head(todo[t][r]) \in Range(Program[t][r]) /\ Head(todo[t][r]) \in Range(todo[t][r])
    BY <1>1, <1>2, TailIsSuffix
  <1> QED
    BY <1>1, <1>3 DEF Sent

\* Going on.
LEMMA AdvanceEffect ==
    ASSUME TodoOK, NEW t \in TxIds, NEW r \in Roles, ~Ended(t, r), Advance(t, r)
    PROVE  /\ TodoOK'
           /\ \A u \in TxIds, s \in Roles : \A a : Sent(u, s, a) => Sent(u, s, a)'
           /\ \A u \in TxIds, s \in Roles : \A a :
                 Sent(u, s, a)' /\ ~Sent(u, s, a) => u = t /\ s = r /\ a = Head(todo[t][r])
  <1> DEFINE q == todo[t][r]
             h == Head(q)
  <1>1. q # << >> /\ Suffix(q, Program[t][r]) /\ t \notin InGenesis
    BY NextStep DEF TodoOK
  <1>2. Program[t][r] \in Seq(Steps)
    BY ProgramFacts
  <1>3. Suffix(Tail(q), Program[t][r]) /\ Range(q) = Range(Tail(q)) \cup {h}
    BY <1>1, <1>2, TailIsSuffix
  <1>4. todo' = [todo EXCEPT ![t][r] = Tail(@)] /\ todo \in [TxIds -> [Roles -> Seq(Steps)]]
    BY DEF Advance, TodoOK
  <1>5. Tail(q) \in Seq(Steps)
    BY <1>3 DEF Suffix
  <1> HIDE DEF h
  <1>6. /\ todo' \in [TxIds -> [Roles -> Seq(Steps)]]
        /\ todo'[t][r] = Tail(q)
        /\ \A u \in TxIds, s \in Roles : ~(u = t /\ s = r) => todo'[u][s] = todo[u][s]
    BY <1>4, <1>5
  <1> HIDE DEF q
  <1>7. TodoOK'
    <2>1. \A u \in TxIds, s \in Roles : Suffix(todo'[u][s], Program[u][s])
      <3> TAKE u \in TxIds, s \in Roles
      <3>1. CASE u = t /\ s = r
        BY <1>3, <1>6, <3>1
      <3>2. CASE ~(u = t /\ s = r)
        BY <1>6, <3>2 DEF TodoOK
      <3> QED
        BY <3>1, <3>2
    <2>2. \A u \in InGenesis, s \in Roles : todo'[u][s] = << >>
      BY <1>1, <1>6, GenesisIds DEF TodoOK
    <2> QED
      BY <1>6, <2>1, <2>2 DEF TodoOK
  <1>8. ASSUME NEW u \in TxIds, NEW s \in Roles, NEW a
        PROVE  /\ Sent(u, s, a) => Sent(u, s, a)'
               /\ Sent(u, s, a)' /\ ~Sent(u, s, a) => u = t /\ s = r /\ a = h
    <2>1. CASE u = t /\ s = r
      BY <1>3, <1>6, <2>1 DEF Sent, q
    <2>2. CASE ~(u = t /\ s = r)
      BY <1>6, <2>2 DEF Sent
    <2> QED
      BY <2>1, <2>2
  <1> QED
    BY <1>7, <1>8 DEF h, q

\* What is stored is kept.
Grows ==
    /\ \A n \in Nodes : transient[n] \subseteq transient'[n] /\ envelope[n] \subseteq envelope'[n]
    /\ \A db \in DBs, t \in TxIds : records[db][t] # "none" => records'[db][t] # "none"

\* A step that has had its effect keeps it.
LEMMA StaysEffective ==
    ASSUME Grows, NEW t \in TxIds, NEW r \in Roles, NEW a \in Range(Program[t][r]),
           Effective(t, r, a),
           \A s \in Roles : \A b : Sent(t, s, b) => Sent(t, s, b)'
    PROVE  Effective(t, r, a)'
  <1>1. ASSUME a \in {"transient", "envelope", "records"} PROVE NodeOf(t, r) \in Nodes
    <2>1. a \in Range(Program[t][r]) \cap {"transient", "envelope", "records", "select"}
      BY <1>1
    <2> QED
      BY <2>1, StoringNode
  <1>2. ASSUME NEW s, NEW b, <<r, a, s, b>> \in Awaited PROVE s \in Roles
    <2>1. s \in {"initiator", "party", "auditor", "approver", "committer"}
      BY <1>2 DEF Awaited
    <2> QED
      BY <2>1 DEF Roles, CustodianRoles
  <1>3. \A s, b : <<r, a, s, b>> \in Awaited => Sent(t, s, b)'
    BY <1>2 DEF Effective
  <1>4. a = "transient" => t \in transient'[NodeOf(t, r)]
    BY <1>1 DEF Effective, Grows
  <1>5. a = "envelope" => t \in envelope'[NodeOf(t, r)]
    BY <1>1 DEF Effective, Grows
  <1>6. a = "records" => records'[NodeOf(t, r)][t] # "none"
    BY <1>1 DEF Effective, Grows, DBs
  <1>7. a = "append" => records'[AuditDB][t] # "none"
    BY DEF Effective, Grows, DBs
  <1> QED
    BY <1>3, <1>4, <1>5, <1>6, <1>7 DEF Effective

\* Steps that take no view any further.
LEMMA EffectsStay ==
    ASSUME EffectsOK, StartKnown, Grows, UNCHANGED todo
    PROVE  EffectsOK' /\ StartKnown'
  <1>1. \A t \in TxIds, s \in Roles : \A b : Sent(t, s, b)' <=> Sent(t, s, b)
    BY DEF Sent
  <1>2. EffectsOK'
    <2> SUFFICES ASSUME NEW t \in TxIds \ InGenesis, NEW r \in Roles, NEW a \in Range(Program[t][r]),
                        Sent(t, r, a)'
                 PROVE  Effective(t, r, a)'
      BY DEF EffectsOK
    <2>1. Effective(t, r, a)
      BY <1>1 DEF EffectsOK
    <2> QED
      BY <1>1, <2>1, StaysEffective
  <1>3. StartKnown'
    BY GenesisIds DEF StartKnown, Grows
  <1> QED
    BY <1>2, <1>3

\* Steps of a view.
LEMMA EffectsGrow ==
    ASSUME TodoOK, EffectsOK, StartKnown, Grows,
           NEW t \in TxIds, NEW r \in Roles, ~Ended(t, r), Advance(t, r),
           NEW h, h = Head(todo[t][r]), Effective(t, r, h)'
    PROVE  EffectsOK' /\ StartKnown'
  <1>1. /\ \A u \in TxIds, s \in Roles : \A a : Sent(u, s, a) => Sent(u, s, a)'
        /\ \A u \in TxIds, s \in Roles : \A a :
                 Sent(u, s, a)' /\ ~Sent(u, s, a) => u = t /\ s = r /\ a = Head(todo[t][r])
    BY AdvanceEffect
  <1>2. EffectsOK'
    <2> SUFFICES ASSUME NEW u \in TxIds \ InGenesis, NEW s \in Roles, NEW a \in Range(Program[u][s]),
                        Sent(u, s, a)'
                 PROVE  Effective(u, s, a)'
      BY DEF EffectsOK
    <2>1. CASE Sent(u, s, a)
      <3>1. Effective(u, s, a)
        BY <2>1 DEF EffectsOK
      <3> QED
        BY <1>1, <3>1, StaysEffective
    <2>2. CASE ~Sent(u, s, a)
      <3>1. u = t /\ s = r /\ a = h
        BY <1>1, <2>2
      <3> QED
        BY <3>1
    <2> QED
      BY <2>1, <2>2
  <1>3. StartKnown'
    BY GenesisIds DEF StartKnown, Grows
  <1> QED
    BY <1>2, <1>3

\* When a transaction can be ordered, everyone is past the steps that prepare for it.
LEMMA EveryoneDone ==
    ASSUME KnowInv, NEW t \in TxIds \ InGenesis, t \in submitted \/ Ordered(t),
           NEW r \in Roles,
           NEW a \in Range(Program[t][r]) \cap {"transient", "envelope", "records", "append", "select"}
    PROVE  Sent(t, r, a)
  <1>1. \A b \in Needed(t) : Sent(t, "initiator", b)
    BY DEF KnowInv, SubmittedOK
  <1>2. \A s \in Roles : Suffix(todo[t][s], Program[t][s]) /\ Program[t][s] \in Seq(Steps)
    BY ProgramFacts DEF KnowInv, TodoOK
  <1>3. \A s \in Roles : \A b \in Range(Program[t][s]) : Sent(t, s, b) => Effective(t, s, b)
    BY DEF KnowInv, EffectsOK
  <1>4. \A b \in Needed(t) : b \in Range(Program[t]["initiator"])
    BY InitiatorSteps DEF Precedes
  <1>5. "initiator" \in Roles /\ "party" \in Roles /\ "auditor" \in Roles
    BY DEF Roles
  <1>6. r \in {"initiator", "party", "auditor", "approver", "committer"}
    BY DEF Roles, CustodianRoles
  <1>7. CASE r = "initiator"
    <2>1. a # "append" /\ (a = "select" => View[t] \notin {"issue", "prepared"})
      BY <1>7, InitiatorSteps
    <2>2. a \in Needed(t)
      BY <2>1 DEF Needed
    <2> QED
      BY <1>1, <1>7, <2>2
  <1>8. CASE r = "party"
    <2> DEFINE p == Program[t]["party"]
    <2>1. /\ Responder[t] # NoNode => StoresFirst(p)
          /\ Responder[t] = NoNode => p = << >>
          /\ View[t] = "swap" => Precedes(p, "select", "acknowledge")
          /\ "select" \in Range(p) => View[t] = "swap"
          /\ Range(p) \cap {"append", "broadcast", "approval", "prepared"} = {}
      BY PartySteps
    <2>2. Responder[t] # NoNode /\ StoresFirst(p)
      BY <1>8, <2>1, NoStep
    <2>3. "acknowledged" \in Needed(t)
      BY <2>2 DEF Needed
    <2>4. Effective(t, "initiator", "acknowledged")
      BY <1>1, <1>3, <1>4, <1>5, <2>3
    <2>5. <<"initiator", "acknowledged", "party", "acknowledge">> \in Awaited
      BY DEF Awaited
    <2>6. Sent(t, "party", "acknowledge")
      BY <2>4, <2>5 DEF Effective
    <2>7. Precedes(p, a, "acknowledge") /\ "acknowledge" \in Range(p)
      BY <1>8, <2>1, <2>2 DEF StoresFirst
    <2> QED
      BY <1>2, <1>5, <1>8, <2>6, <2>7, DoneBefore DEF Sent
  <1>9. CASE r = "auditor"
    <2> DEFINE p == Program[t]["auditor"]
    <2>1. "acknowledged by auditor" \in Needed(t)
      BY DEF Needed
    <2>2. Effective(t, "initiator", "acknowledged by auditor")
      BY <1>1, <1>3, <1>4, <1>5, <2>1
    <2>3. <<"initiator", "acknowledged by auditor", "auditor", "acknowledge">> \in Awaited
      BY DEF Awaited
    <2>4. Sent(t, "auditor", "acknowledge")
      BY <2>2, <2>3 DEF Effective
    <2>5. Range(p) = {"audit", "append", "approve", "receive", "transient", "envelope", "acknowledge"}
          /\ \A b \in {"transient", "envelope", "append"} : Precedes(p, b, "acknowledge")
      BY AuditorSteps
    <2>6. "acknowledge" \in Range(p) /\ a \in {"transient", "envelope", "append"}
      BY <1>9, <2>5
    <2>7. Precedes(p, a, "acknowledge")
      BY <2>5, <2>6
    <2> QED
      BY <1>2, <1>5, <1>9, <2>4, <2>6, <2>7, DoneBefore DEF Sent
  <1>10. CASE r = "approver"
    <2>1. Range(Program[t][r]) \subseteq {"approval request", "approval"}
      BY <1>10, CustodianSteps
    <2> QED
      BY <2>1
  <1>11. CASE r = "committer"
    <2>1. Range(Program[t][r]) \subseteq {"broadcast request", "broadcast"}
      BY <1>11, CustodianSteps
    <2> QED
      BY <2>1
  <1> QED
    BY <1>6, <1>7, <1>8, <1>9, <1>10, <1>11

\* Who broadcasts has everything in place, and does it once.
LEMMA ReadyToBroadcast ==
    ASSUME KnowInv, NEW t \in TxIds, NEW r \in Roles, At(t, r, "broadcast")
    PROVE  /\ t \notin InGenesis /\ r = Caster(t)
           /\ \A a \in Needed(t) : Sent(t, "initiator", a)
           /\ t \notin submitted /\ ~Ordered(t)
  <1>1. ~Ended(t, r) /\ Head(todo[t][r]) = "broadcast"
    BY DEF At
  <1>2. /\ t \notin InGenesis /\ todo[t][r] # << >> /\ <<t, r>> \notin failed
        /\ "broadcast" \in Range(Program[t][r]) /\ ~Sent(t, r, "broadcast")
    BY <1>1, NextStep DEF KnowInv
  <1>3. r = Caster(t)
    BY <1>2, ProgramFacts
  <1>4. \A s \in Roles : Suffix(todo[t][s], Program[t][s]) /\ Program[t][s] \in Seq(Steps)
    BY ProgramFacts DEF KnowInv, TodoOK
  <1>5. /\ \A a \in Needed(t) : Precedes(Program[t]["initiator"], a, Sending(t))
        /\ Sending(t) \in Range(Program[t]["initiator"])
    BY InitiatorSteps
  <1>6. "initiator" \in Roles /\ "committer" \in Roles
    BY DEF Roles, CustodianRoles
  <1>7. CASE ~OnOrion(t)
    <2>1. r = "initiator" /\ Sending(t) = "broadcast"
      BY <1>3, <1>7 DEF Caster, Sending
    <2>2. \A a \in Needed(t) : a \notin Range(todo[t]["initiator"])
      BY <1>1, <1>2, <1>4, <1>5, <1>6, <2>1, DoneBefore
    <2> QED
      BY <1>2, <1>3, <2>2 DEF KnowInv, SubmittedOK, Sent
  <1>8. CASE OnOrion(t)
    <2>1. r = "committer" /\ Sending(t) = "ask broadcast"
      BY <1>3, <1>8 DEF Caster, Sending
    <2>2. Precedes(Program[t][r], "broadcast request", "broadcast")
      BY <1>8, <2>1, CustodianSteps
    <2>3. "broadcast request" \notin Range(todo[t][r])
      BY <1>1, <1>2, <1>4, <2>2, DoneBefore
    <2>4. "broadcast request" \in Range(Program[t][r])
      BY <2>2 DEF Precedes
    <2>5. Effective(t, r, "broadcast request")
      BY <1>2, <2>3, <2>4 DEF KnowInv, EffectsOK, Sent
    <2>6. <<"committer", "broadcast request", "initiator", "ask broadcast">> \in Awaited
      BY DEF Awaited
    <2>7. "ask broadcast" \notin Range(todo[t]["initiator"])
      BY <2>1, <2>5, <2>6 DEF Effective, Sent
    <2>8. \A a \in Needed(t) : a \notin Range(todo[t]["initiator"])
      BY <1>4, <1>5, <1>6, <2>1, <2>7, DoneBefore
    <2> QED
      BY <1>2, <1>3, <2>8 DEF KnowInv, SubmittedOK, Sent
  <1> QED
    BY <1>7, <1>8

\* Steps that submit and order nothing new.
LEMMA SubmittedStays ==
    ASSUME SubmittedOK,
           \A t \in TxIds \ InGenesis : (t \in submitted \/ Ordered(t))' => t \in submitted \/ Ordered(t),
           \A t \in TxIds, r \in Roles : \A a : Sent(t, r, a) => Sent(t, r, a)',
           failed \subseteq failed'
    PROVE  SubmittedOK'
  <1> SUFFICES ASSUME NEW t \in TxIds \ InGenesis, t \in submitted' \/ Ordered(t)'
               PROVE  /\ \A a \in Needed(t) : Sent(t, "initiator", a)'
                      /\ Sent(t, Caster(t), "broadcast")' \/ <<t, Caster(t)>> \in failed'
    BY DEF SubmittedOK
  <1>1. "initiator" \in Roles /\ Caster(t) \in Roles
    BY DEF Caster, Roles, CustodianRoles
  <1>2. /\ \A a \in Needed(t) : Sent(t, "initiator", a)
        /\ Sent(t, Caster(t), "broadcast") \/ <<t, Caster(t)>> \in failed
    BY DEF SubmittedOK
  <1> QED
    BY <1>1, <1>2

-----------------------------------------------------------------------------
\* Steps that change the vaults a little.

\* Learning of a transaction that is not ordered yet.
LEMMA LearningKeepsVault ==
    ASSUME VaultInv, NEW t \in TxIds, ~Ordered(t),
           \A n \in Nodes : transient'[n] \subseteq transient[n] \cup {t}
                            /\ envelope'[n] \subseteq envelope[n] \cup {t},
           UNCHANGED <<networkVars, height, store>>
    PROVE  VaultInv'
  <1>1. UNCHANGED <<unspent, spent, settled, submitted, chain, height, store>>
    BY DEF networkVars
  <1>2. NetworkInv'
    BY <1>1 DEF VaultInv, NetworkInv, ChainsOK, LedgerOK, OrderedOnce, Ordered, CreatedIds, ConsumedIds
  <1>3. StoreOK'
    BY <1>1 DEF VaultInv, StoreOK, StoreOutput
  <1>4. \A id \in unspent : id[1] # t
    BY DEF VaultInv, NetworkInv, LedgerOK
  <1>5. \A n \in Nodes : \A id \in unspent : Known(n, id[1])' => Known(n, id[1])
    BY <1>4 DEF Known
  <1>6. KeepsOwn'
    BY <1>1, <1>5 DEF VaultInv, KeepsOwn, Keeps, IsMine, Opens, Processed
  <1> QED
    BY <1>2, <1>3, <1>6 DEF VaultInv

\* Broadcasting one.
LEMMA SubmittingKeepsVault ==
    ASSUME VaultInv, NEW t \in TxIds, ~Ordered(t), submitted' = submitted \cup {t},
           UNCHANGED <<ledgerVars, chain, height, transient, envelope, store>>
    PROVE  VaultInv'
  <1>1. UNCHANGED <<unspent, spent, settled, chain, height, transient, envelope, store>>
    BY DEF ledgerVars
  <1>2. NetworkInv'
    BY <1>1 DEF VaultInv, NetworkInv, ChainsOK, LedgerOK, OrderedOnce, Ordered, CreatedIds, ConsumedIds
  <1>3. StoreOK' /\ KeepsOwn'
    BY <1>1 DEF VaultInv, StoreOK, StoreOutput, KeepsOwn, Known, Keeps, IsMine, Opens, Processed
  <1> QED
    BY <1>2, <1>3 DEF VaultInv

\* Steps that wait for no message.
LEMMA NoMessage ==
    ASSUME NEW a \in {"select", "gather", "quota", "transient", "envelope", "records", "append",
                      "approval", "busy", "final", "prepared", "broadcast"}
    PROVE  \A r, s, b : <<r, a, s, b>> \notin Awaited
  BY DEF Awaited

\* Steps that have received theirs.
LEMMA Received ==
    ASSUME NEW t, NEW r, Arrived(t, r)
    PROVE  \A s, b : <<r, Head(todo[t][r]), s, b>> \in Awaited => Sent(t, s, b)
  <1> SUFFICES ASSUME NEW s, NEW b, <<r, Head(todo[t][r]), s, b>> \in Awaited, ~Sent(t, s, b)
               PROVE  FALSE
    OBVIOUS
  <1>1. <<r, Head(todo[t][r]), s, b>> \in MissingFor(t, r)
    BY DEF MissingFor
  <1> QED
    BY <1>1 DEF Arrived

\* A view goes on and leaves the vaults alone.
LEMMA QuietStep ==
    ASSUME KnowInv, VaultInv, NEW t \in TxIds, NEW r \in Roles, ~Ended(t, r), Advance(t, r),
           UNCHANGED <<vaultVars, failed, boundVars>>, LocksOK',
           Head(todo[t][r]) \notin {"transient", "envelope", "records", "append"},
           \A s, b : <<r, Head(todo[t][r]), s, b>> \in Awaited => Sent(t, s, b)
    PROVE  KnowInv' /\ VaultInv'
  <1>1. VaultInv'
    BY UnchangedKeepsVault
  <1>2. UNCHANGED <<submitted, chain, transient, envelope, records, listening, notices, failed,
                    failures, crashes>>
    BY DEF vaultVars, networkVars, recordVars, boundVars
  <1>3. /\ TodoOK'
        /\ \A u \in TxIds, s \in Roles : \A a : Sent(u, s, a) => Sent(u, s, a)'
    BY AdvanceEffect DEF KnowInv
  <1>4. DataOK' /\ ViewsOK'
    BY <1>2 DEF KnowInv, DataOK, ViewsOK
  <1> DEFINE h == Head(todo[t][r])
  <1>5. Grows
    BY <1>2 DEF Grows
  <1>6. PICK a : a = h
    OBVIOUS
  <1>7. \A s, b : <<r, a, s, b>> \in Awaited => s \in Roles
    <2> SUFFICES ASSUME NEW s, NEW b, <<r, a, s, b>> \in Awaited PROVE s \in Roles
      OBVIOUS
    <2>1. s \in {"initiator", "party", "auditor", "approver", "committer"}
      BY DEF Awaited
    <2> QED
      BY <2>1 DEF Roles, CustodianRoles
  <1>8. \A s, b : <<r, a, s, b>> \in Awaited => Sent(t, s, b)'
    BY <1>3, <1>6, <1>7
  <1>9. Effective(t, r, a)'
    BY <1>6, <1>8 DEF Effective
  <1>10. EffectsOK' /\ StartKnown'
    BY <1>5, <1>6, <1>9, EffectsGrow DEF KnowInv
  <1>11. SubmittedOK'
    BY <1>2, <1>3, SubmittedStays DEF KnowInv, Ordered
  <1> QED
    BY <1>1, <1>3, <1>4, <1>10, <1>11 DEF KnowInv

\* A view goes on and stores something about its transaction, which is not ordered yet.
LEMMA StoringStep ==
    ASSUME KnowInv, VaultInv, NEW t \in TxIds, NEW r \in Roles, ~Ended(t, r), Advance(t, r),
           UNCHANGED <<networkVars, height, store, failed, lockVars, boundVars>>,
           NEW a \in {"transient", "envelope", "records", "append"}, Head(todo[t][r]) = a,
           DataOK', Grows, Effective(t, r, a)',
           \A n \in Nodes : transient'[n] \subseteq transient[n] \cup {t}
                            /\ envelope'[n] \subseteq envelope[n] \cup {t}
    PROVE  KnowInv' /\ VaultInv' /\ ~Ordered(t)
  <1>1. t \in TxIds \ InGenesis /\ a \in Range(Program[t][r]) /\ ~Sent(t, r, a)
    BY NextStep DEF KnowInv
  <1>2. ~Ordered(t)
    <2>1. a \in Range(Program[t][r]) \cap {"transient", "envelope", "records", "append", "select"}
      BY <1>1
    <2> QED
      BY <1>1, <2>1, EveryoneDone
  <1>3. VaultInv'
    BY <1>2, LearningKeepsVault
  <1>4. /\ TodoOK'
        /\ \A u \in TxIds, s \in Roles : \A b : Sent(u, s, b) => Sent(u, s, b)'
    BY AdvanceEffect DEF KnowInv
  <1>5. ViewsOK'
    BY DEF KnowInv, ViewsOK, LocksOK, lockVars, boundVars
  <1>6. EffectsOK' /\ StartKnown'
    BY EffectsGrow DEF KnowInv
  <1>7. UNCHANGED <<submitted, chain, failed>>
    BY DEF networkVars
  <1>8. SubmittedOK'
    BY <1>4, <1>7, SubmittedStays DEF KnowInv, Ordered
  <1> QED
    BY <1>2, <1>3, <1>4, <1>5, <1>6, <1>8 DEF KnowInv

\* Steps that take no view any further and submit nothing.
LEMMA StandStill ==
    ASSUME KnowInv, UNCHANGED todo, DataOK', ViewsOK', Grows, failed \subseteq failed',
           \A t \in TxIds \ InGenesis : (t \in submitted \/ Ordered(t))' => t \in submitted \/ Ordered(t)
    PROVE  KnowInv'
  <1>1. TodoOK'
    BY DEF KnowInv, TodoOK
  <1>2. EffectsOK' /\ StartKnown'
    BY EffectsStay DEF KnowInv
  <1>3. \A t \in TxIds, r \in Roles : \A a : Sent(t, r, a) => Sent(t, r, a)'
    BY DEF Sent
  <1>4. SubmittedOK'
    BY <1>3, SubmittedStays DEF KnowInv
  <1> QED
    BY <1>1, <1>2, <1>4 DEF KnowInv

\* A view that fails.
LEMMA Failing ==
    ASSUME ViewsOK, NEW t \in TxIds, NEW r \in Roles, Fail(t, r)
    PROVE  /\ failed' \in SUBSET Views /\ failed \subseteq failed'
           /\ LocksOK' /\ UNCHANGED todo
           /\ <<t, r>> \in failed'
  BY DEF ViewsOK, LocksOK, Fail, Release, Views

-----------------------------------------------------------------------------
\* The steps of the views, one by one.
LEMMA QuietSteps ==
    ASSUME KnowInv, VaultInv, NEW t \in TxIds, NEW r \in Roles, ~Ended(t, r),
           \/ Select(t, r) \/ Gather(t, r) \/ CheckQuota(t, r) \/ Exchange(t, r) \/ Audit(t, r)
           \/ requestApproval(t, r) \/ CheckBusy(t, r) \/ Finality(t, r) \/ Resume(t, r)
    PROVE  KnowInv' /\ VaultInv'
  <1> DEFINE h == Head(todo[t][r])
  <1>1. LocksOK /\ (UNCHANGED lockVars => LocksOK')
    BY DEF KnowInv, ViewsOK, LocksOK, lockVars
  <1>2. CASE Select(t, r)
    <2>1. h = "select" /\ Advance(t, r) /\ UNCHANGED <<vaultVars, failed, boundVars>>
      BY <1>2 DEF Select, At
    <2>2. LocksOK'
      <3>1. /\ locks' = [locks EXCEPT ![NodeOf(t, r)] =
                           [id \in Inputs |-> IF id \in InputsAt(t, NodeOf(t, r)) THEN t ELSE @[id]]]
            /\ UNCHANGED <<collected, robbed>>
        BY <1>2 DEF Select
      <3> QED
        BY <1>1, <3>1 DEF LocksOK
    <2>3. \A s, b : <<r, h, s, b>> \notin Awaited
      BY <2>1, NoMessage
    <2> QED
      BY <2>1, <2>2, <2>3, QuietStep
  <1>3. CASE Exchange(t, r)
    <2>1. h \in Exchanges /\ Advance(t, r) /\ UNCHANGED <<vaultVars, failed, lockVars, boundVars>>
      BY <1>3 DEF Exchange
    <2>2. \A s, b : <<r, h, s, b>> \in Awaited => Sent(t, s, b)
      BY <1>3, Received DEF Exchange
    <2>3. h \notin {"transient", "envelope", "records", "append"}
      BY <2>1 DEF Exchanges
    <2> QED
      BY <1>1, <2>1, <2>2, <2>3, QuietStep
  <1>4. CASE Audit(t, r)
    <2>1. h = "audit" /\ Advance(t, r) /\ UNCHANGED <<vaultVars, failed, lockVars, boundVars>>
      BY <1>4 DEF Audit, At
    <2>2. \A s, b : <<r, h, s, b>> \in Awaited => Sent(t, s, b)
      BY <1>4, Received DEF Audit
    <2>3. h \notin {"transient", "envelope", "records", "append"}
      BY <2>1
    <2> QED
      BY <1>1, <2>1, <2>2, <2>3, QuietStep
  <1>5. CASE \/ Gather(t, r) \/ CheckQuota(t, r) \/ requestApproval(t, r) \/ CheckBusy(t, r)
             \/ Finality(t, r) \/ Resume(t, r)
    <2>1. /\ h \in {"gather", "quota", "approval", "busy", "final", "prepared"}
          /\ Advance(t, r) /\ UNCHANGED <<vaultVars, failed, lockVars, boundVars>>
      BY <1>5 DEF Gather, CheckQuota, requestApproval, CheckBusy, Finality, Resume, At
    <2>2. \A s, b : <<r, h, s, b>> \notin Awaited
      BY <2>1, NoMessage
    <2>3. h \notin {"transient", "envelope", "records", "append"}
      BY <2>1
    <2> QED
      BY <1>1, <2>1, <2>2, <2>3, QuietStep
  <1> QED
    BY <1>2, <1>3, <1>4, <1>5

LEMMA StoringSteps ==
    ASSUME KnowInv, VaultInv, NEW t \in TxIds, NEW r \in Roles, ~Ended(t, r),
           \/ storeTransient(t, r) \/ StoreEnvelope(t, r)
           \/ StoreTransactionRecords(t, r) \/ AppendAuditRecords(t, r)
    PROVE  KnowInv' /\ VaultInv' /\ ~Ordered(t)
  <1> DEFINE n == NodeOf(t, r)
  <1>1. DataOK /\ Head(todo[t][r]) \in Range(Program[t][r])
    BY NextStep DEF KnowInv
  <1>2. ASSUME Head(todo[t][r]) \in {"transient", "envelope", "records"}
        PROVE  n \in Nodes
    <2> DEFINE h == Head(todo[t][r])
    <2>1. h \in Range(Program[t][r]) \cap {"transient", "envelope", "records", "select"}
      BY <1>1, <1>2
    <2> HIDE DEF h
    <2> QED
      BY <2>1, StoringNode
  <1>3. CASE storeTransient(t, r)
    <2>1. /\ Head(todo[t][r]) = "transient" /\ transient' = [transient EXCEPT ![n] = @ \cup {t}]
          /\ Advance(t, r)
          /\ UNCHANGED <<networkVars, height, envelope, store, recordVars, failed, lockVars, boundVars>>
      BY <1>3 DEF storeTransient, At
    <2>2. n \in Nodes
      BY <1>2, <2>1
    <2>3. DataOK'
      BY <1>1, <2>1 DEF DataOK, recordVars
    <2>4. Grows
      BY <1>1, <2>1 DEF Grows, DataOK, recordVars
    <2>5. Effective(t, r, "transient")'
      BY <1>1, <2>1, <2>2, NoMessage DEF Effective, DataOK
    <2>6. \A m \in Nodes : transient'[m] \subseteq transient[m] \cup {t}
                           /\ envelope'[m] \subseteq envelope[m] \cup {t}
      BY <1>1, <2>1 DEF DataOK
    <2> QED
      BY <2>1, <2>3, <2>4, <2>5, <2>6, StoringStep
  <1>4. CASE StoreEnvelope(t, r)
    <2>1. /\ Head(todo[t][r]) = "envelope" /\ envelope' = [envelope EXCEPT ![n] = @ \cup {t}]
          /\ Advance(t, r)
          /\ UNCHANGED <<networkVars, height, transient, store, recordVars, failed, lockVars, boundVars>>
      BY <1>4 DEF StoreEnvelope, At
    <2>2. n \in Nodes
      BY <1>2, <2>1
    <2>3. DataOK'
      BY <1>1, <2>1 DEF DataOK, recordVars
    <2>4. Grows
      BY <1>1, <2>1 DEF Grows, DataOK, recordVars
    <2>5. Effective(t, r, "envelope")'
      BY <1>1, <2>1, <2>2, NoMessage DEF Effective, DataOK
    <2>6. \A m \in Nodes : transient'[m] \subseteq transient[m] \cup {t}
                           /\ envelope'[m] \subseteq envelope[m] \cup {t}
      BY <1>1, <2>1 DEF DataOK
    <2> QED
      BY <2>1, <2>3, <2>4, <2>5, <2>6, StoringStep
  <1>5. CASE StoreTransactionRecords(t, r)
    <2>1. /\ Head(todo[t][r]) = "records" /\ AppendRecords(n, t)
          /\ Advance(t, r)
          /\ UNCHANGED <<networkVars, height, transient, envelope, store, failed, lockVars, boundVars>>
      BY <1>5 DEF StoreTransactionRecords, At
    <2>2. n \in DBs
      BY <1>2, <2>1 DEF DBs
    <2>3. DataOK'
      BY <1>1, <2>1, <2>2 DEF DataOK, AppendRecords
    <2>4. Grows
      BY <1>1, <2>1, <2>2 DEF Grows, DataOK, AppendRecords
    <2>5. Effective(t, r, "records")'
      BY <1>1, <2>1, <2>2, NoMessage DEF Effective, DataOK, AppendRecords
    <2>6. \A m \in Nodes : transient'[m] \subseteq transient[m] \cup {t}
                           /\ envelope'[m] \subseteq envelope[m] \cup {t}
      BY <2>1
    <2> QED
      BY <2>1, <2>3, <2>4, <2>5, <2>6, StoringStep
  <1>6. CASE AppendAuditRecords(t, r)
    <2>1. /\ Head(todo[t][r]) = "append" /\ AppendRecords(AuditDB, t)
          /\ Advance(t, r)
          /\ UNCHANGED <<networkVars, height, transient, envelope, store, failed, lockVars, boundVars>>
      BY <1>6 DEF AppendAuditRecords, At
    <2>2. AuditDB \in DBs
      BY DEF DBs
    <2>3. DataOK'
      BY <1>1, <2>1, <2>2 DEF DataOK, AppendRecords
    <2>4. Grows
      BY <1>1, <2>1, <2>2 DEF Grows, DataOK, AppendRecords
    <2>5. Effective(t, r, "append")'
      BY <1>1, <2>1, <2>2, NoMessage DEF Effective, DataOK, AppendRecords
    <2>6. \A m \in Nodes : transient'[m] \subseteq transient[m] \cup {t}
                           /\ envelope'[m] \subseteq envelope[m] \cup {t}
      BY <2>1
    <2> QED
      BY <2>1, <2>3, <2>4, <2>5, <2>6, StoringStep
  <1> QED
    BY <1>3, <1>4, <1>5, <1>6

LEMMA BroadcastStep ==
    ASSUME KnowInv, VaultInv, NEW t \in TxIds, NEW r \in Roles, ~Ended(t, r), Broadcast(t, r)
    PROVE  KnowInv' /\ VaultInv'
  <1>1. /\ At(t, r, "broadcast") /\ submitted' = submitted \cup {t}
        /\ UNCHANGED <<ledgerVars, chain, height, transient, envelope, store, recordVars, crashes>>
        /\ \/ Advance(t, r) /\ UNCHANGED <<failed, lockVars, failures>>
           \/ failures < MaxFailures /\ Fail(t, r) /\ failures' = failures + 1
    BY DEF Broadcast
  <1>2. /\ t \notin InGenesis /\ r = Caster(t)
        /\ \A a \in Needed(t) : Sent(t, "initiator", a)
        /\ t \notin submitted /\ ~Ordered(t)
    BY <1>1, ReadyToBroadcast
  <1>3. VaultInv'
    BY <1>1, <1>2, SubmittingKeepsVault
  <1>4. DataOK' /\ Grows
    BY <1>1 DEF KnowInv, DataOK, recordVars, Grows
  <1>5. \A u \in TxIds : (u \in submitted \/ Ordered(u))' => u = t \/ u \in submitted \/ Ordered(u)
    BY <1>1 DEF Ordered
  <1>6. "initiator" \in Roles /\ \A u : Caster(u) \in Roles
    BY DEF Caster, Roles, CustodianRoles
  <1>7. ASSUME \A u \in TxIds, s \in Roles : \A a : Sent(u, s, a) => Sent(u, s, a)',
               failed \subseteq failed', Sent(t, r, "broadcast")' \/ <<t, r>> \in failed'
        PROVE  SubmittedOK'
    <2> SUFFICES ASSUME NEW u \in TxIds \ InGenesis, u \in submitted' \/ Ordered(u)'
                 PROVE  /\ \A a \in Needed(u) : Sent(u, "initiator", a)'
                        /\ Sent(u, Caster(u), "broadcast")' \/ <<u, Caster(u)>> \in failed'
      BY DEF SubmittedOK
    <2>1. CASE u = t
      BY <1>2, <1>6, <1>7, <2>1
    <2>2. CASE u # t
      <3>1. u \in submitted \/ Ordered(u)
        BY <1>5, <2>2
      <3> QED
        BY <1>6, <1>7, <3>1 DEF KnowInv, SubmittedOK
    <2> QED
      BY <2>1, <2>2
  <1>8. CASE Advance(t, r) /\ UNCHANGED <<failed, lockVars, failures>>
    <2>1. /\ TodoOK'
          /\ \A u \in TxIds, s \in Roles : \A a : Sent(u, s, a) => Sent(u, s, a)'
      BY <1>8, AdvanceEffect DEF KnowInv
    <2>2. ViewsOK'
      BY <1>1, <1>8 DEF KnowInv, ViewsOK, LocksOK, lockVars
    <2>3. Effective(t, r, "broadcast")'
      BY NoMessage DEF Effective
    <2>4. EffectsOK' /\ StartKnown'
      BY <1>1, <1>4, <1>8, <2>3, EffectsGrow DEF KnowInv, At
    <2>5. Sent(t, r, "broadcast")'
      <3>1. /\ ~Ended(t, r) /\ Head(todo[t][r]) = "broadcast" /\ todo[t][r] # << >>
            /\ "broadcast" \in Range(Program[t][r])
        BY <1>1, NextStep DEF KnowInv, At
      <3>2. Program[t][r] \in Seq(Steps) /\ Once(Program[t][r], "broadcast") /\ Suffix(todo[t][r], Program[t][r])
        BY <3>1, ProgramFacts DEF KnowInv, TodoOK
      <3>3. "broadcast" \notin Range(Tail(todo[t][r]))
        BY <3>1, <3>2, DoneForGood
      <3>4. todo'[t][r] = Tail(todo[t][r])
        <4>1. todo' = [todo EXCEPT ![t][r] = Tail(@)] /\ todo \in [TxIds -> [Roles -> Seq(Steps)]]
          BY <1>8 DEF Advance, KnowInv, TodoOK
        <4> QED
          BY <4>1
      <3> QED
        BY <3>3, <3>4 DEF Sent
    <2> QED
      BY <1>3, <1>4, <1>7, <1>8, <2>1, <2>2, <2>4, <2>5 DEF KnowInv
  <1>9. CASE failures < MaxFailures /\ Fail(t, r) /\ failures' = failures + 1
    <2>1. /\ failed' \in SUBSET Views /\ failed \subseteq failed'
          /\ LocksOK' /\ UNCHANGED todo /\ <<t, r>> \in failed'
      BY <1>9, Failing DEF KnowInv
    <2>2. failures' \in 0 .. MaxFailures /\ crashes' \in 0 .. MaxCrashes
      BY <1>1, <1>9, TtxAssumption DEF KnowInv, ViewsOK
    <2>3. ViewsOK'
      BY <2>1, <2>2 DEF ViewsOK
    <2>4. TodoOK'
      BY <2>1 DEF KnowInv, TodoOK
    <2>5. EffectsOK' /\ StartKnown'
      BY <1>4, <2>1, EffectsStay DEF KnowInv
    <2>6. \A u \in TxIds, s \in Roles : \A a : Sent(u, s, a) => Sent(u, s, a)'
      BY <2>1 DEF Sent
    <2> QED
      BY <1>3, <1>4, <1>7, <2>1, <2>3, <2>4, <2>5, <2>6 DEF KnowInv
  <1> QED
    BY <1>1, <1>8, <1>9

\* The start.
LEMMA InitKnow == ASSUME Init PROVE KnowInv /\ VaultInv
  <1>1. VaultInit /\ failed = {} /\ failures = 0 /\ crashes = 0
        /\ locks = [n \in Nodes |-> [id \in Inputs |-> Free]]
        /\ collected = [n \in Nodes |-> {}] /\ robbed = {}
        /\ todo = [t \in TxIds |-> IF t \in InGenesis THEN [r \in Roles |-> << >>] ELSE Program[t]]
    BY DEF Init, TtxInit
  <1>2. VaultInv
    BY <1>1, InitVault
  <1>3. /\ submitted = {} /\ chain = Genesis
        /\ transient = [n \in Nodes |-> InGenesis] /\ envelope = [n \in Nodes |-> InGenesis]
        /\ records = [db \in DBs |-> [t \in TxIds |-> IF t \in InGenesis THEN "Confirmed" ELSE "none"]]
        /\ listening = [db \in DBs |-> {}] /\ notices = [db \in DBs |-> {}]
    BY <1>1 DEF VaultInit
  <1>4. DataOK
    BY <1>3, GenesisIds DEF DataOK
  <1>5. ViewsOK
    BY <1>1, TtxAssumption DEF ViewsOK, LocksOK
  <1>6. \A t \in TxIds : Program[t] \in [Roles -> Seq(Steps)]
    <2> TAKE t \in TxIds
    <2> DEFINE Is(r) == CASE r = "initiator" -> InitiatorProgram(t)
                          [] r = "party"     -> ResponderProgram(t)
                          [] r = "auditor"   -> AuditView
                          [] r = "approver"  -> OfCustodian(t, RequestApprovalResponderView)
                          [] r = "committer" -> OfCustodian(t, BroadcastResponderView)
    <2>1. Program[t] = [r \in Roles |-> Is(r)]
      BY ViewsAssumption DEF Programs
    <2> HIDE DEF Is
    <2>2. Program[t] = [r \in Roles |-> Program[t][r]]
      BY <2>1
    <2> QED
      BY <2>2, ProgramFacts
  <1>7. TodoOK
    <2>1. << >> \in Seq(Steps)
      OBVIOUS
    <2>2. todo \in [TxIds -> [Roles -> Seq(Steps)]]
      BY <1>1, <1>6, <2>1
    <2>3. ASSUME NEW t \in TxIds, NEW r \in Roles
          PROVE  Suffix(todo[t][r], Program[t][r]) /\ (t \in InGenesis => todo[t][r] = << >>)
      <3>1. Program[t][r] \in Seq(Steps)
        BY ProgramFacts
      <3>2. todo[t][r] = IF t \in InGenesis THEN << >> ELSE Program[t][r]
        BY <1>1
      <3> QED
        BY <3>1, <3>2, WholeAndNothing
    <2> QED
      BY <2>2, <2>3, GenesisIds DEF TodoOK
  <1>8. EffectsOK
    <2>1. \A t \in TxIds \ InGenesis : todo[t] = Program[t]
      BY <1>1
    <2> QED
      BY <2>1 DEF EffectsOK, Sent
  <1>9. StartKnown
    BY <1>3, GenesisIds DEF StartKnown
  <1>10. SubmittedOK
    <2>1. \A t \in TxIds : ~(t \in submitted) /\ (Ordered(t) => t \in InGenesis)
      BY <1>3, VaultAssumption DEF Ordered, InGenesis
    <2> QED
      BY <2>1 DEF SubmittedOK
  <1> QED
    BY <1>2, <1>4, <1>5, <1>7, <1>8, <1>9, <1>10 DEF KnowInv

\* The network, the nodes and their listeners.
LEMMA NetworkSteps ==
    ASSUME KnowInv, VaultInv, UNCHANGED <<viewVars, boundVars>>,
           \/ \E t \in TxIds : Order(t)
           \/ \E n \in Nodes, k \in Networks : Process(n, k)
           \/ \E db \in DBs, t \in TxIds : OnStatusChange(db, t)
    PROVE  KnowInv' /\ VaultInv'
  <1>1. UNCHANGED <<todo, failed, locks, collected, robbed, failures, crashes>>
    BY DEF viewVars, lockVars, boundVars
  <1>2. ViewsOK'
    BY <1>1 DEF KnowInv, ViewsOK, LocksOK
  <1>3. DataOK
    BY DEF KnowInv
  <1>4. CASE \E t \in TxIds : Order(t)
    <2>1. PICK t \in TxIds : Order(t)
      BY <1>4
    <2>2. /\ VaultInv' /\ t \in submitted /\ submitted' = submitted \ {t}
          /\ UNCHANGED <<transient, envelope, records, listening, notices>>
      BY <2>1, OrderKeepsVault DEF Order, recordVars
    <2>3. \A u \in TxIds : Ordered(u)' <=> Ordered(u) \/ u = t
      BY <2>1, OrderEffect DEF VaultInv
    <2>4. \A u \in TxIds \ InGenesis : (u \in submitted \/ Ordered(u))' => u \in submitted \/ Ordered(u)
      BY <2>2, <2>3
    <2>5. DataOK' /\ Grows
      BY <1>3, <2>2 DEF DataOK, Grows
    <2> QED
      BY <1>1, <1>2, <2>2, <2>4, <2>5, StandStill
  <1>5. CASE \E n \in Nodes, k \in Networks : Process(n, k)
    <2>1. PICK n \in Nodes : \E k \in Networks : Process(n, k)
      BY <1>5
    <2>2. PICK k \in Networks : Process(n, k)
      BY <2>1
    <2>3. PICK t : t = chain[k][height[n][k] + 1]
      OBVIOUS
    <2>4. /\ notices' = [db \in DBs |-> IF NodeOfDB(db) = n /\ t \in listening[db]
                                        THEN notices[db] \cup {t} ELSE notices[db]]
          /\ UNCHANGED <<submitted, chain, transient, envelope, records, listening>>
      BY <2>2, <2>3 DEF Process, networkVars
    <2>5. VaultInv'
      BY <2>2, ProcessKeepsVault
    <2>6. \A u \in TxIds \ InGenesis : (u \in submitted \/ Ordered(u))' => u \in submitted \/ Ordered(u)
      BY <2>4 DEF Ordered
    <2>7. DataOK' /\ Grows
      BY <1>3, <2>4 DEF DataOK, Grows
    <2> QED
      BY <1>1, <1>2, <2>5, <2>6, <2>7, StandStill
  <1>6. CASE \E db \in DBs, t \in TxIds : OnStatusChange(db, t)
    <2>1. PICK db \in DBs : \E t \in TxIds : OnStatusChange(db, t)
      BY <1>6
    <2>2. PICK t \in TxIds : OnStatusChange(db, t)
      BY <2>1
    <2>3. /\ records' = [records EXCEPT ![db][t] = IF @ = "none" THEN @ ELSE Outcome(t)]
          /\ notices' = [notices EXCEPT ![db] = @ \ {t}]
          /\ listening' = [listening EXCEPT ![db] = @ \ {t}]
          /\ UNCHANGED <<networkVars, height, transient, envelope, store>>
      BY <2>2 DEF OnStatusChange
    <2>4. Outcome(t) \in {"Confirmed", "Deleted"}
      BY DEF Outcome
    <2> HIDE DEF Outcome
    <2>5. UNCHANGED <<submitted, chain, transient, envelope>>
      BY <2>3 DEF networkVars
    <2>6. records' \in [DBs -> [TxIds -> {"none", "Pending", "Confirmed", "Deleted"}]]
      BY <1>3, <2>3, <2>4 DEF DataOK
    <2>7. DataOK'
      BY <1>3, <2>3, <2>5, <2>6 DEF DataOK
    <2>8. Grows
      BY <1>3, <2>3, <2>4, <2>5 DEF Grows, DataOK
    <2>9. \A u \in TxIds \ InGenesis : (u \in submitted \/ Ordered(u))' => u \in submitted \/ Ordered(u)
      BY <2>5 DEF Ordered
    <2>10. VaultInv'
      <3>1. UNCHANGED <<unspent, spent, settled, submitted, chain, height, transient, envelope, store>>
        BY <2>3 DEF networkVars
      <3>2. NetworkInv'
        BY <3>1 DEF VaultInv, NetworkInv, ChainsOK, LedgerOK, OrderedOnce, Ordered, CreatedIds, ConsumedIds
      <3>3. StoreOK' /\ KeepsOwn'
        BY <3>1 DEF VaultInv, StoreOK, StoreOutput, KeepsOwn, Known, Keeps, IsMine, Opens, Processed
      <3> QED
        BY <3>2, <3>3 DEF VaultInv
    <2> QED
      BY <1>1, <1>2, <2>7, <2>8, <2>9, <2>10, StandStill
  <1> QED
    BY <1>4, <1>5, <1>6

\* A node restarts.
LEMMA RestartStep ==
    ASSUME KnowInv, VaultInv, NEW n \in Nodes \cup {TheCustodian}, Restart(n)
    PROVE  KnowInv' /\ VaultInv'
  <1>1. /\ crashes < MaxCrashes /\ crashes' = crashes + 1
        /\ \E S : failed' = failed \cup {v \in Views : v \in S}
        /\ locks' = [m \in Nodes |-> IF m = n THEN [id \in Inputs |-> Free] ELSE locks[m]]
        /\ collected' = [m \in Nodes |-> IF m = n THEN {} ELSE collected[m]]
        /\ Restore(n)
        /\ UNCHANGED <<networkVars, height, transient, envelope, store, todo, robbed, failures>>
    <2> DEFINE S == {v \in Views : NodeOf(v[1], v[2]) = n /\ Running(v[1], v[2]) /\ ~At(v[1], v[2], "prepared")}
    <2>1. failed' = failed \cup {v \in Views : v \in S}
      BY DEF Restart
    <2> QED
      BY <2>1 DEF Restart
  <1>2. ViewsOK'
    <2>1. crashes' \in 0 .. MaxCrashes
      BY <1>1, TtxAssumption DEF KnowInv, ViewsOK
    <2>2. LocksOK'
      BY <1>1 DEF KnowInv, ViewsOK, LocksOK
    <2> QED
      BY <1>1, <2>1, <2>2 DEF KnowInv, ViewsOK
  <1>3. UNCHANGED <<unspent, spent, settled, submitted, chain, height, transient, envelope, store>>
    BY <1>1 DEF networkVars
  <1>4. DataOK /\ \A t : Outcome(t) \in {"Confirmed", "Deleted"}
    BY DEF KnowInv, Outcome
  <1>5. PICK P : records' = [db \in DBs |-> [t \in TxIds |->
                                IF <<db, t>> \in P THEN Outcome(t) ELSE records[db][t]]]
    <2> DEFINE P == {x \in DBs \X TxIds : NodeOfDB(x[1]) = n /\ records[x[1]][x[2]] = "Pending" /\ IsFinal(n, x[2])}
    <2>1. records' = [db \in DBs |-> [t \in TxIds |->
              IF NodeOfDB(db) = n /\ t \in {u \in TxIds : records[db][u] = "Pending"} /\ IsFinal(n, t)
              THEN Outcome(t) ELSE records[db][t]]]
      BY <1>1 DEF Restore
    <2>2. \A db \in DBs, t \in TxIds : <<db, t>> \in P <=>
             NodeOfDB(db) = n /\ t \in {u \in TxIds : records[db][u] = "Pending"} /\ IsFinal(n, t)
      OBVIOUS
    <2> HIDE DEF P
    <2>3. records' = [db \in DBs |-> [t \in TxIds |->
                                IF <<db, t>> \in P THEN Outcome(t) ELSE records[db][t]]]
      BY <2>1, <2>2
    <2> QED
      BY <2>3
  <1>6. DataOK' /\ Grows
    <2>1. records' \in [DBs -> [TxIds -> {"none", "Pending", "Confirmed", "Deleted"}]]
      BY <1>4, <1>5 DEF DataOK
    <2>2. listening' \in [DBs -> SUBSET TxIds] /\ notices' \in [DBs -> SUBSET TxIds]
      BY <1>1, <1>4 DEF DataOK, Restore
    <2>3. \A db \in DBs, t \in TxIds : records[db][t] # "none" => records'[db][t] # "none"
      BY <1>4, <1>5
    <2> QED
      BY <1>3, <1>4, <2>1, <2>2, <2>3 DEF DataOK, Grows
  <1>7. VaultInv'
    <2>1. NetworkInv'
      BY <1>3 DEF VaultInv, NetworkInv, ChainsOK, LedgerOK, OrderedOnce, Ordered, CreatedIds, ConsumedIds
    <2>2. StoreOK' /\ KeepsOwn'
      BY <1>3 DEF VaultInv, StoreOK, StoreOutput, KeepsOwn, Known, Keeps, IsMine, Opens, Processed
    <2> QED
      BY <2>1, <2>2 DEF VaultInv
  <1>8. \A u \in TxIds \ InGenesis : (u \in submitted \/ Ordered(u))' => u \in submitted \/ Ordered(u)
    BY <1>3 DEF Ordered
  <1> QED
    BY <1>1, <1>2, <1>6, <1>7, <1>8, StandStill

\* The collector of the locks.
LEMMA CollectorStep ==
    ASSUME KnowInv, VaultInv, NEW n \in Nodes, ScanLists(n) \/ ScanFrees(n)
    PROVE  KnowInv' /\ VaultInv'
  <1>1. UNCHANGED <<vaultVars, todo, failed, boundVars>>
    BY DEF ScanLists, ScanFrees
  <1>2. LocksOK
    BY DEF KnowInv, ViewsOK
  <1>3. LocksOK'
    <2>1. CASE ScanLists(n)
      <3>1. PICK ids \in SUBSET Inputs : collected' = [collected EXCEPT ![n] = ids]
        BY <2>1 DEF ScanLists
      <3>2. UNCHANGED <<locks, robbed>>
        BY <2>1 DEF ScanLists
      <3> QED
        BY <1>2, <3>1, <3>2 DEF LocksOK
    <2>2. CASE ScanFrees(n)
      <3>1. /\ locks' = [locks EXCEPT ![n] =
                           [id \in Inputs |-> IF id \in collected[n] THEN Free ELSE @[id]]]
            /\ collected' = [collected EXCEPT ![n] = {}]
            /\ robbed' \subseteq robbed \cup TxIds
        BY <2>2 DEF ScanFrees
      <3> QED
        BY <1>2, <3>1 DEF LocksOK
    <2> QED
      BY <2>1, <2>2
  <1>4. ViewsOK'
    BY <1>1, <1>3 DEF KnowInv, ViewsOK, boundVars
  <1>5. UNCHANGED <<submitted, chain, transient, envelope, records, listening, notices>>
    BY <1>1 DEF vaultVars, networkVars, recordVars
  <1>6. DataOK' /\ Grows
    BY <1>5 DEF KnowInv, DataOK, Grows
  <1>7. \A u \in TxIds \ InGenesis : (u \in submitted \/ Ordered(u))' => u \in submitted \/ Ordered(u)
    BY <1>5 DEF Ordered
  <1> QED
    BY <1>1, <1>4, <1>6, <1>7, StandStill, UnchangedKeepsVault

\* The invariant of the views.
LEMMA KnowStep == ASSUME KnowInv, VaultInv, [Next]_ttxVars PROVE KnowInv' /\ VaultInv'
  <1>1. ASSUME NEW t \in TxIds, NEW r \in {s \in Roles : ~Ended(t, s)}, Act(t, r)
        PROVE  KnowInv' /\ VaultInv'
    BY <1>1, QuietSteps, StoringSteps, BroadcastStep DEF Act
  <1>2. ASSUME NEW t \in TxIds, NEW r \in Roles, GiveUp(t, r) \/ Timeout(t, r)
        PROVE  KnowInv' /\ VaultInv'
    <2>1. /\ Fail(t, r) /\ UNCHANGED <<vaultVars, crashes>>
          /\ failures' = failures \/ (failures < MaxFailures /\ failures' = failures + 1)
      BY <1>2 DEF GiveUp, Timeout, boundVars
    <2>2. /\ failed' \in SUBSET Views /\ failed \subseteq failed'
          /\ LocksOK' /\ UNCHANGED todo
      BY <2>1, Failing DEF KnowInv
    <2>3. failures' \in 0 .. MaxFailures /\ crashes' \in 0 .. MaxCrashes
      BY <2>1, TtxAssumption DEF KnowInv, ViewsOK
    <2>4. ViewsOK'
      BY <2>2, <2>3 DEF ViewsOK
    <2>5. UNCHANGED <<submitted, chain, transient, envelope, records, listening, notices>>
      BY <2>1 DEF vaultVars, networkVars, recordVars
    <2>6. DataOK' /\ Grows
      BY <2>5 DEF KnowInv, DataOK, Grows
    <2>7. VaultInv'
      BY <2>1, UnchangedKeepsVault
    <2>8. \A u \in TxIds \ InGenesis : (u \in submitted \/ Ordered(u))' => u \in submitted \/ Ordered(u)
      BY <2>5 DEF Ordered
    <2> QED
      BY <2>2, <2>4, <2>6, <2>7, <2>8, StandStill
  <1>3. CASE UNCHANGED ttxVars
    <2>1. UNCHANGED <<vaultVars, todo, failed, locks, collected, robbed, failures, crashes>>
      BY <1>3 DEF ttxVars, viewVars, lockVars, boundVars
    <2>2. UNCHANGED <<submitted, chain, transient, envelope, records, listening, notices>>
      BY <2>1 DEF vaultVars, networkVars, recordVars
    <2>3. DataOK' /\ ViewsOK' /\ Grows
      BY <2>1, <2>2 DEF KnowInv, DataOK, ViewsOK, LocksOK, Grows
    <2>4. \A u \in TxIds \ InGenesis : (u \in submitted \/ Ordered(u))' => u \in submitted \/ Ordered(u)
      BY <2>2 DEF Ordered
    <2> QED
      BY <2>1, <2>3, <2>4, StandStill, UnchangedKeepsVault
  <1>4. CASE Next
    <2>1. CASE \E t \in TxIds : \E r \in {s \in Roles : ~Ended(t, s)} : Act(t, r) \/ GiveUp(t, r) \/ Timeout(t, r)
      BY <1>1, <1>2, <2>1
    <2>2. CASE \/ \E t \in TxIds : Order(t) /\ UNCHANGED <<viewVars, boundVars>>
               \/ \E n \in Nodes, k \in Networks : Process(n, k) /\ UNCHANGED <<viewVars, boundVars>>
               \/ \E db \in DBs, t \in TxIds : OnStatusChange(db, t) /\ UNCHANGED <<viewVars, boundVars>>
      BY <2>2, NetworkSteps
    <2>3. CASE \E n \in Nodes \cup {TheCustodian} : Restart(n)
      BY <2>3, RestartStep
    <2>4. CASE \E n \in Nodes : ScanLists(n) \/ ScanFrees(n)
      BY <2>4, CollectorStep
    <2> QED
      BY <1>4, <2>1, <2>2, <2>3, <2>4 DEF Next, TtxNext
  <1> QED
    BY <1>3, <1>4

\* What the parties of a transaction have stored when it can be ordered.
LEMMA PartiesKnow ==
    ASSUME KnowInv, NEW t \in TxIds \ InGenesis, t \in submitted \/ Ordered(t)
    PROVE  /\ \A n \in Involved(t) :
                  t \in transient[n] /\ t \in envelope[n] /\ records[n][t] # "none"
           /\ t \in transient[AuditorNode] /\ t \in envelope[AuditorNode]
           /\ records[AuditDB][t] # "none"
  <1>1. ASSUME NEW r \in Roles, NEW a \in {"transient", "envelope", "records", "append"},
               a \in Range(Program[t][r])
        PROVE  Effective(t, r, a)
    <2>1. a \in Range(Program[t][r]) \cap {"transient", "envelope", "records", "append", "select"}
      BY <1>1
    <2>2. Sent(t, r, a)
      BY <2>1, EveryoneDone
    <2> QED
      BY <1>1, <2>2 DEF KnowInv, EffectsOK
  <1>2. "initiator" \in Roles /\ "party" \in Roles /\ "auditor" \in Roles
    BY DEF Roles
  <1>3. NodeOf(t, "initiator") = Initiator[t] /\ NodeOf(t, "party") = Responder[t]
        /\ NodeOf(t, "auditor") = AuditorNode
    BY DEF NodeOf, CustodianRoles
  <1>4. t \in transient[Initiator[t]] /\ t \in envelope[Initiator[t]] /\ records[Initiator[t]][t] # "none"
    <2>1. {"transient", "envelope", "records"} \subseteq Range(Program[t]["initiator"])
      <3>1. {"transient", "envelope", "records"} \subseteq Needed(t)
        BY DEF Needed
      <3> QED
        BY <3>1, InitiatorSteps DEF Precedes
    <2>2. Effective(t, "initiator", "transient") /\ Effective(t, "initiator", "envelope")
          /\ Effective(t, "initiator", "records")
      BY <1>1, <1>2, <2>1
    <2> QED
      BY <1>3, <2>2 DEF Effective
  <1>5. ASSUME Responder[t] # NoNode
        PROVE  t \in transient[Responder[t]] /\ t \in envelope[Responder[t]] /\ records[Responder[t]][t] # "none"
    <2>1. {"transient", "envelope", "records"} \subseteq Range(Program[t]["party"])
      BY <1>5, PartySteps DEF StoresFirst, Precedes
    <2>2. Effective(t, "party", "transient") /\ Effective(t, "party", "envelope")
          /\ Effective(t, "party", "records")
      BY <1>1, <1>2, <2>1
    <2> QED
      BY <1>3, <2>2 DEF Effective
  <1>6. t \in transient[AuditorNode] /\ t \in envelope[AuditorNode] /\ records[AuditDB][t] # "none"
    <2>1. {"transient", "envelope", "append"} \subseteq Range(Program[t]["auditor"])
      BY AuditorSteps
    <2>2. Effective(t, "auditor", "transient") /\ Effective(t, "auditor", "envelope")
          /\ Effective(t, "auditor", "append")
      BY <1>1, <1>2, <2>1
    <2> QED
      BY <1>3, <2>2 DEF Effective
  <1>7. \A n \in Involved(t) : n = Initiator[t] \/ (n = Responder[t] /\ Responder[t] # NoNode)
    BY ViewsAssumption, TtxAssumption
  <1> QED
    BY <1>4, <1>5, <1>6, <1>7

LEMMA KnowInductive == Spec => [](KnowInv /\ VaultInv)
  <1>1. Init => KnowInv /\ VaultInv
    BY InitKnow
  <1>2. (KnowInv /\ VaultInv) /\ [Next]_ttxVars => (KnowInv /\ VaultInv)'
    BY KnowStep
  <1> QED
    BY <1>1, <1>2, PTL DEF Spec

-----------------------------------------------------------------------------
\* Every part of the state of the views, nodes and networks has its type: what is
\* left of a view is the end of its program.
THEOREM FungibleTypeOK == Spec => []TypeOK
  <1>1. ASSUME KnowInv, VaultInv PROVE TypeOK
    <2>1. VaultTypeOK
      BY <1>1, VaultTypes DEF KnowInv, DataOK, VaultTypeOK
    <2>2. ASSUME NEW t \in TxIds, NEW r \in Roles
          PROVE  todo[t][r] = SubSeq(Program[t][r], (Len(Program[t][r]) - Len(todo[t][r])) + 1, Len(Program[t][r]))
      BY <1>1, ProgramFacts, SuffixIs DEF KnowInv, TodoOK
    <2> QED
      BY <1>1, <2>1, <2>2 DEF TypeOK, KnowInv, ViewsOK, LocksOK
  <1> QED
    BY <1>1, KnowInductive, PTL

\* When a transaction can be ordered, every node involved in it and the auditor have
\* stored its openings, its envelope and its records.
THEOREM EveryPartyKnowsHolds == Spec => []EveryPartyKnows
  <1>1. ASSUME KnowInv PROVE EveryPartyKnows
    <2> SUFFICES ASSUME NEW t \in TxIds, t \in submitted \/ Ordered(t)
                 PROVE  /\ \A n \in Involved(t) \cup {AuditorNode} : t \in transient[n] /\ t \in envelope[n]
                        /\ \A db \in Involved(t) \cup {AuditDB} : records[db][t] # "none"
      BY DEF EveryPartyKnows
    <2>1. Involved(t) \subseteq Nodes /\ AuditorNode \in Nodes
      BY VaultAssumption, ViewsAssumption
    <2>2. CASE t \in InGenesis
      BY <1>1, <2>1, <2>2 DEF KnowInv, StartKnown, DBs
    <2>3. CASE t \notin InGenesis
      BY <1>1, <2>1, <2>3, PartiesKnow
    <2> QED
      BY <2>2, <2>3
  <1> QED
    BY <1>1, KnowInductive, PTL

-----------------------------------------------------------------------------
\* Stores change when a node processes a transaction, chains when one is ordered.
LEMMA WhoChangesStores ==
    ASSUME [Next]_ttxVars
    PROVE  \/ \E t \in TxIds : Order(t)
           \/ \E n \in Nodes, k \in Networks : Process(n, k)
           \/ UNCHANGED <<spent, settled, chain, height, store>>
  <1>1. ASSUME NEW t \in TxIds, NEW r \in Roles, Act(t, r) \/ GiveUp(t, r) \/ Timeout(t, r)
        PROVE  UNCHANGED <<spent, settled, chain, height, store>>
    <2>1. CASE \/ Select(t, r) \/ Gather(t, r) \/ CheckQuota(t, r) \/ Exchange(t, r) \/ Audit(t, r)
               \/ requestApproval(t, r) \/ CheckBusy(t, r) \/ Finality(t, r) \/ Resume(t, r)
               \/ GiveUp(t, r) \/ Timeout(t, r)
      <3>1. UNCHANGED vaultVars
        BY <2>1 DEF Select, Gather, CheckQuota, Exchange, Audit, requestApproval, CheckBusy, Finality,
                    Resume, GiveUp, Timeout
      <3> QED
        BY <3>1 DEF vaultVars, networkVars
    <2>2. CASE \/ storeTransient(t, r) \/ StoreEnvelope(t, r)
               \/ StoreTransactionRecords(t, r) \/ AppendAuditRecords(t, r) \/ Broadcast(t, r)
      BY <2>2 DEF storeTransient, StoreEnvelope, StoreTransactionRecords, AppendAuditRecords, Broadcast,
                  networkVars, ledgerVars
    <2> QED
      BY <1>1, <2>1, <2>2 DEF Act
  <1>2. ASSUME NEW n, Restart(n) PROVE UNCHANGED <<spent, settled, chain, height, store>>
    BY <1>2 DEF Restart, networkVars
  <1>3. ASSUME NEW db, NEW t, OnStatusChange(db, t) PROVE UNCHANGED <<spent, settled, chain, height, store>>
    BY <1>3 DEF OnStatusChange, networkVars
  <1>4. CASE UNCHANGED ttxVars
    BY <1>4 DEF ttxVars, vaultVars, networkVars
  <1>5. ASSUME NEW n, ScanLists(n) \/ ScanFrees(n) PROVE UNCHANGED <<spent, settled, chain, height, store>>
    BY <1>5 DEF ScanLists, ScanFrees, vaultVars, networkVars
  <1>6. CASE Next
    <2>1. CASE \E t \in TxIds : \E r \in {s \in Roles : ~Ended(t, s)} : Act(t, r) \/ GiveUp(t, r) \/ Timeout(t, r)
      BY <1>1, <2>1
    <2>2. CASE \E t \in TxIds : Order(t) /\ UNCHANGED <<viewVars, boundVars>>
      BY <2>2
    <2>3. CASE \E n \in Nodes, k \in Networks : Process(n, k) /\ UNCHANGED <<viewVars, boundVars>>
      BY <2>3
    <2>4. CASE \E db \in DBs, t \in TxIds : OnStatusChange(db, t) /\ UNCHANGED <<viewVars, boundVars>>
      BY <1>3, <2>4
    <2>5. CASE \E n \in Nodes : ScanLists(n) \/ ScanFrees(n)
      BY <1>5, <2>5
    <2>6. CASE \E n \in Nodes \cup {TheCustodian} : Restart(n)
      BY <1>2, <2>6
    <2> QED
      BY <1>6, <2>1, <2>2, <2>3, <2>4, <2>5, <2>6 DEF Next, TtxNext
  <1> QED
    BY <1>4, <1>6

\* Whoever is concerned by a transaction that took effect knows it.
LEMMA EveryoneInformed == ASSUME KnowInv, VaultInv PROVE Informed
  <1> SUFFICES ASSUME NEW n \in Nodes, NEW t \in settled,
                      n = AuditorNode \/ (\E id \in CreatedIds(t) \cup ConsumedIds(t) : IsMine(n, id))
               PROVE  Known(n, t)
    BY DEF Informed
  <1>1. t \in TxIds /\ Ordered(t)
    BY DEF VaultInv, NetworkInv, LedgerOK
  <1>2. CASE t \in InGenesis
    BY <1>2 DEF KnowInv, StartKnown, Known
  <1>3. CASE t \notin InGenesis
    <2>1. ASSUME NEW id \in CreatedIds(t) \cup ConsumedIds(t), IsMine(n, id)
          PROVE  n \in Involved(t)
      BY <2>1 DEF Involved, IsMine
    <2>2. t \in transient[n] /\ t \in envelope[n]
      BY <1>1, <1>3, <2>1, PartiesKnow
    <2> QED
      BY <2>2 DEF Known
  <1> QED
    BY <1>2, <1>3

FollowInv == ChainInv /\ StoresExact

LEMMA FollowStep ==
    ASSUME KnowInv, VaultInv, FollowInv, [Next]_ttxVars
    PROVE  FollowInv'
  <1>1. NetworkInv /\ StoreOK /\ ChainInv /\ StoresExact /\ Informed
    BY EveryoneInformed DEF VaultInv, FollowInv
  <1>2. ASSUME NEW t \in TxIds, Order(t) PROVE FollowInv'
    BY <1>1, <1>2, OrderKeepsChain, OrderKeepsStores DEF FollowInv
  <1>3. ASSUME NEW n \in Nodes, NEW k \in Networks, Process(n, k) PROVE FollowInv'
    <2>1. UNCHANGED <<spent, settled, chain>>
      BY <1>3 DEF Process, networkVars
    <2> QED
      BY <1>1, <1>3, <2>1, UnchangedKeepsChain, ProcessKeepsStores DEF FollowInv
  <1>4. CASE UNCHANGED <<spent, settled, chain, height, store>>
    <2>1. \A n \in Nodes : ProcessedAt(n)' = ProcessedAt(n)
      BY <1>4 DEF ProcessedAt
    <2> QED
      BY <1>1, <1>4, <2>1, UnchangedKeepsChain, SameStores DEF FollowInv
  <1> QED
    BY <1>2, <1>3, <1>4, WhoChangesStores

LEMMA InitFollow == Init => FollowInv
  BY InitChain, InitStores DEF Init, TtxInit, FollowInv

LEMMA FollowInductive == Spec => []FollowInv
  <1>1. KnowInv /\ VaultInv /\ FollowInv /\ [Next]_ttxVars => FollowInv'
    BY FollowStep
  <1> QED
    BY <1>1, InitFollow, KnowInductive, PTL DEF Spec

\* At any height a node keeps exactly the tokens of its parties that are unspent after
\* what it has processed, listed by wallet and by type as well, and knows who spent
\* the others; the auditor has seen them all.
THEOREM VaultFollowsLedgerHolds == Spec => []VaultFollowsLedger
  <1>1. VaultInv /\ FollowInv => VaultFollowsLedger
    <2> SUFFICES ASSUME VaultInv, FollowInv PROVE VaultFollowsLedger
      OBVIOUS
    <2>1. ASSUME NEW n \in Nodes
          PROVE  LET own == {id \in UnspentAt(n) : IsMine(n, id) /\ Opens(n, id)}
                 IN /\ UnspentTokens(n) = own
                    /\ \A w, typ : ListTokens(n, w, typ) =
                          {id \in own : /\ w \in WalletIdsOf(n, TokenOf(id).owner)
                                        /\ typ \in {AnyType, TokenOf(id).type}}
                    /\ \A id : IsMine(n, id) => WhoDeletedTokens(store[n], id) =
                                                   {u \in ProcessedAt(n) : id \in ConsumedIds(u)}
                    /\ n = AuditorNode =>
                          ListAuditTokens(store[n], UNION {CreatedIds(t) : t \in ProcessedAt(n)})
      <3>1. NetworkInv /\ ChainInv /\ TokensOK(n)
        BY DEF VaultInv, FollowInv, StoresExact
      <3> QED
        BY <3>1, ExactAnswers DEF Keeps
    <2>2. AuditorNode \in Nodes
      BY VaultAssumption
    <2> QED
      <3>1. \A n \in Nodes :
               LET own == {id \in UnspentAt(n) : IsMine(n, id) /\ Opens(n, id)}
               IN /\ UnspentTokens(n) = own
                  /\ \A p \in Parties : \A w \in WalletIdsOf(n, p), typ \in TokenTypes \cup {AnyType} :
                        ListTokens(n, w, typ) =
                            {id \in own : /\ w \in WalletIdsOf(n, TokenOf(id).owner)
                                          /\ typ \in {AnyType, TokenOf(id).type}}
                  /\ \A id \in UNION {Created[t] : t \in ProcessedAt(n)} :
                        IsMine(n, id) => WhoDeletedTokens(store[n], id) =
                                             {u \in ProcessedAt(n) : id \in ConsumedIds(u)}
        <4> TAKE n \in Nodes
        <4> QED
          BY <2>1
      <3>2. ListAuditTokens(store[AuditorNode], UNION {CreatedIds(t) : t \in ProcessedAt(AuditorNode)})
        BY <2>1, <2>2
      <3> QED
        BY <3>1, <3>2 DEF VaultFollowsLedger
  <1> QED
    BY <1>1, FollowInductive, KnowInductive, PTL

-----------------------------------------------------------------------------
\* What a database says of a transaction: it is pending until the node has processed
\* it, with a listener that waits; then a notice is on its way, and in the end the
\* records say what became of it.  Whoever has records of a transaction of its own
\* has stored the rest before.
RecordOK(db, t) ==
    /\ records[db][t] = "Pending" =>
          IF Processed(NodeOfDB(db), t) THEN t \in notices[db] ELSE t \in listening[db]
    /\ records[db][t] \in {"Confirmed", "Deleted"} =>
          Processed(NodeOfDB(db), t) /\ records[db][t] = Outcome(t)
    /\ t \in notices[db] => Processed(NodeOfDB(db), t)
    /\ db \in Nodes /\ records[db][t] # "none" => t \in transient[db] /\ t \in envelope[db]

RecordsOK == \A db \in DBs, t \in TxIds : RecordOK(db, t)

LEMMA NodesOfDBs == \A db \in DBs : NodeOfDB(db) \in Nodes
  BY VaultAssumption DEF DBs, NodeOfDB

\* Records that a step does not touch.
LEMMA SameRecord ==
    ASSUME NEW db \in DBs, NEW t \in TxIds, RecordOK(db, t),
           records'[db][t] = records[db][t],
           t \in listening[db] => t \in listening'[db],
           t \in notices'[db] <=> t \in notices[db],
           Processed(NodeOfDB(db), t)' <=> Processed(NodeOfDB(db), t),
           Processed(NodeOfDB(db), t) => (t \in settled' <=> t \in settled),
           db \in Nodes => transient[db] \subseteq transient'[db] /\ envelope[db] \subseteq envelope'[db]
    PROVE  RecordOK(db, t)'
  <1> DEFINE seen == Processed(NodeOfDB(db), t)
  <1>1. seen' <=> seen
    OBVIOUS
  <1>2. seen => Outcome(t)' = Outcome(t)
    BY DEF Outcome
  <1>3. RecordOK(db, t)' <=>
          /\ records'[db][t] = "Pending" => IF seen' THEN t \in notices'[db] ELSE t \in listening'[db]
          /\ records'[db][t] \in {"Confirmed", "Deleted"} => seen' /\ records'[db][t] = Outcome(t)'
          /\ t \in notices'[db] => seen'
          /\ db \in Nodes /\ records'[db][t] # "none" => t \in transient'[db] /\ t \in envelope'[db]
    BY DEF RecordOK
  <1>4. /\ records[db][t] = "Pending" => IF seen THEN t \in notices[db] ELSE t \in listening[db]
        /\ records[db][t] \in {"Confirmed", "Deleted"} => seen /\ records[db][t] = Outcome(t)
        /\ t \in notices[db] => seen
        /\ db \in Nodes /\ records[db][t] # "none" => t \in transient[db] /\ t \in envelope[db]
    BY DEF RecordOK
  <1> HIDE DEF seen
  <1> QED
    BY <1>1, <1>2, <1>3, <1>4

\* The step of a view that keeps no records.
LEMMA RecordsStay ==
    ASSUME RecordsOK, Grows, UNCHANGED <<records, listening, notices, settled, chain, height>>
    PROVE  RecordsOK'
  <1> SUFFICES ASSUME NEW db \in DBs, NEW t \in TxIds PROVE RecordOK(db, t)'
    BY DEF RecordsOK
  <1>1. Processed(NodeOfDB(db), t)' <=> Processed(NodeOfDB(db), t)
    BY DEF Processed
  <1>2. db \in Nodes => transient[db] \subseteq transient'[db] /\ envelope[db] \subseteq envelope'[db]
    BY DEF Grows
  <1> QED
    BY <1>1, <1>2, SameRecord DEF RecordsOK

LEMMA OrderKeepsRecords ==
    ASSUME NetworkInv, RecordsOK, NEW t \in TxIds, Order(t) PROVE RecordsOK'
  <1> SUFFICES ASSUME NEW db \in DBs, NEW u \in TxIds PROVE RecordOK(db, u)'
    BY DEF RecordsOK
  <1>1. /\ ~Ordered(t) /\ UNCHANGED <<records, listening, notices, transient, envelope>>
        /\ \A n \in Nodes : Processed(n, u)' <=> Processed(n, u)
    BY OrderEffect DEF Order, recordVars
  <1>2. settled' = settled \cup {t} \/ settled' = settled
    BY DEF Order, Network!Settle, ledgerVars
  <1>3. NodeOfDB(db) \in Nodes
    BY NodesOfDBs
  <1>4. Processed(NodeOfDB(db), u) => u # t
    BY <1>1, <1>3, ProcessedIsOrdered
  <1> QED
    BY <1>1, <1>2, <1>3, <1>4, SameRecord DEF RecordsOK

LEMMA ProcessKeepsRecords ==
    ASSUME NetworkInv, RecordsOK, NEW n \in Nodes, NEW k \in Networks, Process(n, k)
    PROVE  RecordsOK'
  <1> SUFFICES ASSUME NEW db \in DBs, NEW u \in TxIds PROVE RecordOK(db, u)'
    BY DEF RecordsOK
  <1>1. PICK t \in TxIds :
           /\ t = chain[k][height[n][k] + 1]
           /\ Processed(n, t)'
           /\ \A v \in TxIds : Processed(n, v)' => Processed(n, v) \/ v = t
           /\ \A m \in Nodes \ {n}, v \in TxIds : Processed(m, v)' <=> Processed(m, v)
           /\ \A v \in TxIds : Processed(n, v) => Processed(n, v)'
    BY ProcessEffect
  <1>2. /\ notices' = [d \in DBs |-> IF NodeOfDB(d) = n /\ t \in listening[d]
                                     THEN notices[d] \cup {t} ELSE notices[d]]
        /\ UNCHANGED <<settled, transient, envelope, records, listening>>
    BY <1>1 DEF Process, networkVars
  <1>3. NodeOfDB(db) \in Nodes /\ RecordOK(db, u)
    BY NodesOfDBs DEF RecordsOK
  <1>4. CASE NodeOfDB(db) = n /\ u = t
    <2>1. notices'[db] = IF t \in listening[db] THEN notices[db] \cup {t} ELSE notices[db]
      BY <1>2, <1>4
    <2>2. Outcome(t)' = Outcome(t)
      BY <1>2 DEF Outcome
    <2>3. records[db][t] = "Pending" => t \in notices'[db]
      BY <1>3, <1>4, <2>1 DEF RecordOK
    <2> QED
      BY <1>1, <1>2, <1>3, <1>4, <2>2, <2>3 DEF RecordOK
  <1>5. CASE ~(NodeOfDB(db) = n /\ u = t)
    <2>1. Processed(NodeOfDB(db), u)' <=> Processed(NodeOfDB(db), u)
      BY <1>1, <1>3, <1>5
    <2>2. u \in notices'[db] <=> u \in notices[db]
      BY <1>2, <1>5
    <2> QED
      BY <1>2, <1>3, <2>1, <2>2, SameRecord
  <1> QED
    BY <1>4, <1>5

LEMMA NoticeKeepsRecords ==
    ASSUME RecordsOK, DataOK, NEW db \in DBs, NEW t \in TxIds, OnStatusChange(db, t)
    PROVE  RecordsOK'
  <1> SUFFICES ASSUME NEW d \in DBs, NEW u \in TxIds PROVE RecordOK(d, u)'
    BY DEF RecordsOK
  <1>1. /\ t \in notices[db]
        /\ records' = [records EXCEPT ![db][t] = IF @ = "none" THEN @ ELSE Outcome(t)]
        /\ notices' = [notices EXCEPT ![db] = @ \ {t}]
        /\ listening' = [listening EXCEPT ![db] = @ \ {t}]
        /\ UNCHANGED <<settled, chain, height, transient, envelope>>
    BY DEF OnStatusChange, networkVars
  <1>2. RecordOK(d, u) /\ RecordOK(db, t)
    BY DEF RecordsOK
  <1>3. \A n : Processed(n, u)' <=> Processed(n, u)
    BY <1>1 DEF Processed
  <1>4. CASE d = db /\ u = t
    <2>1. /\ records'[db][t] = IF records[db][t] = "none" THEN "none" ELSE Outcome(t)
          /\ t \notin notices'[db]
      BY <1>1 DEF DataOK
    <2>2. Outcome(t)' = Outcome(t) /\ Outcome(t) \in {"Confirmed", "Deleted"}
      BY <1>1 DEF Outcome
    <2>3. Processed(NodeOfDB(db), t)
      BY <1>1, <1>2 DEF RecordOK
    <2> QED
      BY <1>1, <1>2, <1>3, <1>4, <2>1, <2>2, <2>3 DEF RecordOK
  <1>5. CASE ~(d = db /\ u = t)
    <2>1. /\ records'[d][u] = records[d][u]
          /\ u \in notices'[d] <=> u \in notices[d]
          /\ u \in listening'[d] <=> u \in listening[d]
      BY <1>1, <1>5 DEF DataOK
    <2> QED
      BY <1>1, <1>2, <1>3, <2>1, SameRecord
  <1> QED
    BY <1>4, <1>5

LEMMA RestartKeepsRecords ==
    ASSUME RecordsOK, NEW n \in Nodes \cup {TheCustodian}, Restart(n)
    PROVE  RecordsOK'
  <1> SUFFICES ASSUME NEW db \in DBs, NEW u \in TxIds PROVE RecordOK(db, u)'
    BY DEF RecordsOK
  <1>1. UNCHANGED <<settled, chain, height, transient, envelope>> /\ Restore(n)
    BY DEF Restart, networkVars
  <1>2. /\ \A m : Processed(m, u)' <=> Processed(m, u)
        /\ Outcome(u)' = Outcome(u) /\ Outcome(u) \in {"Confirmed", "Deleted"}
    BY <1>1 DEF Processed, Outcome
  <1>3. IsFinal(n, u) <=> Processed(n, u)
    BY DEF IsFinal, Status
  <1>4. RecordOK(db, u)
    BY DEF RecordsOK
  <1>5. /\ records'[db][u] = IF NodeOfDB(db) = n /\ records[db][u] = "Pending" /\ IsFinal(n, u)
                             THEN Outcome(u) ELSE records[db][u]
        /\ listening'[db] = IF NodeOfDB(db) = n
                            THEN {t \in {v \in TxIds : records[db][v] = "Pending"} : ~IsFinal(n, t)}
                            ELSE listening[db]
        /\ notices'[db] = IF NodeOfDB(db) = n THEN {} ELSE notices[db]
    BY <1>1 DEF Restore
  <1> HIDE DEF IsFinal, Outcome
  <1>6. CASE NodeOfDB(db) = n
    <2>1. u \in listening'[db] <=> records[db][u] = "Pending" /\ ~Processed(n, u)
      BY <1>3, <1>5, <1>6
    <2>2. records'[db][u] = IF records[db][u] = "Pending" /\ Processed(n, u)
                            THEN Outcome(u) ELSE records[db][u]
      BY <1>3, <1>5, <1>6
    <2>3. u \notin notices'[db]
      BY <1>5, <1>6
    <2> QED
      BY <1>1, <1>2, <1>4, <1>6, <2>1, <2>2, <2>3 DEF RecordOK
  <1>7. CASE NodeOfDB(db) # n
    BY <1>1, <1>2, <1>4, <1>5, <1>7, SameRecord
  <1> QED
    BY <1>6, <1>7

\* Records are appended before the transaction can be ordered.
LEMMA AppendKeepsRecords ==
    ASSUME RecordsOK, DataOK, NetworkInv, NEW db \in DBs, NEW t \in TxIds, ~Ordered(t),
           db \in Nodes => t \in transient[db] /\ t \in envelope[db],
           AppendRecords(db, t), UNCHANGED <<settled, chain, height, transient, envelope>>
    PROVE  RecordsOK'
  <1> SUFFICES ASSUME NEW d \in DBs, NEW u \in TxIds PROVE RecordOK(d, u)'
    BY DEF RecordsOK
  <1>1. /\ records' = [records EXCEPT ![db][t] = "Pending"]
        /\ listening' = [listening EXCEPT ![db] = @ \cup {t}]
        /\ notices' = notices
    BY DEF AppendRecords
  <1>2. RecordOK(d, u) /\ RecordOK(db, t)
    BY DEF RecordsOK
  <1>3. \A n : Processed(n, u)' <=> Processed(n, u)
    BY DEF Processed
  <1>4. CASE d = db /\ u = t
    <2>1. records'[db][t] = "Pending" /\ t \in listening'[db]
      BY <1>1 DEF DataOK
    <2>2. ~Processed(NodeOfDB(db), t)
      BY NodesOfDBs, ProcessedIsOrdered
    <2> QED
      BY <1>1, <1>2, <1>3, <1>4, <2>1, <2>2 DEF RecordOK
  <1>5. CASE ~(d = db /\ u = t)
    <2>1. /\ records'[d][u] = records[d][u]
          /\ u \in listening[d] => u \in listening'[d]
      BY <1>1, <1>5 DEF DataOK
    <2> QED
      BY <1>1, <1>2, <1>3, <2>1, SameRecord
  <1> QED
    BY <1>4, <1>5

LEMMA StoringKeepsRecords ==
    ASSUME KnowInv, VaultInv, RecordsOK, NEW t \in TxIds, NEW r \in Roles, ~Ended(t, r),
           StoreTransactionRecords(t, r) \/ AppendAuditRecords(t, r)
    PROVE  RecordsOK'
  <1>1. ~Ordered(t)
    BY StoringSteps
  <1>2. /\ t \notin InGenesis /\ todo[t][r] # << >> /\ Head(todo[t][r]) \in Range(Program[t][r])
        /\ Suffix(todo[t][r], Program[t][r])
    BY NextStep DEF KnowInv, TodoOK
  <1>3. DataOK /\ NetworkInv /\ EffectsOK
    BY DEF KnowInv, VaultInv
  <1>4. UNCHANGED <<settled, chain, height, transient, envelope>>
    BY DEF StoreTransactionRecords, AppendAuditRecords, networkVars
  <1>5. CASE StoreTransactionRecords(t, r)
    <2> DEFINE n == NodeOf(t, r)
               p == Program[t][r]
               s == todo[t][r]
    <2>1. AppendRecords(n, t) /\ Head(s) = "records" /\ "records" \in Range(p)
      BY <1>2, <1>5 DEF StoreTransactionRecords, At
    <2>2. "records" \in Range(p) \cap {"transient", "envelope", "records", "select"}
      BY <2>1
    <2>3. n \in Nodes
      BY <2>2, StoringNode
    <2>4. p \in Seq(Steps) /\ Precedes(p, "transient", "records") /\ Precedes(p, "envelope", "records")
      BY <2>1, ProgramFacts
    <2> HIDE DEF p, s, n
    <2>5. "transient" \notin Range(s)
      BY <1>2, <2>1, <2>4, DoneBefore DEF p, s
    <2>6. "envelope" \notin Range(s)
      BY <1>2, <2>1, <2>4, DoneBefore DEF p, s
    <2>7. "transient" \in Range(p) /\ "envelope" \in Range(p)
      BY <2>4 DEF Precedes
    <2>8. Effective(t, r, "transient") /\ Effective(t, r, "envelope")
      BY <1>2, <1>3, <2>5, <2>6, <2>7 DEF EffectsOK, Sent, p, s
    <2>9. t \in transient[n] /\ t \in envelope[n]
      BY <2>8 DEF Effective, n
    <2> QED
      BY <1>1, <1>3, <1>4, <2>1, <2>3, <2>9, AppendKeepsRecords DEF DBs
  <1>6. CASE AppendAuditRecords(t, r)
    <2>1. AppendRecords(AuditDB, t) /\ AuditDB \in DBs /\ AuditDB \notin Nodes
      BY <1>6, TtxAssumption DEF AppendAuditRecords, DBs
    <2> QED
      BY <1>1, <1>3, <1>4, <2>1, AppendKeepsRecords
  <1> QED
    BY <1>5, <1>6

LEMMA RecordsStep ==
    ASSUME KnowInv, VaultInv, RecordsOK, [Next]_ttxVars
    PROVE  RecordsOK'
  <1>1. NetworkInv /\ DataOK
    BY DEF VaultInv, KnowInv
  <1>2. ASSUME UNCHANGED vaultVars PROVE RecordsOK'
    <2>1. UNCHANGED <<records, listening, notices, settled, chain, height, transient, envelope>>
      BY <1>2 DEF vaultVars, networkVars, recordVars
    <2> QED
      BY <2>1, RecordsStay DEF Grows
  <1>3. ASSUME NEW t \in TxIds, NEW r \in Roles, ~Ended(t, r), Act(t, r) PROVE RecordsOK'
    <2>1. CASE \/ Select(t, r) \/ Gather(t, r) \/ CheckQuota(t, r) \/ Exchange(t, r) \/ Audit(t, r)
               \/ requestApproval(t, r) \/ CheckBusy(t, r) \/ Finality(t, r) \/ Resume(t, r)
      <3>1. UNCHANGED vaultVars
        BY <2>1 DEF Select, Gather, CheckQuota, Exchange, Audit, requestApproval, CheckBusy, Finality, Resume
      <3> QED
        BY <1>2, <3>1
    <2>2. CASE storeTransient(t, r) \/ StoreEnvelope(t, r) \/ Broadcast(t, r)
      <3>1. UNCHANGED <<records, listening, notices, settled, chain, height>>
        BY <2>2 DEF storeTransient, StoreEnvelope, Broadcast, networkVars, ledgerVars, recordVars
      <3>2. \/ transient' = [transient EXCEPT ![NodeOf(t, r)] = @ \cup {t}] /\ envelope' = envelope
            \/ envelope' = [envelope EXCEPT ![NodeOf(t, r)] = @ \cup {t}] /\ transient' = transient
            \/ UNCHANGED <<transient, envelope>>
        BY <2>2 DEF storeTransient, StoreEnvelope, Broadcast
      <3>3. Grows
        BY <1>1, <3>1, <3>2 DEF Grows, DataOK
      <3> QED
        BY <3>1, <3>3, RecordsStay
    <2>3. CASE StoreTransactionRecords(t, r) \/ AppendAuditRecords(t, r)
      BY <1>3, <2>3, StoringKeepsRecords
    <2> QED
      BY <1>3, <2>1, <2>2, <2>3 DEF Act
  <1>4. ASSUME NEW t \in TxIds, NEW r \in Roles, GiveUp(t, r) \/ Timeout(t, r) PROVE RecordsOK'
    BY <1>2, <1>4 DEF GiveUp, Timeout
  <1>5. ASSUME NEW t \in TxIds, Order(t) PROVE RecordsOK'
    BY <1>1, <1>5, OrderKeepsRecords
  <1>6. ASSUME NEW n \in Nodes, NEW k \in Networks, Process(n, k) PROVE RecordsOK'
    BY <1>1, <1>6, ProcessKeepsRecords
  <1>7. ASSUME NEW db \in DBs, NEW t \in TxIds, OnStatusChange(db, t) PROVE RecordsOK'
    BY <1>1, <1>7, NoticeKeepsRecords
  <1>8. ASSUME NEW n \in Nodes \cup {TheCustodian}, Restart(n) PROVE RecordsOK'
    BY <1>8, RestartKeepsRecords
  <1>9. CASE UNCHANGED ttxVars
    BY <1>2, <1>9 DEF ttxVars
  <1>10. ASSUME NEW n \in Nodes, ScanLists(n) \/ ScanFrees(n) PROVE RecordsOK'
    BY <1>2, <1>10 DEF ScanLists, ScanFrees
  <1>11. CASE Next
    BY <1>3, <1>4, <1>5, <1>6, <1>7, <1>8, <1>10, <1>11 DEF Next, TtxNext
  <1> QED
    BY <1>9, <1>11

LEMMA InitRecords == Init => RecordsOK
  <1> SUFFICES ASSUME Init, NEW db \in DBs, NEW t \in TxIds PROVE RecordOK(db, t)
    BY DEF RecordsOK
  <1>1. /\ chain = Genesis /\ settled = InGenesis
        /\ height = [n \in Nodes |-> [k \in Networks |-> Len(Genesis[k])]]
        /\ transient = [n \in Nodes |-> InGenesis] /\ envelope = [n \in Nodes |-> InGenesis]
        /\ records = [d \in DBs |-> [u \in TxIds |-> IF u \in InGenesis THEN "Confirmed" ELSE "none"]]
        /\ notices = [d \in DBs |-> {}]
    BY DEF Init, TtxInit, VaultInit
  <1>2. ASSUME t \in InGenesis PROVE Processed(NodeOfDB(db), t)
    <2>1. PICK k \in Networks : t \in Range(Genesis[k])
      BY <1>2 DEF InGenesis
    <2>2. Genesis[k] \in Seq(TxIds) /\ NetworkOf[t] = k
      BY <2>1, VaultAssumption
    <2>3. PICK i \in 1 .. Len(Genesis[k]) : Genesis[k][i] = t
      BY <2>1, <2>2 DEF Range
    <2>4. height[NodeOfDB(db)][k] = Len(Genesis[k])
      BY <1>1, NodesOfDBs
    <2> QED
      BY <1>1, <2>2, <2>3, <2>4 DEF Processed
  <1>3. /\ records[db][t] = IF t \in InGenesis THEN "Confirmed" ELSE "none"
        /\ notices[db] = {}
        /\ db \in Nodes => transient[db] = InGenesis /\ envelope[db] = InGenesis
    BY <1>1
  <1> QED
    BY <1>1, <1>2, <1>3 DEF RecordOK, Outcome

LEMMA RecordsInductive == Spec => []RecordsOK
  <1>1. KnowInv /\ VaultInv /\ RecordsOK /\ [Next]_ttxVars => RecordsOK'
    BY RecordsStep
  <1> QED
    BY <1>1, InitRecords, KnowInductive, PTL DEF Spec

\* Whoever has records of a transaction has the rest of it, but for the auditor, who
\* has records before anyone broadcasts.
LEMMA RecordsComeLast ==
    ASSUME KnowInv, RecordsOK, NEW db \in DBs, NEW t \in TxIds, records[db][t] # "none",
           ~(db = AuditDB /\ t \notin submitted /\ ~Ordered(t))
    PROVE  t \in transient[NodeOfDB(db)] /\ t \in envelope[NodeOfDB(db)]
  <1>1. CASE db = AuditDB
    <2>1. t \in submitted \/ Ordered(t)
      BY <1>1
    <2>2. NodeOfDB(db) = AuditorNode /\ AuditorNode \in Nodes
      BY <1>1, VaultAssumption DEF NodeOfDB
    <2>3. CASE t \in InGenesis
      BY <2>2, <2>3 DEF KnowInv, StartKnown
    <2>4. CASE t \notin InGenesis
      BY <2>1, <2>2, <2>4, PartiesKnow
    <2> QED
      BY <2>3, <2>4
  <1>2. CASE db # AuditDB
    <2>1. db \in Nodes /\ NodeOfDB(db) = db
      BY <1>2 DEF DBs, NodeOfDB
    <2> QED
      BY <2>1 DEF RecordsOK, RecordOK
  <1> QED
    BY <1>1, <1>2

\* Whatever CheckTTXDBView reports passes on its own: an outcome is on its way to the
\* listener, or a transaction to the vault, or it was never broadcast.
THEOREM RecordsMatchVaultHolds == Spec => []RecordsMatchVault
  <1>1. ASSUME KnowInv, VaultInv, FollowInv, RecordsOK PROVE RecordsMatchVault
    <2> SUFFICES ASSUME NEW db \in DBs, NEW m \in CheckTTXDB(db)
                 PROVE  LET n == NodeOfDB(db)
                            unsent(t) == db = AuditDB /\ t \notin submitted /\ ~Ordered(t)
                        IN CASE m[1] = "record" -> m[2] \in notices[db] \/ unsent(m[2])
                             [] m[1] \in {"envelope", "metadata"} -> unsent(m[2])
                             [] m[1] = "ledger" -> Status(n, m[2]) = "Busy" /\ Ordered(m[2])
                             [] m[1] = "token" ->
                                    \E t \in settled : m[2] \in ConsumedIds(t) /\ ~Processed(n, t)
      BY DEF RecordsMatchVault
    <2> DEFINE n == NodeOfDB(db)
               unsent(t) == db = AuditDB /\ t \notin submitted /\ ~Ordered(t)
    <2>1. n \in Nodes /\ NetworkInv /\ ChainInv /\ TokensOK(n)
      BY <1>1, NodesOfDBs DEF VaultInv, FollowInv, StoresExact
    <2>2. \A t \in TxIds : records[db][t] # "none" /\ ~unsent(t) => t \in transient[n] /\ t \in envelope[n]
      BY <1>1, RecordsComeLast
    <2>3. \A t : Status(n, t) = IF Processed(n, t) THEN (IF t \in settled THEN "Valid" ELSE "Invalid")
                                ELSE IF t \in envelope[n] THEN "Busy" ELSE "Unknown"
      BY DEF Status
    <2>4. \A t \in TxIds : Processed(n, t) => Ordered(t)
      BY <2>1, ProcessedIsOrdered
    <2>5. \A t : TxStatus(t) = IF ~Ordered(t) THEN "Unknown" ELSE IF t \in settled THEN "Valid" ELSE "Invalid"
      <3> SUFFICES ASSUME NEW t
                   PROVE  TxStatus(t) = IF ~Ordered(t) THEN "Unknown" ELSE IF t \in settled THEN "Valid" ELSE "Invalid"
        OBVIOUS
      <3>1. t \in settled => Ordered(t)
        BY <2>1 DEF NetworkInv, LedgerOK
      <3>2. CASE ~Ordered(t)
        <4>1. t \notin Range(chain[NetworkOf[t]]) /\ t \notin settled
          BY <3>1, <3>2 DEF Ordered
        <4> QED
          BY <3>2, <4>1 DEF TxStatus
      <3>3. CASE Ordered(t)
        <4>1. t \in Range(chain[NetworkOf[t]])
          BY <3>3 DEF Ordered
        <4> QED
          BY <3>3, <4>1 DEF TxStatus
      <3> QED
        BY <3>2, <3>3
    <2>6. \A t \in TxIds : RecordOK(db, t)
      BY <1>1 DEF RecordsOK
    <2>7. ASSUME NEW t \in TxIds, records[db][t] # "none", RecordMismatch(n, db, t)
          PROVE  t \in notices[db] \/ unsent(t)
      <3>1. records[db][t] \in {"Pending", "Confirmed", "Deleted"}
        BY <1>1, <2>7 DEF KnowInv, DataOK
      <3>2. CASE Processed(n, t)
        <4>1. records[db][t] # Outcome(t)
          BY <2>3, <2>7, <3>2 DEF RecordMismatch, Outcome
        <4> QED
          BY <2>6, <3>1, <3>2, <4>1 DEF RecordOK
      <3>3. CASE ~Processed(n, t) /\ t \in envelope[n]
        <4>1. records[db][t] # "Pending"
          BY <2>3, <2>7, <3>3 DEF RecordMismatch
        <4> QED
          BY <2>6, <3>1, <3>3, <4>1 DEF RecordOK
      <3>4. CASE t \notin envelope[n]
        BY <2>2, <2>7, <3>4
      <3> QED
        BY <3>2, <3>3, <3>4
    <2>8. ASSUME NEW t \in TxIds, records[db][t] # "none", LedgerMismatch(n, db, t)
          PROVE  Status(n, t) = "Busy" /\ Ordered(t)
      <3>1. ~Processed(n, t)
        <4>1. SUFFICES ASSUME Processed(n, t) PROVE FALSE
          OBVIOUS
        <4>2. Ordered(t) /\ TxStatus(t) = Status(n, t) /\ Status(n, t) \in {"Valid", "Invalid"}
          BY <2>3, <2>4, <2>5, <4>1
        <4> QED
          BY <2>8, <4>2 DEF LedgerMismatch, LedgerStatus
      <3>2. Status(n, t) \in {"Busy", "Unknown"}
        BY <2>3, <3>1
      <3>3. TxStatus(t) # "Unknown"
        BY <2>8, <3>2 DEF LedgerMismatch, LedgerStatus
      <3>4. Ordered(t)
        BY <2>5, <3>3
      <3> QED
        BY <2>2, <2>3, <2>8, <3>1, <3>4
    <2>9. ASSUME NEW id \in UnspentTokens(n), ~QueryTokens(NetworkOf[id[1]], {id})
          PROVE  \E t \in settled : id \in ConsumedIds(t) /\ ~Processed(n, t)
      <3>1. id \notin unspent
        BY <2>9 DEF QueryTokens, RequestQueryTokens, ChaincodeTokens, HasState
      <3>2. id \in UnspentAt(n)
        BY <2>1, ExactAnswers
      <3>3. ProcessedAt(n) = {t \in settled : Processed(n, t)}
        BY <2>1, ProcessedAre
      <3>4. id \in unspent \cup spent
        BY <2>1, <3>2, <3>3 DEF UnspentAt, NetworkInv, LedgerOK
      <3>5. PICK t \in settled : id \in ConsumedIds(t)
        BY <2>1, <3>1, <3>4 DEF ChainInv
      <3>6. t \notin ProcessedAt(n)
        BY <3>2, <3>5 DEF UnspentAt
      <3> QED
        BY <3>3, <3>5, <3>6
    <2> DEFINE known == {t \in TxIds : records[db][t] # "none"}
    <2>10. \/ \E t \in known : RecordMismatch(n, db, t) /\ m = <<"record", t>>
           \/ \E t \in known \ envelope[n] : m = <<"envelope", t>>
           \/ \E t \in known \ transient[n] : m = <<"metadata", t>>
           \/ \E t \in known : LedgerMismatch(n, db, t) /\ m = <<"ledger", t>>
           \/ \E id \in UnspentTokens(n) : ~QueryTokens(NetworkOf[id[1]], {id}) /\ m = <<"token", id>>
      BY DEF CheckTTXDB
    <2> HIDE DEF n, unsent
    <2>11. CASE \E t \in known : RecordMismatch(n, db, t) /\ m = <<"record", t>>
      <3>1. m[1] = "record" /\ (m[2] \in notices[db] \/ unsent(m[2]))
        BY <2>7, <2>11
      <3> QED
        BY <3>1 DEF unsent
    <2>12. CASE \E t \in known \ envelope[n] : m = <<"envelope", t>>
      <3>1. m[1] = "envelope" /\ unsent(m[2])
        BY <2>2, <2>12
      <3> QED
        BY <3>1 DEF unsent
    <2>13. CASE \E t \in known \ transient[n] : m = <<"metadata", t>>
      <3>1. m[1] = "metadata" /\ unsent(m[2])
        BY <2>2, <2>13
      <3> QED
        BY <3>1 DEF unsent
    <2>14. CASE \E t \in known : LedgerMismatch(n, db, t) /\ m = <<"ledger", t>>
      <3>1. m[1] = "ledger" /\ Status(n, m[2]) = "Busy" /\ Ordered(m[2])
        BY <2>8, <2>14
      <3> QED
        BY <3>1 DEF n
    <2>15. CASE \E id \in UnspentTokens(n) : ~QueryTokens(NetworkOf[id[1]], {id}) /\ m = <<"token", id>>
      <3>1. m[1] = "token" /\ \E t \in settled : m[2] \in ConsumedIds(t) /\ ~Processed(n, t)
        BY <2>9, <2>15
      <3> QED
        BY <3>1 DEF n
    <2> QED
      BY <2>10, <2>11, <2>12, <2>13, <2>14, <2>15
  <1> QED
    BY <1>1, KnowInductive, FollowInductive, RecordsInductive, PTL

-----------------------------------------------------------------------------
\* Who loses a race for a token.

\* All views of a transaction get on, but for the auditor's, and its tokens were
\* selected and not freed by the collector.
Unfailing(t) ==
    /\ View[t] # "prepared"
    /\ t \notin robbed
    /\ \A v \in failed : v[1] = t => v[2] = "auditor"

Rejected(t) == Ordered(t) /\ t \notin settled

\* The view that has a transaction approved.
Approver(t) == IF OnOrion(t) THEN "approver" ELSE "initiator"

\* The views that select the tokens they pay with.
Selectors(t) == IF View[t] = "prepared" THEN {} ELSE Payers(t)

\* What was approved had inputs, and what a view saw become final is.
SeenOK ==
    \A t \in TxIds \ InGenesis :
        /\ Sent(t, Approver(t), "approval") => ConsumedIds(t) \subseteq unspent \cup spent
        /\ \A r \in Selectors(t) :
              Sent(t, r, "final") => Processed(NodeOf(t, r), t) /\ t \in settled

\* A transaction holds its inputs of a node until the node knows the outcome.
Holds(t, n) == \A id \in InputsAt(t, n) : locks[n][id] = t

KeepsLocks ==
    \A t \in TxIds \ InGenesis : \A r \in Selectors(t) :
        Unfailing(t) /\ Sent(t, r, "select") =>
            Holds(t, NodeOf(t, r)) \/ Processed(NodeOf(t, r), t)

\* Two transactions that selected the same token: the first was rejected before the
\* second got it.
Excluded ==
    \A t, u \in TxIds \ InGenesis : \A r \in Selectors(t), s \in Selectors(u) :
        /\ t # u /\ Unfailing(t) /\ Unfailing(u)
        /\ Sent(t, r, "select") /\ Sent(u, s, "select")
        /\ NodeOf(t, r) = NodeOf(u, s)
        /\ \E id \in ConsumedIds(t) \cap ConsumedIds(u) : IsMine(NodeOf(t, r), id)
        => Rejected(t) \/ Rejected(u)

\* A transaction that was rejected lost to another, and one of the two is to blame.
Blamed ==
    \A t \in TxIds : Rejected(t) =>
        \E u \in settled : /\ ConsumedIds(t) \cap ConsumedIds(u) # {}
                           /\ ~(Unfailing(t) /\ Unfailing(u))

RaceInv == InGenesis \subseteq settled /\ SeenOK /\ KeepsLocks /\ Excluded /\ Blamed

\* What selects has its program.
LEMMA SelectorSteps ==
    ASSUME NEW t \in TxIds, NEW r \in Selectors(t)
    PROVE  /\ r \in Roles /\ r # "auditor"
           /\ {"select", "final"} \subseteq Range(Program[t][r])
           /\ "prepared" \notin Range(Program[t][r])
           /\ NodeOf(t, r) \in Nodes
  <1>1. View[t] # "prepared" /\ r \in Payers(t)
    BY DEF Selectors
  <1>2. View[t] # "issue" /\ (r = "initiator" \/ (r = "party" /\ View[t] = "swap"))
    BY <1>1 DEF Payers
  <1>3. r \in Roles /\ r # "auditor"
    BY <1>2 DEF Roles
  <1>4. {"select", "final"} \subseteq Range(Program[t][r]) /\ "prepared" \notin Range(Program[t][r])
    <2>1. CASE r = "initiator"
      BY <1>1, <1>2, <2>1, InitiatorSteps
    <2>2. CASE r = "party" /\ View[t] = "swap"
      BY <2>2, PartySteps DEF Precedes
    <2> QED
      BY <1>2, <2>1, <2>2
  <1>5. NodeOf(t, r) \in Nodes
    BY <1>3, <1>4, StoringNode
  <1> QED
    BY <1>3, <1>4, <1>5

LEMMA ApproverSteps ==
    ASSUME NEW t \in TxIds
    PROVE  Approver(t) \in Roles /\ "approval" \in Range(Program[t][Approver(t)])
  <1>1. CASE OnOrion(t)
    <2>1. Program[t]["approver"] = <<"approval request", "approval">>
      BY <1>1, ProgramOf DEF OfCustodian, RequestApprovalResponderView
    <2>2. "approval" \in Range(<<"approval request", "approval">>)
      <3>1. "approval request" \in Steps /\ "approval" \in Steps \ {"approval request"}
        BY DEF Steps
      <3>2. PICK a, b : a = "approval request" /\ b = "approval"
        OBVIOUS
      <3>3. Range(<<a, b>>) = {a, b}
        BY <3>1, <3>2, TwoSteps
      <3> QED
        BY <3>2, <3>3
    <2> QED
      BY <1>1, <2>1, <2>2 DEF Approver, Roles, CustodianRoles
  <1>2. CASE ~OnOrion(t)
    <2>1. "approval" \in Needed(t)
      BY <1>2 DEF Needed
    <2> QED
      BY <1>2, <2>1, InitiatorSteps DEF Approver, Roles, Precedes
  <1> QED
    BY <1>1, <1>2

\* What can be ordered was approved when its inputs existed.
LEMMA InputsExist ==
    ASSUME KnowInv, SeenOK, NEW t \in TxIds \ InGenesis, t \in submitted \/ Ordered(t)
    PROVE  ConsumedIds(t) \subseteq unspent \cup spent
  <1>1. \A a \in Needed(t) : Sent(t, "initiator", a)
    BY DEF KnowInv, SubmittedOK
  <1>2. Sent(t, Approver(t), "approval")
    <2>1. CASE OnOrion(t)
      <3>1. "approved" \in Needed(t) /\ "initiator" \in Roles
        BY <2>1 DEF Needed, Roles
      <3>2. "approved" \in Range(Program[t]["initiator"])
        BY <3>1, InitiatorSteps DEF Precedes
      <3>3. Effective(t, "initiator", "approved")
        BY <1>1, <3>1, <3>2 DEF KnowInv, EffectsOK
      <3>4. <<"initiator", "approved", "approver", "approval">> \in Awaited
        BY DEF Awaited
      <3> QED
        BY <2>1, <3>3, <3>4 DEF Effective, Approver
    <2>2. CASE ~OnOrion(t)
      BY <1>1, <2>2 DEF Needed, Approver
    <2> QED
      BY <2>1, <2>2
  <1> QED
    BY <1>2 DEF SeenOK

\* The kinds of steps.
LEMMA KindsOfSteps ==
    ASSUME KnowInv, [Next]_ttxVars
    PROVE  \/ \E t \in TxIds, r \in Roles :
                 /\ ~Ended(t, r) /\ Advance(t, r)
                 /\ UNCHANGED <<unspent, spent, settled, chain, height, failed, robbed>>
                 /\ Head(todo[t][r]) # "select" => UNCHANGED locks
                 /\ Head(todo[t][r]) = "select" => Select(t, r)
                 /\ Head(todo[t][r]) = "approval" => requestApproval(t, r)
                 /\ Head(todo[t][r]) = "final" => Finality(t, r)
           \/ \E t \in TxIds, r \in Roles :
                 Fail(t, r) /\ UNCHANGED <<unspent, spent, settled, chain, height>>
           \/ \E t \in TxIds : Order(t) /\ UNCHANGED <<todo, failed, locks, robbed>>
           \/ \E n \in Nodes, k \in Networks :
                 Process(n, k) /\ UNCHANGED <<todo, failed, locks, robbed>>
           \/ \E n : Restart(n)
           \/ \E n \in Nodes : ScanFrees(n)
           \/ UNCHANGED <<unspent, spent, settled, chain, height, todo, failed, locks, robbed>>
  <1> DEFINE Goes(t, r) == /\ ~Ended(t, r) /\ Advance(t, r)
                           /\ UNCHANGED <<unspent, spent, settled, chain, height, failed, robbed>>
                           /\ Head(todo[t][r]) # "select" => UNCHANGED locks
                           /\ Head(todo[t][r]) = "select" => Select(t, r)
                           /\ Head(todo[t][r]) = "approval" => requestApproval(t, r)
                           /\ Head(todo[t][r]) = "final" => Finality(t, r)
             Fails(t, r) == Fail(t, r) /\ UNCHANGED <<unspent, spent, settled, chain, height>>
  <1>1. ASSUME NEW t \in TxIds, NEW r \in Roles, ~Ended(t, r), Act(t, r) PROVE Goes(t, r) \/ Fails(t, r)
    <2>1. CASE Select(t, r)
      <3>1. Head(todo[t][r]) = "select" /\ Advance(t, r) /\ UNCHANGED <<vaultVars, failed, robbed>>
        BY <2>1 DEF Select, At
      <3> QED
        BY <1>1, <2>1, <3>1 DEF vaultVars, networkVars
    <2>2. CASE requestApproval(t, r)
      <3>1. Head(todo[t][r]) = "approval" /\ Advance(t, r) /\ UNCHANGED <<vaultVars, failed, locks, robbed>>
        BY <2>2 DEF requestApproval, At, lockVars
      <3> QED
        BY <1>1, <2>2, <3>1 DEF vaultVars, networkVars
    <2>3. CASE Finality(t, r)
      <3>1. Head(todo[t][r]) = "final" /\ Advance(t, r) /\ UNCHANGED <<vaultVars, failed, locks, robbed>>
        BY <2>3 DEF Finality, At, lockVars
      <3> QED
        BY <1>1, <2>3, <3>1 DEF vaultVars, networkVars
    <2>4. CASE \/ Gather(t, r) \/ CheckQuota(t, r) \/ Exchange(t, r) \/ Audit(t, r)
               \/ CheckBusy(t, r) \/ Resume(t, r)
      <3>1. /\ Head(todo[t][r]) \notin {"select", "approval", "final"}
            /\ Advance(t, r) /\ UNCHANGED <<vaultVars, failed, locks, robbed>>
        BY <2>4 DEF Gather, CheckQuota, Exchange, Exchanges, Audit, CheckBusy, Resume, At, lockVars
      <3> QED
        BY <1>1, <3>1 DEF vaultVars, networkVars
    <2>5. CASE \/ storeTransient(t, r) \/ StoreEnvelope(t, r)
               \/ StoreTransactionRecords(t, r) \/ AppendAuditRecords(t, r)
      <3>1. /\ Head(todo[t][r]) \notin {"select", "approval", "final"}
            /\ Advance(t, r) /\ UNCHANGED <<networkVars, height, failed, locks, robbed>>
        BY <2>5 DEF storeTransient, StoreEnvelope, StoreTransactionRecords, AppendAuditRecords, At, lockVars
      <3> QED
        BY <1>1, <3>1 DEF networkVars
    <2>6. CASE Broadcast(t, r)
      <3>1. Head(todo[t][r]) = "broadcast" /\ UNCHANGED <<unspent, spent, settled, chain, height>>
            /\ (Fail(t, r) \/ (Advance(t, r) /\ UNCHANGED <<failed, locks, robbed>>))
        BY <2>6 DEF Broadcast, At, ledgerVars, lockVars
      <3> QED
        BY <1>1, <3>1
    <2> QED
      BY <1>1, <2>1, <2>2, <2>3, <2>4, <2>5, <2>6 DEF Act
  <1>2. ASSUME NEW t \in TxIds, NEW r \in Roles, GiveUp(t, r) \/ Timeout(t, r) PROVE Fails(t, r)
    BY <1>2 DEF GiveUp, Timeout, vaultVars, networkVars
  <1>3. ASSUME NEW db, NEW t, OnStatusChange(db, t), UNCHANGED <<viewVars, boundVars>>
        PROVE  UNCHANGED <<unspent, spent, settled, chain, height, todo, failed, locks, robbed>>
    BY <1>3 DEF OnStatusChange, networkVars, viewVars, lockVars
  <1>4. UNCHANGED <<viewVars, boundVars>> => UNCHANGED <<todo, failed, locks, robbed>>
    BY DEF viewVars, lockVars
  <1>5. UNCHANGED ttxVars => UNCHANGED <<unspent, spent, settled, chain, height, todo, failed, locks, robbed>>
    BY DEF ttxVars, vaultVars, networkVars, viewVars, lockVars
  <1> HIDE DEF Goes, Fails
  <1>6. CASE Next
    <2>1. CASE \E t \in TxIds : \E r \in {s \in Roles : ~Ended(t, s)} : Act(t, r) \/ GiveUp(t, r) \/ Timeout(t, r)
      <3>1. \E t \in TxIds, r \in Roles : Goes(t, r) \/ Fails(t, r)
        BY <1>1, <1>2, <2>1
      <3> QED
        BY <3>1 DEF Goes, Fails
    <2>2. CASE \E t \in TxIds : Order(t) /\ UNCHANGED <<viewVars, boundVars>>
      BY <1>4, <2>2
    <2>3. CASE \E n \in Nodes, k \in Networks : Process(n, k) /\ UNCHANGED <<viewVars, boundVars>>
      BY <1>4, <2>3
    <2>4. CASE \E db \in DBs, t \in TxIds : OnStatusChange(db, t) /\ UNCHANGED <<viewVars, boundVars>>
      BY <1>3, <2>4
    <2>5. CASE \E n \in Nodes \cup {TheCustodian} : Restart(n)
      BY <2>5
    <2>6. CASE \E n \in Nodes : ScanLists(n) \/ ScanFrees(n)
      <3>1. ASSUME NEW n, ScanLists(n)
            PROVE  UNCHANGED <<unspent, spent, settled, chain, height, todo, failed, locks, robbed>>
        BY <3>1 DEF ScanLists, vaultVars, networkVars
      <3> QED
        BY <2>6, <3>1
    <2> QED
      BY <1>6, <2>1, <2>2, <2>3, <2>4, <2>5, <2>6 DEF Next, TtxNext
  <1> QED
    BY <1>5, <1>6

\* What every step leaves as it was, and which step it takes to change the rest.
LEMMA LedgerOnwards ==
    ASSUME KnowInv, VaultInv, [Next]_ttxVars
    PROVE  /\ settled \subseteq settled'
           /\ unspent \cup spent \subseteq unspent' \cup spent'
           /\ \A n \in Nodes, t \in TxIds : Processed(n, t) => Processed(n, t)'
           /\ \A t \in TxIds : Rejected(t) => Rejected(t)'
           /\ \A t \in TxIds : Rejected(t)' => Rejected(t) \/ Order(t)
  <1>1. NetworkInv
    BY DEF VaultInv
  <1>2. CASE UNCHANGED <<unspent, spent, settled, chain, height>>
    BY <1>2 DEF Processed, Rejected, Ordered
  <1>3. ASSUME NEW t \in TxIds, Order(t)
        PROVE  /\ settled \subseteq settled'
               /\ unspent \cup spent \subseteq unspent' \cup spent'
               /\ \A n \in Nodes, u \in TxIds : Processed(n, u) => Processed(n, u)'
               /\ \A u \in TxIds : Rejected(u) => Rejected(u)'
               /\ \A u \in TxIds : Rejected(u)' => Rejected(u) \/ Order(u)
    <2>1. /\ ~Ordered(t)
          /\ \A u \in TxIds : Ordered(u)' <=> Ordered(u) \/ u = t
          /\ \A n \in Nodes, u \in TxIds : Processed(n, u)' <=> Processed(n, u)
          /\ unspent \cup spent \subseteq unspent' \cup spent'
          /\ settled' = IF ConsumedIds(t) \subseteq unspent THEN settled \cup {t} ELSE settled
      BY <1>1, <1>3, OrderEffect
    <2>2. settled \subseteq settled' /\ settled' \subseteq settled \cup {t}
      BY <2>1
    <2> QED
      BY <1>3, <2>1, <2>2 DEF Rejected
  <1>4. ASSUME NEW n \in Nodes, NEW k \in Networks, Process(n, k)
        PROVE  /\ UNCHANGED <<unspent, spent, settled, chain>>
               /\ \A m \in Nodes, u \in TxIds : Processed(m, u) => Processed(m, u)'
    <2>1. /\ \A m \in Nodes \ {n}, u \in TxIds : Processed(m, u)' <=> Processed(m, u)
          /\ \A u \in TxIds : Processed(n, u) => Processed(n, u)'
      BY <1>1, <1>4, ProcessEffect
    <2> QED
      BY <1>4, <2>1 DEF Process, networkVars
  <1>5. (\E n \in Nodes, k \in Networks : Process(n, k)) =>
            /\ UNCHANGED <<unspent, spent, settled, chain>>
            /\ \A m \in Nodes, u \in TxIds : Processed(m, u) => Processed(m, u)'
    BY <1>4
  <1>6. CASE \E n \in Nodes, k \in Networks : Process(n, k)
    BY <1>5, <1>6 DEF Rejected, Ordered
  <1>7. ASSUME NEW n, Restart(n) PROVE UNCHANGED <<unspent, spent, settled, chain, height>>
    BY <1>7 DEF Restart, networkVars
  <1>8. \/ UNCHANGED <<unspent, spent, settled, chain, height>>
        \/ \E t \in TxIds : Order(t)
        \/ \E n \in Nodes, k \in Networks : Process(n, k)
        \/ \E n : Restart(n)
        \/ \E n : ScanFrees(n)
    BY KindsOfSteps
  <1>9. ASSUME NEW n, ScanFrees(n) PROVE UNCHANGED <<unspent, spent, settled, chain, height>>
    BY <1>9 DEF ScanFrees, vaultVars, networkVars
  <1> QED
    BY <1>2, <1>3, <1>6, <1>7, <1>8, <1>9

LEMMA ViewsOnwards ==
    ASSUME KnowInv, [Next]_ttxVars
    PROVE  /\ failed \subseteq failed' /\ robbed \subseteq robbed'
           /\ \A t \in TxIds : Unfailing(t)' => Unfailing(t)
           /\ \A t \in TxIds, r \in Roles :
                 /\ Sent(t, r, "select")' => Sent(t, r, "select") \/ Select(t, r)
                 /\ Sent(t, r, "approval")' => Sent(t, r, "approval") \/ requestApproval(t, r)
                 /\ Sent(t, r, "final")' => Sent(t, r, "final") \/ Finality(t, r)
  <1>1. TodoOK
    BY DEF KnowInv
  <1>2. failed \subseteq failed' /\ robbed \subseteq robbed' => \A t \in TxIds : Unfailing(t)' => Unfailing(t)
    BY DEF Unfailing
  <1>3. UNCHANGED todo => \A t, r, a : Sent(t, r, a)' <=> Sent(t, r, a)
    BY DEF Sent
  <1>4. ASSUME NEW t \in TxIds, NEW r \in Roles, ~Ended(t, r), Advance(t, r), UNCHANGED failed,
               Head(todo[t][r]) = "select" => Select(t, r),
               Head(todo[t][r]) = "approval" => requestApproval(t, r),
               Head(todo[t][r]) = "final" => Finality(t, r)
        PROVE  \A u \in TxIds, s \in Roles :
                 /\ Sent(u, s, "select")' => Sent(u, s, "select") \/ Select(u, s)
                 /\ Sent(u, s, "approval")' => Sent(u, s, "approval") \/ requestApproval(u, s)
                 /\ Sent(u, s, "final")' => Sent(u, s, "final") \/ Finality(u, s)
    <2>1. \A u \in TxIds, s \in Roles : \A a :
                 Sent(u, s, a)' /\ ~Sent(u, s, a) => u = t /\ s = r /\ a = Head(todo[t][r])
      BY <1>1, <1>4, AdvanceEffect
    <2> QED
      BY <1>4, <2>1
  <1> DEFINE More == failed \subseteq failed' /\ robbed \subseteq robbed'
  <1>5. ASSUME NEW t, NEW r, Fail(t, r) PROVE More /\ UNCHANGED todo
    BY <1>5 DEF Fail, Release
  <1>6. ASSUME NEW n, Restart(n) \/ ScanFrees(n) PROVE More /\ UNCHANGED todo
    BY <1>6 DEF Restart, ScanFrees
  <1>7. \/ \E t \in TxIds, r \in Roles :
              /\ ~Ended(t, r) /\ Advance(t, r) /\ UNCHANGED <<failed, robbed>>
              /\ Head(todo[t][r]) = "select" => Select(t, r)
              /\ Head(todo[t][r]) = "approval" => requestApproval(t, r)
              /\ Head(todo[t][r]) = "final" => Finality(t, r)
        \/ More /\ UNCHANGED todo
    BY <1>5, <1>6, KindsOfSteps
  <1>8. CASE \E t \in TxIds, r \in Roles :
              /\ ~Ended(t, r) /\ Advance(t, r) /\ UNCHANGED <<failed, robbed>>
              /\ Head(todo[t][r]) = "select" => Select(t, r)
              /\ Head(todo[t][r]) = "approval" => requestApproval(t, r)
              /\ Head(todo[t][r]) = "final" => Finality(t, r)
    <2>1. PICK t \in TxIds, r \in Roles :
              /\ ~Ended(t, r) /\ Advance(t, r) /\ UNCHANGED <<failed, robbed>>
              /\ Head(todo[t][r]) = "select" => Select(t, r)
              /\ Head(todo[t][r]) = "approval" => requestApproval(t, r)
              /\ Head(todo[t][r]) = "final" => Finality(t, r)
      BY <1>8
    <2>2. More
      BY <2>1
    <2> QED
      BY <1>2, <1>4, <2>1, <2>2
  <1>9. CASE More /\ UNCHANGED todo
    BY <1>2, <1>3, <1>9
  <1> QED
    BY <1>7, <1>8, <1>9

LEMMA SeenStays ==
    ASSUME KnowInv, VaultInv, SeenOK, [Next]_ttxVars
    PROVE  SeenOK'
  <1> SUFFICES ASSUME NEW t \in TxIds \ InGenesis
               PROVE  /\ Sent(t, Approver(t), "approval")' => ConsumedIds(t) \subseteq unspent' \cup spent'
                      /\ \A r \in Selectors(t) :
                            Sent(t, r, "final")' => Processed(NodeOf(t, r), t)' /\ t \in settled'
    BY DEF SeenOK
  <1>1. /\ settled \subseteq settled' /\ unspent \cup spent \subseteq unspent' \cup spent'
        /\ \A n \in Nodes, u \in TxIds : Processed(n, u) => Processed(n, u)'
    BY LedgerOnwards
  <1>2. ASSUME Sent(t, Approver(t), "approval")'
        PROVE  ConsumedIds(t) \subseteq unspent' \cup spent'
    <2>1. Sent(t, Approver(t), "approval") \/ requestApproval(t, Approver(t))
      BY <1>2, ApproverSteps, ViewsOnwards
    <2>2. ASSUME requestApproval(t, Approver(t)) PROVE ConsumedIds(t) \subseteq unspent
      BY <2>2 DEF requestApproval, Approves, HasState
    <2> QED
      BY <1>1, <2>1, <2>2 DEF SeenOK
  <1>3. ASSUME NEW r \in Selectors(t), Sent(t, r, "final")'
        PROVE  Processed(NodeOf(t, r), t)' /\ t \in settled'
    <2>1. r \in Roles /\ NodeOf(t, r) \in Nodes
      BY SelectorSteps
    <2>2. Sent(t, r, "final") \/ Finality(t, r)
      BY <1>3, <2>1, ViewsOnwards
    <2>3. ASSUME Finality(t, r) PROVE Processed(NodeOf(t, r), t) /\ t \in settled
      <3>1. Status(NodeOf(t, r), t) = "Valid"
        BY <2>3 DEF Finality
      <3> QED
        BY <3>1 DEF Status
    <2>4. Processed(NodeOf(t, r), t) /\ t \in settled
      BY <2>2, <2>3 DEF SeenOK
    <2> QED
      BY <1>1, <2>1, <2>4
  <1> QED
    BY <1>2, <1>3

\* Locks are lost by failing or to the collector, and taken over from a transaction
\* that is known to be rejected.
LEMMA LocksStay ==
    ASSUME KnowInv, SeenOK, [Next]_ttxVars, NEW t \in TxIds \ InGenesis, NEW r \in Selectors(t),
           Unfailing(t)', Sent(t, r, "select"), Holds(t, NodeOf(t, r))
    PROVE  (\A id \in InputsAt(t, NodeOf(t, r)) : locks'[NodeOf(t, r)][id] = t)
               \/ Processed(NodeOf(t, r), t)
  <1> DEFINE n == NodeOf(t, r)
  <1>1. /\ r \in Roles /\ r # "auditor" /\ n \in Nodes /\ Program[t][r] \in Seq(Steps)
        /\ {"select", "final"} \subseteq Range(Program[t][r]) /\ "prepared" \notin Range(Program[t][r])
    BY SelectorSteps, ProgramFacts
  <1>2. n # AuditorNode
    BY ViewsAssumption DEF Selectors
  <1>3. NodeOf(t, "auditor") = AuditorNode
    BY DEF NodeOf, CustodianRoles
  <1> DEFINE ids == InputsAt(t, n)
             stays == \A id \in ids : locks'[n][id] = t
  <1> HIDE DEF n
  <1>0. /\ ids \subseteq Inputs /\ \A id \in ids : locks[n][id] = t
        /\ locks \in [Nodes -> [Inputs -> TxIds \cup {Free}]]
    BY DEF InputsAt, Inputs, Holds, n, KnowInv, ViewsOK, LocksOK
  <1> HIDE DEF ids
  <1>4. ASSUME NEW u \in TxIds, NEW s \in Roles, Fail(u, s) PROVE stays
    <2>1. /\ <<u, s>> \in failed'
          /\ locks' = [m \in Nodes |-> [id \in Inputs |->
                          IF m = NodeOf(u, s) /\ locks[m][id] = u THEN Free ELSE locks[m][id]]]
      BY <1>4 DEF Fail, Release
    <2>2. u # t \/ n # NodeOf(u, s)
      <3> SUFFICES ASSUME u = t PROVE n # NodeOf(u, s)
        OBVIOUS
      <3>1. s = "auditor"
        BY <2>1 DEF Unfailing
      <3> QED
        BY <1>2, <1>3, <3>1
    <2> QED
      BY <1>0, <1>1, <2>1, <2>2
  <1>5. ASSUME NEW m, Restart(m) PROVE stays \/ Processed(n, t)
    <2>1. /\ locks' = [j \in Nodes |-> IF j = m THEN [id \in Inputs |-> Free] ELSE locks[j]]
          /\ failed' = failed \cup {v \in Views : /\ NodeOf(v[1], v[2]) = m
                                                  /\ Running(v[1], v[2])
                                                  /\ ~At(v[1], v[2], "prepared")}
      BY <1>5 DEF Restart
    <2>2. CASE m # n
      BY <1>0, <1>1, <2>1, <2>2
    <2>3. CASE m = n
      <3>1. <<t, r>> \notin failed'
        BY <1>1 DEF Unfailing
      <3>2. <<t, r>> \in Views /\ <<t, r>> \notin failed
        BY <1>1, <2>1, <3>1 DEF Views
      <3>3. ~Running(t, r) \/ At(t, r, "prepared")
        <4>1. SUFFICES ASSUME Running(t, r), ~At(t, r, "prepared") PROVE <<t, r>> \in failed'
          BY <3>1
        <4> QED
          BY <2>1, <2>3, <3>2, <4>1 DEF n
      <3>4. Started(t, r)
        BY <1>1 DEF Started, Sent
      <3>5. ~At(t, r, "prepared")
        BY <1>1, NextStep DEF KnowInv, At
      <3>6. todo[t][r] = << >>
        BY <3>2, <3>3, <3>4, <3>5 DEF Running, Ended
      <3>7. Sent(t, r, "final")
        BY <3>6, NoStep DEF Sent
      <3> QED
        BY <3>7 DEF SeenOK, n
    <2> QED
      BY <2>2, <2>3
  <1>6. ASSUME NEW u \in TxIds, NEW s \in Roles, Select(u, s) PROVE stays \/ Processed(n, t)
    <2>1. /\ locks' = [locks EXCEPT ![NodeOf(u, s)] =
                         [id \in Inputs |-> IF id \in InputsAt(u, NodeOf(u, s)) THEN u ELSE @[id]]]
          /\ Selectable(u, NodeOf(u, s))
      BY <1>6 DEF Select
    <2>2. CASE u = t \/ NodeOf(u, s) # n \/ ids \cap InputsAt(u, n) = {}
      BY <1>0, <1>1, <2>1, <2>2
    <2>3. CASE u # t /\ NodeOf(u, s) = n /\ ids \cap InputsAt(u, n) # {}
      <3>1. PICK id \in ids \cap InputsAt(u, n) : ~HeldByOther(u, n, id)
        BY <2>1, <2>3 DEF Selectable
      <3>2. Status(n, t) = "Invalid"
        BY <1>0, <2>3, <3>1, TtxAssumption DEF HeldByOther
      <3> QED
        BY <3>2 DEF Status
    <2> QED
      BY <2>2, <2>3
  <1>7. ASSUME NEW m \in Nodes, ScanFrees(m) PROVE stays \/ Processed(n, t)
    <2>1. /\ locks' = [locks EXCEPT ![m] = [id \in Inputs |-> IF id \in collected[m] THEN Free ELSE @[id]]]
          /\ robbed' = robbed \cup {u \in TxIds : /\ ~IsFinal(m, u)
                                                /\ \E id \in collected[m] : locks[m][id] = u}
      BY <1>7 DEF ScanFrees
    <2>2. CASE m # n \/ ids \cap collected[n] = {}
      BY <1>0, <1>1, <2>1, <2>2
    <2>3. CASE m = n /\ ids \cap collected[n] # {}
      <3>1. t \notin robbed'
        BY DEF Unfailing
      <3>2. IsFinal(n, t)
        BY <1>0, <2>1, <2>3, <3>1
      <3> QED
        BY <3>2 DEF IsFinal, Status
    <2> QED
      BY <2>2, <2>3
  <1>8. UNCHANGED locks => stays
    BY <1>0
  <1>9. \/ UNCHANGED locks
        \/ \E u \in TxIds, s \in Roles : Fail(u, s) \/ Select(u, s)
        \/ \E m : Restart(m)
        \/ \E m \in Nodes : ScanFrees(m)
    BY KindsOfSteps
  <1> QED
    <2>1. stays \/ Processed(n, t)
      BY <1>4, <1>5, <1>6, <1>7, <1>8, <1>9
    <2> QED
      BY <2>1 DEF n, ids

LEMMA KeepsStays ==
    ASSUME KnowInv, VaultInv, SeenOK, KeepsLocks, [Next]_ttxVars
    PROVE  KeepsLocks'
  <1> SUFFICES ASSUME NEW t \in TxIds \ InGenesis, NEW r \in Selectors(t),
                      Unfailing(t)', Sent(t, r, "select")'
               PROVE  (\A id \in InputsAt(t, NodeOf(t, r)) : locks'[NodeOf(t, r)][id] = t)
                          \/ Processed(NodeOf(t, r), t)'
    BY DEF KeepsLocks, Holds, InputsAt, IsMine, ConsumedIds
  <1>1. r \in Roles /\ NodeOf(t, r) \in Nodes
    BY SelectorSteps
  <1>2. Unfailing(t) /\ (Sent(t, r, "select") \/ Select(t, r))
    BY <1>1, ViewsOnwards
  <1>3. Processed(NodeOf(t, r), t) => Processed(NodeOf(t, r), t)'
    BY <1>1, LedgerOnwards
  <1>4. CASE Select(t, r)
    <2>1. /\ locks' = [locks EXCEPT ![NodeOf(t, r)] =
                         [id \in Inputs |-> IF id \in InputsAt(t, NodeOf(t, r)) THEN t ELSE @[id]]]
          /\ locks \in [Nodes -> [Inputs -> TxIds \cup {Free}]]
      BY <1>4 DEF Select, KnowInv, ViewsOK, LocksOK
    <2>2. InputsAt(t, NodeOf(t, r)) \subseteq Inputs
      BY DEF InputsAt, Inputs
    <2> QED
      BY <1>1, <2>1, <2>2
  <1>5. CASE Sent(t, r, "select")
    BY <1>2, <1>3, <1>5, LocksStay DEF KeepsLocks
  <1> QED
    BY <1>2, <1>4, <1>5

\* The selector passes over what another transaction holds, and does not find what
\* another spent.
LEMMA SelectedApart ==
    ASSUME KnowInv, VaultInv, FollowInv, KeepsLocks,
           NEW t \in TxIds, NEW r \in Selectors(t), Select(t, r),
           NEW u \in TxIds \ InGenesis, NEW s \in Selectors(u), u # t,
           Unfailing(u), Sent(u, s, "select"), NodeOf(u, s) = NodeOf(t, r),
           NEW id \in ConsumedIds(t) \cap ConsumedIds(u), IsMine(NodeOf(t, r), id)
    PROVE  Rejected(u)
  <1> DEFINE n == NodeOf(t, r)
  <1>1. n \in Nodes /\ NetworkInv /\ ChainInv /\ TokensOK(n)
    BY SelectorSteps DEF VaultInv, FollowInv, StoresExact
  <1>2. Selectable(t, n) /\ id \in InputsAt(t, n) /\ id \in InputsAt(u, n)
    BY DEF Select, InputsAt
  <1>3. Listed(n, id) /\ ~HeldByOther(t, n, id)
    BY <1>2 DEF Selectable
  <1>4. Holds(u, n) \/ Processed(n, u)
    BY DEF KeepsLocks
  <1> HIDE DEF n
  <1>5. CASE Holds(u, n)
    <2>1. Status(n, u) = "Invalid"
      BY <1>2, <1>3, <1>5, TtxAssumption DEF HeldByOther, Holds
    <2>2. Processed(n, u) /\ u \notin settled
      BY <2>1 DEF Status
    <2> QED
      BY <1>1, <2>2, ProcessedIsOrdered DEF Rejected
  <1>7. CASE Processed(n, u) /\ u \notin settled
    BY <1>1, <1>7, ProcessedIsOrdered DEF Rejected
  <1>6. CASE Processed(n, u) /\ u \in settled
    <2>1. PICK w : id \in ListTokens(n, w, TokenOf(id).type)
      BY <1>3 DEF Listed
    <2>2. id \in UnspentAt(n)
      <3>1. \A v, typ : ListTokens(n, v, typ) \subseteq UnspentAt(n)
        <4>1. \A v, typ : ListTokens(n, v, typ) =
                  {i \in {j \in UnspentAt(n) : Keeps(n, j)} : /\ v \in WalletIdsOf(n, TokenOf(i).owner)
                                                             /\ typ \in {AnyType, TokenOf(i).type}}
          BY <1>1, ExactAnswers
        <4> QED
          BY <4>1
      <3> QED
        BY <2>1, <3>1
    <2>3. u \in ProcessedAt(n)
      BY <1>1, <1>6, ProcessedAre
    <2> QED
      BY <2>2, <2>3 DEF UnspentAt
  <1> QED
    BY <1>4, <1>5, <1>6, <1>7

LEMMA ExcludedStays ==
    ASSUME KnowInv, VaultInv, FollowInv, KeepsLocks, Excluded, [Next]_ttxVars
    PROVE  Excluded'
  <1> SUFFICES ASSUME NEW t \in TxIds \ InGenesis, NEW u \in TxIds \ InGenesis,
                      NEW r \in Selectors(t), NEW s \in Selectors(u),
                      t # u, Unfailing(t)', Unfailing(u)',
                      Sent(t, r, "select")', Sent(u, s, "select")', NodeOf(t, r) = NodeOf(u, s),
                      NEW id \in ConsumedIds(t) \cap ConsumedIds(u), IsMine(NodeOf(t, r), id)
               PROVE  Rejected(t)' \/ Rejected(u)'
    BY DEF Excluded
  <1>1. r \in Roles /\ s \in Roles
    BY SelectorSteps
  <1>2. /\ Unfailing(t) /\ Unfailing(u)
        /\ Sent(t, r, "select") \/ Select(t, r)
        /\ Sent(u, s, "select") \/ Select(u, s)
    BY <1>1, ViewsOnwards
  <1>3. ~(Select(t, r) /\ Select(u, s) /\ ~Sent(t, r, "select") /\ ~Sent(u, s, "select"))
    <2> SUFFICES ASSUME Select(t, r), ~Sent(u, s, "select") PROVE FALSE
      OBVIOUS
    <2>1. ~Ended(t, r) /\ Advance(t, r) /\ TodoOK
      BY DEF Select, At, KnowInv
    <2>2. Sent(u, s, "select")' /\ ~Sent(u, s, "select") => u = t
      BY <1>1, <2>1, AdvanceEffect
    <2> QED
      BY <2>2
  <1>4. Rejected(t) \/ Rejected(u)
    <2>1. CASE Sent(t, r, "select") /\ Sent(u, s, "select")
      BY <1>2, <2>1 DEF Excluded
    <2>2. CASE Select(t, r) /\ Sent(u, s, "select")
      BY <1>2, <2>2, SelectedApart
    <2>3. CASE Sent(t, r, "select") /\ Select(u, s)
      BY <1>2, <2>3, SelectedApart
    <2> QED
      BY <1>2, <1>3, <2>1, <2>2, <2>3
  <1> QED
    BY <1>4, LedgerOnwards

\* A transaction is rejected when it is ordered, for a token that another spent.
LEMMA BlamedStays ==
    ASSUME KnowInv, VaultInv, FollowInv, RaceInv, [Next]_ttxVars
    PROVE  Blamed'
  <1> SUFFICES ASSUME NEW t \in TxIds, Rejected(t)'
               PROVE  \E u \in settled' : /\ ConsumedIds(t) \cap ConsumedIds(u) # {}
                                          /\ ~(Unfailing(t)' /\ Unfailing(u)')
    BY DEF Blamed
  <1>1. NetworkInv /\ ChainInv /\ SeenOK /\ Excluded /\ InGenesis \subseteq settled
    BY DEF VaultInv, FollowInv, RaceInv
  <1>2. settled \subseteq settled' /\ settled \subseteq TxIds /\ (Rejected(t) \/ Order(t))
    BY <1>1, LedgerOnwards DEF NetworkInv, LedgerOK
  <1>3. \A u \in TxIds : Unfailing(u)' => Unfailing(u)
    BY ViewsOnwards
  <1>4. CASE Rejected(t)
    BY <1>2, <1>3, <1>4 DEF RaceInv, Blamed
  <1>5. CASE Order(t)
    <2>1. /\ t \in submitted /\ ~Ordered(t)
          /\ settled' = IF ConsumedIds(t) \subseteq unspent THEN settled \cup {t} ELSE settled
      BY <1>1, <1>5, OrderEffect DEF Order
    <2>2. t \notin settled' /\ ~(ConsumedIds(t) \subseteq unspent)
      BY <2>1 DEF Rejected
    <2>3. t \in TxIds \ InGenesis
      BY <1>1, <2>1 DEF NetworkInv, LedgerOK
    <2>4. PICK id \in ConsumedIds(t) : id \in spent
      BY <1>1, <2>1, <2>2, <2>3, InputsExist
    <2>5. PICK u \in settled : id \in ConsumedIds(u)
      BY <1>1, <2>4 DEF ChainInv
    <2>6. u \in TxIds /\ Ordered(u) /\ u # t /\ ~Rejected(u) /\ ~Rejected(t)
      BY <1>1, <2>1, <2>2, <1>2 DEF NetworkInv, LedgerOK, Rejected
    <2>7. u \notin InGenesis
      <3>1. \A v \in InGenesis : InputsOf(v) = {}
        BY VaultAssumption DEF InGenesis
      <3> QED
        BY <2>5, <2>6, <3>1 DEF ConsumedIds, Consumed
    <2>8. ~(Unfailing(t) /\ Unfailing(u))
      <3> SUFFICES ASSUME Unfailing(t), Unfailing(u) PROVE FALSE
        OBVIOUS
      <3>1. PICK r \in Selectors(t) : NodesOf[TokenOf(id).owner] = {NodeOf(t, r)}
        BY <2>3, <2>4, ViewsAssumption DEF Unfailing, Selectors
      <3>2. PICK s \in Selectors(u) : NodesOf[TokenOf(id).owner] = {NodeOf(u, s)}
        BY <2>5, <2>6, <2>7, ViewsAssumption DEF Unfailing, Selectors
      <3>3. NodeOf(t, r) = NodeOf(u, s) /\ IsMine(NodeOf(t, r), id)
        BY <3>1, <3>2 DEF IsMine
      <3>4. Sent(t, r, "select")
        <4>1. r \in Roles /\ "select" \in Range(Program[t][r])
          BY SelectorSteps
        <4> QED
          BY <2>1, <2>3, <4>1, EveryoneDone
      <3>5. Sent(u, s, "select")
        <4>1. s \in Roles /\ "select" \in Range(Program[u][s])
          BY <2>6, SelectorSteps
        <4> QED
          BY <2>6, <2>7, <4>1, EveryoneDone
      <3> QED
        BY <1>1, <2>3, <2>4, <2>5, <2>6, <2>7, <3>3, <3>4, <3>5 DEF Excluded
    <2> QED
      BY <1>2, <1>3, <2>3, <2>4, <2>5, <2>6, <2>8
  <1> QED
    BY <1>2, <1>4, <1>5

LEMMA InitRace == Init => RaceInv
  <1> SUFFICES ASSUME Init PROVE RaceInv
    OBVIOUS
  <1>1. /\ settled = InGenesis /\ chain = Genesis
        /\ todo = [t \in TxIds |-> IF t \in InGenesis THEN [r \in Roles |-> << >>] ELSE Program[t]]
    BY DEF Init, TtxInit, VaultInit
  <1>2. ASSUME NEW t \in TxIds \ InGenesis, NEW r \in Roles, NEW a \in Range(Program[t][r])
        PROVE  ~Sent(t, r, a)
    BY <1>1 DEF Sent
  <1>3. \A t \in TxIds \ InGenesis : ~Sent(t, Approver(t), "approval")
    BY <1>2, ApproverSteps
  <1>4. \A t \in TxIds \ InGenesis : \A r \in Selectors(t) : ~Sent(t, r, "select") /\ ~Sent(t, r, "final")
    BY <1>2, SelectorSteps
  <1>5. SeenOK
    BY <1>3, <1>4 DEF SeenOK
  <1>6. KeepsLocks /\ Excluded
    BY <1>4 DEF KeepsLocks, Excluded
  <1>7. \A t \in TxIds : Ordered(t) => t \in InGenesis
    BY <1>1, VaultAssumption DEF Ordered, InGenesis
  <1>8. Blamed
    BY <1>1, <1>7 DEF Blamed, Rejected
  <1> QED
    BY <1>1, <1>5, <1>6, <1>8 DEF RaceInv

LEMMA RaceInductive == Spec => []RaceInv
  <1>1. KnowInv /\ VaultInv /\ FollowInv /\ RaceInv /\ [Next]_ttxVars => RaceInv'
    <2> SUFFICES ASSUME KnowInv, VaultInv, FollowInv, RaceInv, [Next]_ttxVars PROVE RaceInv'
      OBVIOUS
    <2>1. InGenesis \subseteq settled'
      BY LedgerOnwards DEF RaceInv
    <2>2. SeenOK' /\ KeepsLocks' /\ Excluded'
      BY SeenStays, KeepsStays, ExcludedStays DEF RaceInv
    <2>3. Blamed'
      BY BlamedStays
    <2> QED
      BY <2>1, <2>2, <2>3 DEF RaceInv
  <1> QED
    BY <1>1, InitRace, KnowInductive, FollowInductive, PTL DEF Spec

\* Nobody's transaction is rejected out of the blue: it lost a token to another, and a
\* view of one of the two failed, lost its locks to the collector, or did not lock its
\* tokens.
THEOREM RejectionNeedsFailureHolds == Spec => []RejectionNeedsFailure
  <1>1. ASSUME RaceInv PROVE RejectionNeedsFailure
    <2>1. \A t, u : ~(Unfailing(t) /\ Unfailing(u)) =>
              \/ \E v \in failed : v[1] \in {t, u} /\ v[2] # "auditor"
              \/ {t, u} \cap robbed # {}
              \/ View[t] = "prepared" \/ View[u] = "prepared"
      BY DEF Unfailing
    <2> QED
      BY <1>1, <2>1 DEF RaceInv, Blamed, Rejected, RejectionNeedsFailure
  <1> QED
    BY <1>1, RaceInductive, PTL
=============================================================================
