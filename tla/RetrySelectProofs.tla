--------------------------- MODULE RetrySelectProofs ---------------------------
(***************************************************************************)
(* Proofs about RetrySelect: for every group of instances, every policy    *)
(* and every history of hints, a retry lands where the last error asked    *)
(* for, and a task is given up exactly when it is due.                     *)
(***************************************************************************)
EXTENDS RetrySelect, FiniteSetTheorems, WellFoundedInduction, TLAPS

Error == Hint \cup {EmitNotAllowed, None}
Attempt == [inst : Instance, error : Error]
Open(t) == at[t] \in {"queued", "chosen", "running"}

(* What dispatch chooses the least loaded of.                              *)
Serving(t) ==
  LET s == IF select[t] = None THEN <<"AvoidTried", None>> ELSE select[t]
      some == {i \in Instance : Eligible(i, s, tried[t], last[t])}
  IN IF some = {} /\ Resets(s) THEN Instance ELSE some

Types ==
  /\ at \in [Task -> {"queued", "chosen", "running", "done", "failed"}]
  /\ attempt \in [Task -> Nat] /\ tried \in [Task -> SUBSET Instance]
  /\ last \in [Task -> Instance \cup {None}] /\ select \in [Task -> Select \cup {None}]
  /\ inst \in [Task -> Instance \cup {None}]
  /\ log \in [Task -> Seq(Attempt)] /\ letters \in Seq(Task)

(* Every instance's load counts at least the followed tasks it runs.       *)
On(i) == {t \in Task : at[t] = "running" /\ inst[t] = i}
Loaded == active \in [Instance -> Nat] /\ \A i \in Instance : active[i] >= Cardinality(On(i))

(* The envelope of an open task says what its log says: how many attempts  *)
(* failed, which instances they were on, and whom its last error wants.    *)
Envelope(t) ==
  /\ Len(log[t]) = attempt[t] /\ tried[t] = Ids(t, attempt[t])
  /\ Serving(t) = IF attempt[t] = 0 THEN Instance ELSE Wanted(t, attempt[t])
  /\ at[t] \in {"chosen", "running"} => inst[t] \in Serving(t)
Failing(t, n) == log[t][n].error # None /\ n < Policy(log[t][n].inst).max

History(t) ==
  /\ \A n \in 1..(Len(log[t]) - 1) : Failing(t, n) /\ log[t][n + 1].inst \in Wanted(t, n)
  /\ Open(t) => Envelope(t) /\ \A n \in 1..Len(log[t]) : Failing(t, n)
  /\ at[t] = "failed" => log[t] # <<>> /\ GivenUp(t)

Lettered ==
  /\ \A t \in Task : at[t] = "failed" <=> \E k \in 1..Len(letters) : letters[k] = t
  /\ IsInjective(letters)

SelectInv == Types /\ Loaded /\ (\A t \in Task : History(t)) /\ Lettered

-----------------------------------------------------------------------------
LEMMA Constants ==
  /\ Instance = 1..Len(Specs) /\ Instance # {} /\ Instance \subseteq Nat
  /\ \A i \in Instance : Policy(i) \in RetryPolicy
  /\ IsFiniteSet(Task)
  <1> DEFINE Worker == [attrs : [Key -> {None} \cup STRING],
                        concurrency : Nat \cup {None},
                        retry : RetryPolicy \cup {None}]
  <1>1. Instance = 1..Len(Specs) /\ Len(Specs) \in Nat \ {0} /\ \A i \in Instance : Specs[i] \in Worker
    <2> HIDE DEF Worker
    <2>1. Specs \in Seq(Worker) /\ Len(Specs) \in 1..64
      BY SelectAssumption DEF Worker
    <2>2. DOMAIN Specs = 1..Len(Specs) /\ \A i \in 1..Len(Specs) : Specs[i] \in Worker
      BY <2>1
    <2> QED BY <2>1, <2>2 DEF Instance
  <1>2. \A i \in Instance : Specs[i].retry \in RetryPolicy \cup {None}
    BY <1>1
  <1> QED BY <1>1, <1>2, SelectAssumption DEF Policy

(* Among instances there is a first one of least load.                     *)
LEMMA NatMinimum ==
  ASSUME NEW S \in SUBSET Nat, S # {}
  PROVE  \E m \in S : \A n \in S : m <= n
  <1>1. \E m \in S : \A n \in S : ~(<<n, m>> \in OpToRel(<, Nat))
    BY NatLessThanWellFounded, WFMin
  <1>2. \A m, n \in Nat : <<n, m>> \in OpToRel(<, Nat) <=> n < m
    BY DEF OpToRel
  <1>3. PICK m \in S : \A n \in S : ~(<<n, m>> \in OpToRel(<, Nat))
    BY <1>1
  <1>4. \A n \in S : ~(n < m) /\ n \in Nat /\ m \in Nat
    BY <1>2, <1>3
  <1> QED BY <1>4

LEMMA LeastExists ==
  ASSUME active \in [Instance -> Nat], NEW S \in SUBSET Instance
  PROVE  LeastLoaded(S) \subseteq S /\ (LeastLoaded(S) = {} => S = {})
  <1>1. LeastLoaded(S) \subseteq S
    BY DEF LeastLoaded
  <1>2. ASSUME S # {} PROVE LeastLoaded(S) # {}
    <2>1. PICK a \in {active[i] : i \in S} : \A b \in {active[i] : i \in S} : a <= b
      <3>1. {active[i] : i \in S} \in SUBSET Nat /\ {active[i] : i \in S} # {}
        BY <1>2
      <3> QED BY <3>1, NatMinimum
    <2>2. PICK m \in {i \in S : active[i] = a} : \A n \in {i \in S : active[i] = a} : m <= n
      <3>1. {i \in S : active[i] = a} \in SUBSET Nat /\ {i \in S : active[i] = a} # {}
        BY Constants
      <3> QED BY <3>1, NatMinimum
    <2>3. \A j \in S : active[m] < active[j] \/ (active[m] = active[j] /\ m <= j)
      <3> TAKE j \in S
      <3>1. a <= active[j] /\ active[m] = a /\ active[j] \in Nat /\ a \in Nat
        BY <2>1, <2>2
      <3>2. active[j] = a => m <= j
        BY <2>2
      <3> QED BY <3>1, <3>2
    <2>4. m \in S
      BY <2>2
    <2> QED BY <2>3, <2>4 DEF LeastLoaded
  <1> QED BY <1>1, <1>2

LEMMA ChoiceServes ==
  ASSUME active \in [Instance -> Nat], NEW t \in Task
  PROVE  Choice(t) \subseteq Serving(t) /\ (Choice(t) = {} => Serving(t) = {})
  <1>1. Serving(t) \in SUBSET Instance
    BY DEF Serving
  <1>2. Choice(t) = LeastLoaded(Serving(t))
    BY DEF Choice, Serving
  <1> QED BY <1>1, <1>2, LeastExists

-----------------------------------------------------------------------------
(* The log of a task grows by an attempt; what it said before stays.       *)
Grows(t, r) == log' = [log EXCEPT ![t] = Append(@, r)]

LEMMA LogGrows ==
  ASSUME Types, NEW t \in Task, NEW r \in Attempt, Grows(t, r)
  PROVE  /\ log' \in [Task -> Seq(Attempt)]
         /\ Len(log[t]) \in Nat /\ Len(log'[t]) = Len(log[t]) + 1
         /\ log'[t][Len(log[t]) + 1] = r
         /\ \A n \in 1..Len(log[t]) : log'[t][n] = log[t][n]
         /\ \A u \in Task \ {t} : log'[u] = log[u]
  <1>1. log[t] \in Seq(Attempt) /\ log'[t] = Append(log[t], r)
    BY DEF Types, Grows
  <1>2. Append(log[t], r) \in Seq(Attempt)
    BY <1>1
  <1> QED BY <1>1, <1>2 DEF Types, Grows

LEMMA PastStays ==
  ASSUME Types, NEW t \in Task, NEW r \in Attempt, Grows(t, r), NEW n \in 1..Len(log[t])
  PROVE  /\ Ids(t, n)' = Ids(t, n) /\ Wanted(t, n)' = Wanted(t, n)
         /\ Failing(t, n)' = Failing(t, n)
  <1>1. \A k \in 1..n : log'[t][k] = log[t][k]
    BY LogGrows
  <1>2. Ids(t, n)' = Ids(t, n)
    BY <1>1 DEF Ids
  <1>3. log'[t][n] = log[t][n]
    BY <1>1
  <1> QED BY <1>2, <1>3 DEF Wanted, Untried, Failing

LEMMA IdsGrow ==
  ASSUME Types, NEW t \in Task, NEW r \in Attempt, Grows(t, r), NEW n \in Nat, n = Len(log[t])
  PROVE  Ids(t, n + 1)' = Ids(t, n) \cup {r.inst}
  <1>1. Ids(t, n + 1)' = {log'[t][k].inst : k \in 1..(n + 1)}
    BY DEF Ids
  <1>2. 1..(n + 1) = (1..n) \cup {n + 1}
    OBVIOUS
  <1>3. \A k \in 1..n : log'[t][k] = log[t][k]
    BY LogGrows
  <1>4. log'[t][n + 1] = r
    BY LogGrows
  <1> QED BY <1>1, <1>2, <1>3, <1>4 DEF Ids

(* A task that a step does not touch keeps its history.                    *)
LEMMA Untouched ==
  ASSUME NEW u \in Task, History(u), log'[u] = log[u], at'[u] = at[u], inst'[u] = inst[u],
         attempt'[u] = attempt[u], tried'[u] = tried[u], last'[u] = last[u],
         select'[u] = select[u]
  PROVE  History(u)'
  <1>1. \A n : Wanted(u, n)' = Wanted(u, n) /\ Ids(u, n)' = Ids(u, n)
                /\ Failing(u, n)' = Failing(u, n)
    BY DEF Wanted, Untried, Ids, Failing
  <1>2. Serving(u)' = Serving(u)
    BY DEF Serving, Eligible
  <1>3. Envelope(u)' = Envelope(u) /\ Open(u)' = Open(u)
    BY <1>1, <1>2 DEF Envelope, Open
  <1>4. GivenUp(u)' = GivenUp(u)
    BY <1>1 DEF GivenUp
  <1> QED BY <1>1, <1>3, <1>4 DEF History

(* The load.                                                               *)
LEMMA OnFinite ==
  ASSUME NEW i
  PROVE  IsFiniteSet(On(i)) /\ Cardinality(On(i)) \in Nat
  BY Constants, FS_Subset, FS_CardinalityType DEF On

LEMMA LoadStays ==
  ASSUME Loaded, active' = active, \A i \in Instance : On(i)' = On(i)
  PROVE  Loaded'
  BY DEF Loaded

LEMMA LoadRises ==
  ASSUME Types, Loaded, NEW t \in Task, at[t] = "chosen", inst[t] \in Instance,
         at' = [at EXCEPT ![t] = "running"], inst' = inst,
         active' = [active EXCEPT ![inst[t]] = @ + 1]
  PROVE  Loaded'
  <1>1. ASSUME NEW i \in Instance
        PROVE  active'[i] \in Nat /\ active'[i] >= Cardinality(On(i)')
    <2>1. active[i] \in Nat /\ active[i] >= Cardinality(On(i))
      BY DEF Loaded
    <2>2. CASE i = inst[t]
      <3>1. On(i)' = On(i) \cup {t} /\ t \notin On(i)
        BY <2>2 DEF On, Types
      <3>2. Cardinality(On(i)') = Cardinality(On(i)) + 1
        BY <3>1, OnFinite, FS_AddElement
      <3>3. active'[i] = active[i] + 1
        BY <2>2 DEF Loaded
      <3> QED BY <2>1, <3>2, <3>3, OnFinite
    <2>3. CASE i # inst[t]
      <3>1. On(i)' = On(i)
        BY <2>3 DEF On, Types
      <3> QED BY <2>1, <2>3, <3>1 DEF Loaded
    <2> QED BY <2>2, <2>3
  <1>2. active' \in [Instance -> Nat]
    BY <1>1 DEF Loaded
  <1> QED BY <1>1, <1>2 DEF Loaded

LEMMA LoadFalls ==
  ASSUME Types, Loaded, NEW t \in Task, at[t] = "running", inst[t] \in Instance,
         NEW s \in {"queued", "done", "failed"},
         at' = [at EXCEPT ![t] = s], inst' = inst,
         active' = [active EXCEPT ![inst[t]] = @ - 1]
  PROVE  Loaded'
  <1>1. ASSUME NEW i \in Instance
        PROVE  active'[i] \in Nat /\ active'[i] >= Cardinality(On(i)')
    <2>1. active[i] \in Nat /\ active[i] >= Cardinality(On(i))
      BY DEF Loaded
    <2>2. CASE i = inst[t]
      <3>1. On(i)' = On(i) \ {t} /\ t \in On(i)
        BY <2>2 DEF On, Types
      <3>2. Cardinality(On(i)') = Cardinality(On(i)) - 1
        BY <3>1, OnFinite, FS_RemoveElement
      <3>3. active'[i] = active[i] - 1 /\ Cardinality(On(i)') \in Nat
        <4>1. IsFiniteSet(On(i)')
          BY <3>1, OnFinite, FS_Subset
        <4> QED BY <2>2, <4>1, FS_CardinalityType DEF Loaded
      <3> QED BY <2>1, <3>2, <3>3, OnFinite
    <2>3. CASE i # inst[t]
      <3>1. On(i)' = On(i)
        BY <2>3 DEF On, Types
      <3> QED BY <2>1, <2>3, <3>1 DEF Loaded
    <2> QED BY <2>2, <2>3
  <1>2. active' \in [Instance -> Nat]
    BY <1>1 DEF Loaded
  <1> QED BY <1>1, <1>2 DEF Loaded

(* A dead letter is written for a task that had none.                      *)
LEMMA LetterOnce ==
  ASSUME Types, Lettered, NEW t \in Task, at[t] # "failed", Letter(t),
         at' = [at EXCEPT ![t] = "failed"]
  PROVE  Lettered' /\ letters' \in Seq(Task)
  <1>1. /\ Len(letters) \in Nat /\ Len(letters') = Len(letters) + 1 /\ letters' \in Seq(Task)
        /\ \A k \in 1..Len(letters) : letters'[k] = letters[k]
        /\ letters'[Len(letters) + 1] = t
    BY DEF Types, Letter
  <1>2. \A k \in 1..Len(letters) : letters[k] # t
    BY DEF Lettered
  <1>3. IsInjective(letters')
    <2>1. DOMAIN letters' = 1..(Len(letters) + 1) /\ DOMAIN letters = 1..Len(letters)
      BY <1>1 DEF Types
    <2> SUFFICES ASSUME NEW a \in 1..(Len(letters) + 1), NEW b \in 1..(Len(letters) + 1),
                        letters'[a] = letters'[b]
                 PROVE  a = b
      BY <2>1 DEF IsInjective
    <2>2. CASE a \in 1..Len(letters) /\ b \in 1..Len(letters)
      BY <1>1, <2>1, <2>2 DEF Lettered, IsInjective
    <2>3. CASE a = Len(letters) + 1 \/ b = Len(letters) + 1
      BY <1>1, <1>2, <2>3
    <2> QED BY <1>1, <2>2, <2>3
  <1>4. \A u \in Task : at'[u] = "failed" <=> \E k \in 1..Len(letters') : letters'[k] = u
    <2> TAKE u \in Task
    <2>1. at'[u] = IF u = t THEN "failed" ELSE at[u]
      BY DEF Types
    <2>2. CASE u = t
      BY <1>1, <2>1, <2>2
    <2>3. CASE u # t
      BY <1>1, <2>1, <2>3 DEF Lettered
    <2> QED BY <2>2, <2>3
  <1> QED BY <1>1, <1>3, <1>4 DEF Lettered

LEMMA NoLetter ==
  ASSUME Types, Lettered, letters' = letters,
         \A u \in Task : at'[u] = "failed" <=> at[u] = "failed"
  PROVE  Lettered'
  BY DEF Lettered

-----------------------------------------------------------------------------
(* What an error asks for: its hint, or what the policy of the instance    *)
(* says of an error without one.                                           *)
Ask(i, hint) == IF hint[1] = "none" THEN Policy(i).on ELSE hint
Asks == (Hint \cup Select) \ {<<"Fatal", None>>}

LEMMA AskKinds ==
  ASSUME NEW i \in Instance, NEW hint \in Hint, ~Terminal(hint)
  PROVE  /\ Ask(i, hint) \in Asks
         /\ Ask(i, hint)[1] \in {"Any", "AvoidTried", "DifferentInstance", "SameInstance",
                                 "SameAttr", "DifferentAttr", "Where", "AnyWith"}
  <1>1. Policy(i).on \in Select
    BY Constants DEF RetryPolicy
  <1>2. \A s \in Select : s[1] \in {"Any", "AvoidTried", "SameInstance", "SameAttr",
                                    "DifferentAttr", "Where"}
    BY DEF Select
  <1>3. \A h \in Hint : h[1] \in {"none", "SameInstance", "DifferentInstance", "Fatal",
                                  "DifferentAttr", "AnyWith"}
    BY DEF Hint
  <1>4. hint[1] # "Fatal"
    <2>1. hint[1] = "Fatal" => hint = <<"Fatal", None>>
      BY DEF Hint
    <2> QED BY <2>1 DEF Terminal
  <1>5. CASE hint[1] = "none"
    <2>1. Ask(i, hint) = Policy(i).on
      BY <1>5 DEF Ask
    <2>2. Policy(i).on # <<"Fatal", None>>
      BY <1>1, <1>2
    <2> QED BY <1>1, <1>2, <2>1, <2>2 DEF Asks
  <1>6. CASE hint[1] # "none"
    <2>1. Ask(i, hint) = hint
      BY <1>6 DEF Ask
    <2> QED BY <1>3, <1>4, <1>6, <2>1 DEF Asks, Terminal
  <1> QED BY <1>5, <1>6

LEMMA Resolved ==
  ASSUME NEW t \in Task, inst[t] \in Instance, NEW hint \in Hint, ~Terminal(hint),
         NEW ask, ask = Ask(inst[t], hint), NEW s, s = Resolve(t, hint)
  PROVE  /\ s \in Select
         /\ s = CASE ask[1] = "DifferentInstance" -> <<"AvoidTried", None>>
                  [] ask[1] = "AnyWith" -> <<"Where", ask[2]>>
                  [] OTHER -> ask
  <1>1. /\ Policy(inst[t]).on \in Select
        /\ Policy(inst[t]).on[1] \notin {"DifferentInstance", "AnyWith"}
    BY Constants DEF RetryPolicy, Select
  <1>2. hint[1] \in {"none", "SameInstance", "DifferentInstance", "DifferentAttr", "AnyWith"}
    BY DEF Hint, Terminal
  <1>3. CASE hint[1] = "none"
    BY <1>1, <1>3 DEF Resolve, Ask
  <1>4. CASE hint[1] = "DifferentInstance"
    BY <1>4 DEF Resolve, Ask, Select
  <1>5. CASE hint[1] = "AnyWith"
    <2>1. hint[2] \in Key
      BY <1>5 DEF Hint
    <2>2. s = <<"Where", hint[2]>> /\ ask = hint
      BY <1>5 DEF Resolve, Ask
    <2>3. s \in Select
      BY <2>1, <2>2 DEF Select
    <2> QED BY <1>5, <2>2, <2>3
  <1>6. CASE hint[1] \in {"SameInstance", "DifferentAttr"}
    <2>1. s = hint /\ ask = hint
      BY <1>6 DEF Resolve, Ask
    <2>2. hint \in Select
      BY <1>6 DEF Hint, Select
    <2> QED BY <1>6, <2>1, <2>2
  <1> QED BY <1>2, <1>3, <1>4, <1>5, <1>6

(* The envelope of a retry is served by whom its error wants.              *)
LEMMA RetryServes ==
  ASSUME Types, NEW t \in Task, inst[t] \in Instance, NEW hint \in Hint, ~Terminal(hint),
         Grows(t, [inst |-> inst[t], error |-> hint]), Retry(t, hint), inst' = inst,
         NEW n \in Nat, n = Len(log[t]), tried[t] = Ids(t, n)
  PROVE  /\ tried'[t] = Ids(t, n + 1)' /\ select'[t] \in Select
         /\ Serving(t)' = Wanted(t, n + 1)'
  <1> DEFINE r == [inst |-> inst[t], error |-> hint]
             ask == Ask(inst[t], hint)
             s == Resolve(t, hint)
             mask == tried'[t]
             some == {i \in Instance : Eligible(i, s, mask, inst[t])}
  <1>1. r \in Attempt /\ r.inst = inst[t] /\ r.error = hint
    BY DEF Attempt, Error
  <1>2. log'[t][n + 1] = r
    BY <1>1, LogGrows
  <1>3. Ids(t, n + 1)' = Ids(t, n) \cup {inst[t]}
    BY <1>1, IdsGrow
  <1>4. /\ tried'[t] = tried[t] \cup {inst[t]} /\ last'[t] = inst[t] /\ select'[t] = s
    BY DEF Retry, Types
  <1>5. tried'[t] = Ids(t, n + 1)'
    BY <1>3, <1>4
  <1>6. /\ s \in Select /\ s # None
        /\ s = CASE ask[1] = "DifferentInstance" -> <<"AvoidTried", None>>
                 [] ask[1] = "AnyWith" -> <<"Where", ask[2]>>
                 [] OTHER -> ask
    BY Resolved, NoneAssumption
  <1>7. Serving(t)' = IF some = {} /\ Resets(s) THEN Instance ELSE some
    <2> HIDE DEF s
    <2> QED BY <1>4, <1>6 DEF Serving, Eligible
  <1>8. Wanted(t, n + 1)' =
          CASE ask[1] = "Any" -> Instance
            [] ask[1] \in {"AvoidTried", "DifferentInstance"} -> Untried(t, n + 1)'
            [] ask[1] = "SameInstance" -> {inst[t]}
            [] ask[1] = "SameAttr" -> {i \in Instance : Attr(i, ask[2]) = Attr(inst[t], ask[2])}
            [] ask[1] = "DifferentAttr" -> {i \in Instance : Attr(i, ask[2]) # Attr(inst[t], ask[2])}
            [] ask[1] \in {"Where", "AnyWith"} -> {i \in Instance : Attr(i, ask[2]) # None}
    BY <1>1, <1>2 DEF Wanted, Ask
  <1>9. Untried(t, n + 1)' = IF Instance \ mask = {} THEN Instance ELSE Instance \ mask
    BY <1>5 DEF Untried
  <1>10. ask[1] \in {"Any", "AvoidTried", "DifferentInstance", "SameInstance",
                     "SameAttr", "DifferentAttr", "Where", "AnyWith"}
    BY AskKinds
  <1> HIDE DEF ask, s, mask, r
  <1>11. CASE ask[1] = "Any"
    BY <1>4, <1>5, <1>6, <1>7, <1>8, <1>11 DEF Resets, Eligible
  <1>12. CASE ask[1] \in {"AvoidTried", "DifferentInstance"}
    <2>1. s[1] = "AvoidTried"
      BY <1>6, <1>12
    <2>2. some = Instance \ mask
      BY <2>1 DEF Eligible
    <2>3. Wanted(t, n + 1)' = Untried(t, n + 1)'
      BY <1>8, <1>12
    <2> QED BY <1>4, <1>5, <1>6, <1>7, <1>9, <2>1, <2>2, <2>3 DEF Resets
  <1>13. CASE ask[1] = "SameInstance"
    <2>1. s = ask
      BY <1>6, <1>13
    <2>2. some = {inst[t]}
      BY <1>13, <2>1 DEF Eligible
    <2> QED BY <1>4, <1>5, <1>6, <1>7, <1>8, <1>13, <2>2
  <1>14. CASE ask[1] \in {"SameAttr", "DifferentAttr"}
    <2>1. s = ask
      BY <1>6, <1>14
    <2>2. some = Wanted(t, n + 1)'
      BY <1>8, <1>14, <2>1 DEF Eligible
    <2>3. ~Resets(s)
      BY <1>14, <2>1 DEF Resets
    <2> QED BY <1>4, <1>5, <1>6, <1>7, <2>2, <2>3
  <1>15. CASE ask[1] \in {"Where", "AnyWith"}
    <2>1. s[1] = "Where" /\ s[2] = ask[2]
      BY <1>6, <1>15
    <2>2. some = Wanted(t, n + 1)'
      BY <1>8, <1>15, <2>1 DEF Eligible
    <2>3. ~Resets(s)
      BY <2>1 DEF Resets
    <2> QED BY <1>4, <1>5, <1>6, <1>7, <2>2, <2>3
  <1> QED BY <1>10, <1>11, <1>12, <1>13, <1>14, <1>15

-----------------------------------------------------------------------------
LEMMA InitSelects ==
  ASSUME Init
  PROVE  SelectInv
  <1>1. Types
    BY DEF Init, Types
  <1>2. Loaded
    <2>1. \A i \in Instance : On(i) = {}
      BY DEF Init, On
    <2> QED BY <2>1, FS_EmptySet DEF Init, Loaded
  <1>3. ASSUME NEW t \in Task PROVE History(t)
    <2>1. /\ at[t] = "queued" /\ log[t] = <<>> /\ attempt[t] = 0 /\ tried[t] = {}
          /\ select[t] = None
      BY <1>3 DEF Init
    <2>2. Len(log[t]) = 0 /\ Ids(t, 0) = {}
      BY <2>1 DEF Ids
    <2>3. Serving(t) = Instance
      BY <2>1 DEF Serving, Eligible, Resets
    <2> QED BY <2>1, <2>2, <2>3 DEF History, Envelope, Open
  <1>4. Lettered
    BY DEF Init, Lettered, IsInjective
  <1> QED BY <1>1, <1>2, <1>3, <1>4 DEF SelectInv

LEMMA RunsOnInstance ==
  ASSUME SelectInv, NEW t \in Task, at[t] \in {"chosen", "running"}
  PROVE  inst[t] \in Instance
  <1>1. inst[t] \in Serving(t)
    BY DEF SelectInv, History, Envelope, Open
  <1> QED BY <1>1 DEF Serving

LEMMA DispatchSelects ==
  ASSUME SelectInv, NEW t \in Task, Dispatch(t)
  PROVE  SelectInv'
  <1>1. /\ Types /\ Loaded /\ History(t) /\ Lettered /\ Envelope(t) /\ at[t] = "queued"
        /\ log' = log /\ attempt' = attempt /\ tried' = tried /\ last' = last
        /\ select' = select /\ active' = active
    BY DEF SelectInv, Dispatch, History, Open, envelope
  <1>2. Choice(t) \subseteq Serving(t) /\ (Choice(t) = {} => Serving(t) = {})
    BY <1>1, ChoiceServes DEF Loaded
  <1>3. \A n : /\ Wanted(t, n)' = Wanted(t, n) /\ Ids(t, n)' = Ids(t, n)
               /\ Failing(t, n)' = Failing(t, n) /\ Serving(t)' = Serving(t)
    BY <1>1 DEF Wanted, Untried, Ids, Failing, Serving, Eligible
  <1>4. CASE Choice(t) = {}
    <2>1. at' = [at EXCEPT ![t] = "failed"] /\ Letter(t) /\ inst' = inst
      BY <1>4 DEF Dispatch
    <2>2. Lettered' /\ letters' \in Seq(Task)
      BY <1>1, <2>1, LetterOnce
    <2>3. Types'
      BY <1>1, <2>1, <2>2 DEF Types
    <2>4. Loaded'
      <3>1. \A i \in Instance : On(i)' = On(i)
        BY <1>1, <2>1 DEF On, Types
      <3> QED BY <1>1, <3>1, LoadStays
    <2>5. attempt[t] # 0 /\ Wanted(t, attempt[t]) = {} /\ Len(log[t]) = attempt[t]
      BY <1>1, <1>2, <1>4, Constants DEF Envelope
    <2>6. History(t)'
      <3>1. at'[t] = "failed"
        BY <1>1, <2>1 DEF Types
      <3>2. GivenUp(t)' /\ log'[t] # <<>>
        BY <1>1, <1>3, <2>5 DEF GivenUp
      <3> QED BY <1>1, <1>3, <3>1, <3>2 DEF History, Open
    <2>7. ASSUME NEW u \in Task \ {t} PROVE History(u)'
      BY <1>1, <2>1, Untouched DEF SelectInv, Types
    <2> QED BY <2>2, <2>3, <2>4, <2>6, <2>7 DEF SelectInv
  <1>5. CASE Choice(t) # {}
    <2>1. PICK i \in Choice(t) : inst' = [inst EXCEPT ![t] = i]
      BY <1>5 DEF Dispatch
    <2>2. at' = [at EXCEPT ![t] = "chosen"] /\ letters' = letters
      BY <1>5 DEF Dispatch
    <2>3. i \in Serving(t) /\ i \in Instance
      BY <1>2 DEF Serving
    <2>4. Types'
      BY <1>1, <2>1, <2>2, <2>3 DEF Types
    <2>5. Loaded'
      <3>1. \A j \in Instance : On(j)' = On(j)
        BY <1>1, <2>1, <2>2 DEF On, Types
      <3> QED BY <1>1, <3>1, LoadStays
    <2>6. Lettered'
      BY <1>1, <2>2, NoLetter DEF Types
    <2>7. History(t)'
      <3>1. at'[t] = "chosen" /\ inst'[t] = i
        BY <1>1, <2>1, <2>2 DEF Types
      <3>2. Envelope(t)'
        BY <1>1, <1>3, <2>3, <3>1 DEF Envelope
      <3> QED BY <1>1, <1>3, <3>1, <3>2 DEF History, Open
    <2>8. ASSUME NEW u \in Task \ {t} PROVE History(u)'
      BY <1>1, <2>1, <2>2, Untouched DEF SelectInv, Types
    <2> QED BY <2>4, <2>5, <2>6, <2>7, <2>8 DEF SelectInv
  <1> QED BY <1>4, <1>5

LEMMA StartSelects ==
  ASSUME SelectInv, NEW t \in Task, Start(t)
  PROVE  SelectInv'
  <1>1. /\ Types /\ Loaded /\ History(t) /\ Lettered /\ Envelope(t) /\ at[t] = "chosen"
        /\ log' = log /\ attempt' = attempt /\ tried' = tried /\ last' = last
        /\ select' = select /\ inst' = inst /\ letters' = letters
        /\ at' = [at EXCEPT ![t] = "running"]
    BY DEF SelectInv, Start, History, Open, envelope
  <1>2. Types'
    BY <1>1 DEF Types
  <1>3. Loaded'
    BY <1>1, RunsOnInstance, LoadRises DEF Start
  <1>4. Lettered'
    BY <1>1, NoLetter DEF Types
  <1>5. History(t)'
    <2>1. \A n : /\ Wanted(t, n)' = Wanted(t, n) /\ Ids(t, n)' = Ids(t, n)
                 /\ Failing(t, n)' = Failing(t, n) /\ Serving(t)' = Serving(t)
      BY <1>1 DEF Wanted, Untried, Ids, Failing, Serving, Eligible
    <2>2. at'[t] = "running" /\ Envelope(t)'
      BY <1>1, <2>1 DEF Envelope, Types
    <2> QED BY <1>1, <2>1, <2>2 DEF History, Open
  <1>6. ASSUME NEW u \in Task \ {t} PROVE History(u)'
    BY <1>1, Untouched DEF SelectInv, Types
  <1> QED BY <1>2, <1>3, <1>4, <1>5, <1>6 DEF SelectInv

(* After an attempt, all that its task's log said before still stands, and *)
(* the attempt landed where the one before it asked for.                   *)
LEMMA AttemptLands ==
  ASSUME SelectInv, NEW t \in Task, at[t] = "running", NEW r \in Attempt, r.inst = inst[t],
         Grows(t, r), NEW n \in Nat, n = Len(log[t])
  PROVE  /\ Len(log'[t]) = n + 1 /\ log'[t][n + 1] = r
         /\ \A k \in 1..n : Failing(t, k)' /\ log'[t][k + 1].inst \in Wanted(t, k)'
  <1>1. Types /\ History(t) /\ Envelope(t) /\ \A k \in 1..n : Failing(t, k)
    BY DEF SelectInv, History, Open
  <1>2. Len(log'[t]) = n + 1 /\ log'[t][n + 1] = r
    BY <1>1, LogGrows
  <1>3. ASSUME NEW k \in 1..n
        PROVE  Failing(t, k)' /\ log'[t][k + 1].inst \in Wanted(t, k)'
    <2>1. Wanted(t, k)' = Wanted(t, k) /\ Failing(t, k)' = Failing(t, k)
      BY <1>1, PastStays
    <2>2. CASE k = n
      <3>1. inst[t] \in Wanted(t, n)
        BY <1>1, <2>2 DEF Envelope
      <3> QED BY <1>1, <1>2, <2>1, <2>2, <3>1
    <2>3. CASE k # n
      <3>1. k + 1 \in 1..n /\ k \in 1..(n - 1)
        BY <2>3
      <3>2. log'[t][k + 1] = log[t][k + 1]
        BY <1>1, <3>1, LogGrows
      <3> QED BY <1>1, <2>1, <3>1, <3>2 DEF History
    <2> QED BY <2>2, <2>3
  <1> QED BY <1>2, <1>3

LEMMA SucceedSelects ==
  ASSUME SelectInv, NEW t \in Task, Succeed(t)
  PROVE  SelectInv'
  <1> DEFINE r == [inst |-> inst[t], error |-> None]
  <1>1. /\ Types /\ Loaded /\ Lettered /\ at[t] = "running" /\ Grows(t, r)
        /\ attempt' = attempt /\ tried' = tried /\ last' = last
        /\ select' = select /\ inst' = inst /\ letters' = letters
        /\ at' = [at EXCEPT ![t] = "done"]
    BY DEF SelectInv, Succeed, Ran, envelope, Grows
  <1>2. r \in Attempt /\ inst[t] \in Instance /\ r.inst = inst[t]
    BY <1>1, RunsOnInstance DEF Attempt, Error
  <1> HIDE DEF r
  <1>3. Types'
    BY <1>1, <1>2, LogGrows DEF Types
  <1>4. Loaded'
    BY <1>1, <1>2, LoadFalls DEF Succeed, Ran
  <1>5. Lettered'
    BY <1>1, NoLetter DEF Types
  <1>6. History(t)'
    <2>1. PICK n \in Nat : n = Len(log[t])
      BY <1>1 DEF Types
    <2>2. Len(log'[t]) = n + 1
          /\ \A k \in 1..n : Failing(t, k)' /\ log'[t][k + 1].inst \in Wanted(t, k)'
      BY <1>1, <1>2, <2>1, AttemptLands
    <2>3. at'[t] = "done"
      BY <1>1 DEF Types
    <2> QED BY <2>2, <2>3 DEF History, Open
  <1>7. ASSUME NEW u \in Task \ {t} PROVE History(u)'
    BY <1>1, <1>2, LogGrows, Untouched DEF SelectInv, Types
  <1> QED BY <1>3, <1>4, <1>5, <1>6, <1>7 DEF SelectInv

LEMMA FailSelects ==
  ASSUME SelectInv, NEW t \in Task, NEW error \in Hint \cup {EmitNotAllowed}, Fail(t, error)
  PROVE  SelectInv'
  <1> DEFINE r == [inst |-> inst[t], error |-> error]
  <1>1. /\ Types /\ Loaded /\ Lettered /\ at[t] = "running" /\ Grows(t, r) /\ inst' = inst
        /\ Envelope(t) /\ active' = [active EXCEPT ![inst[t]] = @ - 1]
    BY DEF SelectInv, Fail, Ran, Grows, History, Open
  <1>2. r \in Attempt /\ inst[t] \in Instance /\ r.inst = inst[t] /\ r.error = error
    BY <1>1, RunsOnInstance DEF Attempt, Error
  <1>3. PICK n \in Nat : n = Len(log[t]) /\ n = attempt[t]
    BY <1>1 DEF Types, Envelope
  <1>4. log' \in [Task -> Seq(Attempt)] /\ \A u \in Task \ {t} : log'[u] = log[u]
    BY <1>1, <1>2, LogGrows
  <1>5. /\ Len(log'[t]) = n + 1 /\ log'[t][n + 1] = r
        /\ \A k \in 1..n : Failing(t, k)' /\ log'[t][k + 1].inst \in Wanted(t, k)'
    BY <1>1, <1>2, <1>3, AttemptLands
  <1>6. CASE Terminal(error) \/ Exhausted(t, attempt[t] + 1)
    <2>1. /\ at' = [at EXCEPT ![t] = "failed"] /\ Letter(t) /\ attempt' = attempt
          /\ tried' = tried /\ last' = last /\ select' = select
      BY <1>6 DEF Fail, envelope
    <2>2. Lettered' /\ letters' \in Seq(Task)
      BY <1>1, <2>1, LetterOnce
    <2>3. Types'
      BY <1>1, <1>4, <2>1, <2>2 DEF Types
    <2>4. Loaded'
      BY <1>1, <1>2, <2>1, LoadFalls
    <2>5. History(t)'
      <3>1. at'[t] = "failed"
        BY <1>1, <2>1 DEF Types
      <3>2. GivenUp(t)' /\ log'[t] # <<>>
        BY <1>2, <1>3, <1>5, <1>6 DEF GivenUp, Exhausted
      <3> QED BY <1>5, <3>1, <3>2 DEF History, Open
    <2>6. ASSUME NEW u \in Task \ {t} PROVE History(u)'
      BY <1>1, <1>4, <2>1, Untouched DEF SelectInv, Types
    <2> QED BY <2>2, <2>3, <2>4, <2>5, <2>6 DEF SelectInv
  <1>7. CASE ~(Terminal(error) \/ Exhausted(t, attempt[t] + 1))
    <2>1. Retry(t, error) /\ letters' = letters /\ error \in Hint
      BY <1>7 DEF Fail, Terminal
    <2>2. /\ tried'[t] = Ids(t, n + 1)' /\ select'[t] \in Select
          /\ Serving(t)' = Wanted(t, n + 1)'
      <3>1. tried[t] = Ids(t, n)
        BY <1>1, <1>3 DEF Envelope
      <3> QED BY <1>1, <1>2, <1>3, <1>7, <2>1, <3>1, RetryServes
    <2>3. Types'
      <3>1. /\ at' = [at EXCEPT ![t] = "queued"] /\ attempt' = [attempt EXCEPT ![t] = @ + 1]
            /\ tried' = [tried EXCEPT ![t] = @ \cup {inst[t]}]
            /\ last' = [last EXCEPT ![t] = inst[t]]
            /\ select' = [select EXCEPT ![t] = Resolve(t, error)]
        BY <2>1 DEF Retry
      <3>2. Resolve(t, error) \in Select
        BY <2>2, <3>1 DEF Types, SelectInv
      <3> HIDE DEF Resolve
      <3> QED BY <1>1, <1>2, <1>4, <2>1, <3>1, <3>2 DEF Types
    <2>4. Loaded'
      BY <1>1, <1>2, <2>1, LoadFalls DEF Retry
    <2>5. Lettered'
      BY <1>1, <2>1, NoLetter DEF Types, Retry
    <2>6. History(t)'
      <3>1. at'[t] = "queued" /\ attempt'[t] = n + 1
        BY <1>1, <1>3, <2>1 DEF Types, Retry
      <3>2. Envelope(t)'
        BY <1>5, <2>2, <3>1 DEF Envelope
      <3>3. Failing(t, n + 1)'
        BY <1>2, <1>3, <1>5, <1>7, NoneAssumption, Constants DEF Failing, Exhausted, RetryPolicy
      <3> QED BY <1>5, <3>1, <3>2, <3>3 DEF History, Open
    <2>7. ASSUME NEW u \in Task \ {t} PROVE History(u)'
      BY <1>1, <1>4, <2>1, Untouched DEF SelectInv, Types, Retry
    <2> QED BY <2>3, <2>4, <2>5, <2>6, <2>7 DEF SelectInv
  <1> QED BY <1>6, <1>7

LEMMA OtherSelects ==
  ASSUME SelectInv, NEW i \in Instance, OtherStarts(i) \/ OtherEnds(i)
  PROVE  SelectInv'
  <1>1. /\ at' = at /\ attempt' = attempt /\ tried' = tried /\ last' = last /\ inst' = inst
        /\ select' = select /\ log' = log /\ letters' = letters
    BY DEF OtherStarts, OtherEnds, envelope
  <1>2. Types' /\ Lettered'
    BY <1>1 DEF SelectInv, Types, Lettered
  <1>3. \A t \in Task : History(t)'
    BY <1>1, Untouched DEF SelectInv
  <1>4. Loaded'
    <2>1. \A j \in Instance : /\ On(j)' = On(j) /\ Cardinality(On(j)) \in Nat
                              /\ active[j] \in Nat /\ active[j] >= Cardinality(On(j))
      BY <1>1, OnFinite DEF On, SelectInv, Loaded
    <2>2. CASE OtherStarts(i)
      BY <2>1, <2>2 DEF OtherStarts, SelectInv, Loaded
    <2>3. CASE OtherEnds(i)
      <3>1. active[i] > Cardinality(On(i)) /\ active' = [active EXCEPT ![i] = @ - 1]
        BY <2>3 DEF OtherEnds, On
      <3> QED BY <2>1, <3>1 DEF SelectInv, Loaded
    <2> QED BY <2>2, <2>3
  <1> QED BY <1>2, <1>3, <1>4 DEF SelectInv

LEMMA NextSelects ==
  ASSUME SelectInv, [Next]_vars
  PROVE  SelectInv'
  <1>1. ASSUME NEW i \in Instance, OtherStarts(i) \/ OtherEnds(i) PROVE SelectInv'
    BY <1>1, OtherSelects
  <1>2. ASSUME NEW t \in Task, Dispatch(t) PROVE SelectInv'
    BY <1>2, DispatchSelects
  <1>3. ASSUME NEW t \in Task, Start(t) PROVE SelectInv'
    BY <1>3, StartSelects
  <1>4. ASSUME NEW t \in Task, Succeed(t) PROVE SelectInv'
    BY <1>4, SucceedSelects
  <1>5. ASSUME NEW t \in Task, EmitRefused(t) PROVE SelectInv'
    BY <1>5, FailSelects DEF EmitRefused
  <1>6. ASSUME NEW t \in Task, NEW h \in Hint, Fail(t, h) PROVE SelectInv'
    BY <1>6, FailSelects
  <1>7. CASE UNCHANGED vars
    <2>1. /\ at' = at /\ attempt' = attempt /\ tried' = tried /\ last' = last /\ inst' = inst
          /\ select' = select /\ log' = log /\ letters' = letters /\ active' = active
      BY <1>7 DEF vars, envelope
    <2>2. Types' /\ Lettered' /\ Loaded'
      BY <2>1 DEF SelectInv, Types, Lettered, Loaded, On
    <2>3. \A t \in Task : History(t)'
      BY <2>1, Untouched DEF SelectInv
    <2> QED BY <2>2, <2>3 DEF SelectInv
  <1> QED BY <1>1, <1>2, <1>3, <1>4, <1>5, <1>6, <1>7 DEF Next

(* The envelope always serves exactly whom its last error asked for.       *)
THEOREM Selects == Spec => []SelectInv
  <1>1. Init => SelectInv
    BY InitSelects
  <1>2. SelectInv /\ [Next]_vars => SelectInv'
    BY NextSelects
  <1> QED BY <1>1, <1>2, PTL DEF Spec

(* RetryLands for every group of instances and every sequence of hints: no *)
(* order of hints, load or refused emissions makes an attempt run where    *)
(* the error before it did not ask for (Select, TriedMask, dispatch).      *)
THEOREM RetriesLand == Spec => []RetryLands
  <1>1. SelectInv => RetryLands
    <2> SUFFICES ASSUME SelectInv, NEW t \in Task, NEW n \in 2..Len(log[t])
                 PROVE  log[t][n].inst \in Wanted(t, n - 1)
      BY DEF RetryLands
    <2>1. Len(log[t]) \in Nat
      BY DEF SelectInv, Types
    <2>2. n - 1 \in 1..(Len(log[t]) - 1) /\ (n - 1) + 1 = n
      BY <2>1
    <2>3. \A k \in 1..(Len(log[t]) - 1) : log[t][k + 1].inst \in Wanted(t, k)
      BY DEF SelectInv, History
    <2>4. log[t][(n - 1) + 1].inst \in Wanted(t, n - 1)
      BY <2>2, <2>3
    <2> QED BY <2>2, <2>4
  <1> QED BY <1>1, Selects, PTL

(* FailsWhenDue for every policy: a task is given up at the attempt that   *)
(* makes it due, never before or after, with one dead letter               *)
(* (RetryPolicy::decide, dispatch).                                        *)
THEOREM GivenUpWhenDue == Spec => []FailsWhenDue
  <1>1. SelectInv => FailsWhenDue
    <2> SUFFICES ASSUME SelectInv PROVE FailsWhenDue
      OBVIOUS
    <2>1. letters \in Seq(Task)
      BY DEF SelectInv, Types
    <2>2. \A t \in Task : at[t] = "failed" <=> t \in ToSet(letters)
      BY <2>1 DEF SelectInv, Lettered, ToSet
    <2> QED BY <2>2 DEF FailsWhenDue, SelectInv, History, Failing, Lettered
  <1> QED BY <1>1, Selects, PTL
=============================================================================
