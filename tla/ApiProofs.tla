------------------------------ MODULE ApiProofs ------------------------------
(***************************************************************************)
(* Proofs about the library interface, for all variables, limits, files    *)
(* and arguments of calls.  The first part is about ApiInv: what the calls *)
(* do to the reference counters, to the limits and to the flag of          *)
(* asynchronous termination.  The second part is about AnswerInv: what the *)
(* solver has is what it was asked, what it finds on the root level        *)
(* follows from the clauses, and so its answers are right.  The third part *)
(* is about AppInv: the stand-alone solver asks about the file it read,    *)
(* and so its exit code and its model are right for that file.             *)
(***************************************************************************)
EXTENDS ApiClients, Recursion

-----------------------------------------------------------------------------
(* Reference counters.                                                     *)
Tables == [Vars -> 0 .. UIntMax]
Lits == LitsOver(Vars)

(* The relation of FrozenCounted between the user's table u and the        *)
(* internal table i for assumptions A and frozen literals C.               *)
Counted(u, i, A, C) ==
    \A v \in Vars :
        /\ i[v] < UIntMax => i[v] = u[v] + Occurrences(A, v) + Occurrences(C, v)
        /\ u[v] + Occurrences(A, v) + Occurrences(C, v) > 0 => i[v] > 0

(* The literals of a constraint are frozen when it is complete.            *)
FrozenLits(c) == IF c.closed THEN c.lits ELSE {}

(* Variables are positive.                                                 *)
LEMMA PositiveVars == \A v \in Vars : v \in Nat /\ v > 0
  BY ApiAssumption

(* Literals are integers other than zero.                                  *)
LEMMA LitsAreIntegers == \A l \in Lits : l \in Int /\ l # 0 /\ Var(l) \in Vars
  BY PositiveVars DEF Lits, LitsOver, Neg, Var

(* No table is indexed outside of it: a set of literals has a number of    *)
(* occurrences of each variable.                                           *)
LEMMA OccurrencesType ==
    ASSUME NEW S \in SUBSET Lits, NEW v \in Vars
    PROVE  Occurrences(S, v) \in Nat
<1>1. {l \in S : Var(l) = v} \subseteq {v, -v}
  BY LitsAreIntegers, PositiveVars DEF Var
<1>2. IsFiniteSet({v, -v})
  <2>1. IsFiniteSet({v}) /\ IsFiniteSet({-v})
    BY FS_Singleton
  <2>2. {v, -v} = {v} \cup {-v}
    OBVIOUS
  <2> QED
    BY <2>1, <2>2, FS_Union
<1>3. IsFiniteSet({l \in S : Var(l) = v})
  BY <1>1, <1>2, FS_Subset
<1> QED
  BY <1>3, FS_CardinalityType DEF Occurrences

(* Nothing occurs in the empty set.                                        *)
LEMMA OccurrencesEmpty ==
    ASSUME NEW v
    PROVE  Occurrences({}, v) = 0
<1>1. {l \in {} : Var(l) = v} = {}
  OBVIOUS
<1> QED
  BY <1>1, FS_EmptySet DEF Occurrences

(* A new literal is one more occurrence of its variable.                   *)
LEMMA OccurrencesAdd ==
    ASSUME NEW S \in SUBSET Lits, NEW l \in Lits, l \notin S, NEW v \in Vars
    PROVE  Occurrences(S \cup {l}, v) = Occurrences(S, v) + IF Var(l) = v THEN 1 ELSE 0
<1> DEFINE T == {k \in S : Var(k) = v}
<1>1. IsFiniteSet(T)
  <2>1. T \subseteq {v} \cup {-v}
    BY LitsAreIntegers, PositiveVars DEF Var
  <2>2. IsFiniteSet({v} \cup {-v})
    BY FS_Singleton, FS_Union
  <2> QED
    BY <2>1, <2>2, FS_Subset
<1>2. CASE Var(l) = v
  <2>1. {k \in S \cup {l} : Var(k) = v} = T \cup {l}
    BY <1>2
  <2>2. l \notin T
    OBVIOUS
  <2>3. Cardinality(T \cup {l}) = Cardinality(T) + 1
    BY <1>1, <2>2, FS_AddElement
  <2> QED
    BY <1>2, <2>1, <2>3 DEF Occurrences
<1>3. CASE Var(l) # v
  <2>1. {k \in S \cup {l} : Var(k) = v} = T
    BY <1>3
  <2>2. Cardinality(T) \in Nat
    BY <1>1, FS_CardinalityType
  <2> QED
    BY <1>3, <2>1, <2>2 DEF Occurrences
<1> QED
  BY <1>2, <1>3

-----------------------------------------------------------------------------
(* Melting the assumptions, as transition_to_unknown_state does.           *)
LEMMA MeltAssumptions ==
    ASSUME NEW u \in Tables, NEW i \in Tables, NEW A \in SUBSET Lits, NEW C \in SUBSET Lits,
           Counted(u, i, A, C)
    PROVE  MeltAll(i, A) \in Tables /\ Counted(u, MeltAll(i, A), {}, C)
<1>1. \A v \in Vars : Occurrences(A, v) \in Nat /\ Occurrences(C, v) \in Nat /\ Occurrences({}, v) = 0
  BY OccurrencesType, OccurrencesEmpty
<1>2. UIntMax \in Nat \ {0}
  BY ApiAssumption
<1>3. MeltAll(i, A) \in Tables
  BY <1>1, <1>2 DEF MeltAll, Tables
<1>4. ASSUME NEW v \in Vars
      PROVE  /\ MeltAll(i, A)[v] < UIntMax =>
                    MeltAll(i, A)[v] = u[v] + Occurrences({}, v) + Occurrences(C, v)
             /\ u[v] + Occurrences({}, v) + Occurrences(C, v) > 0 => MeltAll(i, A)[v] > 0
  <2>1. u[v] \in Nat /\ i[v] \in 0 .. UIntMax
    BY <1>2 DEF Tables
  <2>2. /\ i[v] < UIntMax => i[v] = u[v] + Occurrences(A, v) + Occurrences(C, v)
        /\ u[v] + Occurrences(A, v) + Occurrences(C, v) > 0 => i[v] > 0
    BY DEF Counted
  <2>3. MeltAll(i, A)[v] = IF i[v] < UIntMax /\ Occurrences(A, v) <= i[v]
                           THEN i[v] - Occurrences(A, v) ELSE UIntMax
    BY DEF MeltAll
  <2> QED
    BY <1>1, <1>2, <2>1, <2>2, <2>3
<1> QED
  BY <1>3, <1>4 DEF Counted

(* Melting the literals of a constraint, as reset_constraint does.         *)
LEMMA MeltConstraint ==
    ASSUME NEW u \in Tables, NEW i \in Tables, NEW A \in SUBSET Lits, NEW C \in SUBSET Lits,
           Counted(u, i, A, C)
    PROVE  MeltAll(i, C) \in Tables /\ Counted(u, MeltAll(i, C), A, {})
<1>1. Counted(u, i, C, A)
  <2>1. \A v \in Vars : u[v] \in Int /\ Occurrences(A, v) \in Int /\ Occurrences(C, v) \in Int
    BY OccurrencesType, ApiAssumption DEF Tables
  <2> QED
    BY <2>1 DEF Counted
<1>2. MeltAll(i, C) \in Tables /\ Counted(u, MeltAll(i, C), {}, A)
  BY <1>1, MeltAssumptions
<1>3. \A v \in Vars : u[v] \in Int /\ Occurrences(A, v) \in Int /\ Occurrences({}, v) \in Int
  BY OccurrencesType, OccurrencesEmpty, ApiAssumption DEF Tables
<1> QED
  BY <1>2, <1>3 DEF Counted

(* Freezing the literals of a constraint that is complete.                 *)
LEMMA FreezeConstraint ==
    ASSUME NEW u \in Tables, NEW i \in Tables, NEW A \in SUBSET Lits, NEW C \in SUBSET Lits,
           Counted(u, i, A, {})
    PROVE  FreezeAll(i, C) \in Tables /\ Counted(u, FreezeAll(i, C), A, C)
<1>1. \A v \in Vars : Occurrences(A, v) \in Nat /\ Occurrences(C, v) \in Nat /\ Occurrences({}, v) = 0
  BY OccurrencesType, OccurrencesEmpty
<1>2. UIntMax \in Nat \ {0}
  BY ApiAssumption
<1>3. FreezeAll(i, C) \in Tables
  BY <1>1, <1>2 DEF FreezeAll, Tables
<1>4. ASSUME NEW v \in Vars
      PROVE  /\ FreezeAll(i, C)[v] < UIntMax =>
                    FreezeAll(i, C)[v] = u[v] + Occurrences(A, v) + Occurrences(C, v)
             /\ u[v] + Occurrences(A, v) + Occurrences(C, v) > 0 => FreezeAll(i, C)[v] > 0
  <2>1. u[v] \in Nat /\ i[v] \in 0 .. UIntMax
    BY <1>2 DEF Tables
  <2>2. /\ i[v] < UIntMax => i[v] = u[v] + Occurrences(A, v) + Occurrences({}, v)
        /\ u[v] + Occurrences(A, v) + Occurrences({}, v) > 0 => i[v] > 0
    BY DEF Counted
  <2>3. FreezeAll(i, C)[v] = IF i[v] + Occurrences(C, v) < UIntMax
                             THEN i[v] + Occurrences(C, v) ELSE UIntMax
    BY DEF FreezeAll
  <2> QED
    BY <1>1, <1>2, <2>1, <2>2, <2>3
<1> QED
  BY <1>3, <1>4 DEF Counted

(* Freezing one literal that is assumed.                                   *)
LEMMA FreezeAssumption ==
    ASSUME NEW u \in Tables, NEW i \in Tables, NEW A \in SUBSET Lits, NEW C \in SUBSET Lits,
           Counted(u, i, A, C), NEW l \in Lits, l \notin A
    PROVE  Freeze(i, l) \in Tables /\ Counted(u, Freeze(i, l), A \cup {l}, C)
<1>1. \A v \in Vars : Occurrences(A, v) \in Nat /\ Occurrences(C, v) \in Nat
  BY OccurrencesType
<1>2. UIntMax \in Nat \ {0} /\ Var(l) \in Vars
  BY ApiAssumption, LitsAreIntegers
<1>3. Freeze(i, l) \in Tables
  BY <1>2 DEF Freeze, Tables
<1>4. ASSUME NEW v \in Vars
      PROVE  /\ Freeze(i, l)[v] < UIntMax =>
                    Freeze(i, l)[v] = u[v] + Occurrences(A \cup {l}, v) + Occurrences(C, v)
             /\ u[v] + Occurrences(A \cup {l}, v) + Occurrences(C, v) > 0 => Freeze(i, l)[v] > 0
  <2>1. u[v] \in Nat /\ i[v] \in 0 .. UIntMax
    BY <1>2 DEF Tables
  <2>2. /\ i[v] < UIntMax => i[v] = u[v] + Occurrences(A, v) + Occurrences(C, v)
        /\ u[v] + Occurrences(A, v) + Occurrences(C, v) > 0 => i[v] > 0
    BY DEF Counted
  <2>3. Freeze(i, l)[v] = IF v = Var(l) /\ i[v] < UIntMax THEN i[v] + 1 ELSE i[v]
    BY DEF Freeze, Tables
  <2>4. Occurrences(A \cup {l}, v) = Occurrences(A, v) + IF Var(l) = v THEN 1 ELSE 0
    BY OccurrencesAdd
  <2> QED
    BY <1>1, <1>2, <2>1, <2>2, <2>3, <2>4
<1> QED
  BY <1>3, <1>4 DEF Counted

(* Solver::freeze and Solver::melt change both tables.                     *)
LEMMA FreezeBoth ==
    ASSUME NEW u \in Tables, NEW i \in Tables, NEW A \in SUBSET Lits, NEW C \in SUBSET Lits,
           Counted(u, i, A, C), NEW w \in Vars
    PROVE  /\ Freeze(u, w) \in Tables /\ Freeze(i, w) \in Tables
           /\ Counted(Freeze(u, w), Freeze(i, w), A, C)
<1>1. \A v \in Vars : Occurrences(A, v) \in Nat /\ Occurrences(C, v) \in Nat
  BY OccurrencesType
<1>2. UIntMax \in Nat \ {0} /\ Var(w) = w
  BY ApiAssumption, PositiveVars DEF Var
<1>3. Freeze(i, w) \in Tables /\ Freeze(u, w) \in Tables
  BY <1>2 DEF Freeze, Tables
<1>4. ASSUME NEW v \in Vars
      PROVE  /\ Freeze(i, w)[v] < UIntMax =>
                    Freeze(i, w)[v] = Freeze(u, w)[v] + Occurrences(A, v) + Occurrences(C, v)
             /\ Freeze(u, w)[v] + Occurrences(A, v) + Occurrences(C, v) > 0 => Freeze(i, w)[v] > 0
  <2>1. u[v] \in 0 .. UIntMax /\ i[v] \in 0 .. UIntMax
    BY <1>2 DEF Tables
  <2>2. /\ i[v] < UIntMax => i[v] = u[v] + Occurrences(A, v) + Occurrences(C, v)
        /\ u[v] + Occurrences(A, v) + Occurrences(C, v) > 0 => i[v] > 0
    BY DEF Counted
  <2>3. /\ Freeze(i, w)[v] = IF v = w /\ i[v] < UIntMax THEN i[v] + 1 ELSE i[v]
        /\ Freeze(u, w)[v] = IF v = w /\ u[v] < UIntMax THEN u[v] + 1 ELSE u[v]
    BY <1>2 DEF Freeze, Tables
  <2> QED
    BY <1>1, <1>2, <2>1, <2>2, <2>3
<1> QED
  BY <1>3, <1>4 DEF Counted

(* A counter that melts is not zero, so that it does not wrap.             *)
LEMMA MeltBoth ==
    ASSUME NEW u \in Tables, NEW i \in Tables, NEW A \in SUBSET Lits, NEW C \in SUBSET Lits,
           Counted(u, i, A, C), NEW w \in Vars, u[w] > 0
    PROVE  /\ Melt(u, w) \in Tables /\ Melt(i, w) \in Tables
           /\ Counted(Melt(u, w), Melt(i, w), A, C)
<1>1. \A v \in Vars : Occurrences(A, v) \in Nat /\ Occurrences(C, v) \in Nat
  BY OccurrencesType
<1>2. UIntMax \in Nat \ {0} /\ Var(w) = w
  BY ApiAssumption, PositiveVars DEF Var
<1>3. \A n \in 1 .. UIntMax - 1 : (n + UIntMax) % (UIntMax + 1) = n - 1
  <2> TAKE n \in 1 .. UIntMax - 1
  <2>1. n + UIntMax = (UIntMax + 1) * 1 + (n - 1) /\ n - 1 \in 0 .. UIntMax
    BY <1>2
  <2> QED
    BY <1>2, <2>1
<1>4. ASSUME NEW t \in Tables, t[w] > 0
      PROVE  /\ Melt(t, w) \in Tables
             /\ \A v \in Vars : Melt(t, w)[v] = IF v = w /\ t[v] < UIntMax THEN t[v] - 1 ELSE t[v]
  <2>1. t[w] \in 0 .. UIntMax
    BY DEF Tables
  <2>2. t[w] < UIntMax => (t[w] + UIntMax) % (UIntMax + 1) = t[w] - 1
    BY <1>2, <1>3, <1>4, <2>1
  <2>3. Melt(t, w) = [t EXCEPT ![w] = IF t[w] < UIntMax THEN t[w] - 1 ELSE t[w]]
    BY <1>2, <2>2 DEF Melt, Tables
  <2> QED
    BY <1>2, <1>4, <2>1, <2>3 DEF Tables
<1>5. i[w] > 0
  BY <1>1, ApiAssumption DEF Counted, Tables
<1>6. Melt(u, w) \in Tables /\ Melt(i, w) \in Tables
  BY <1>4, <1>5
<1>7. ASSUME NEW v \in Vars
      PROVE  /\ Melt(i, w)[v] < UIntMax =>
                    Melt(i, w)[v] = Melt(u, w)[v] + Occurrences(A, v) + Occurrences(C, v)
             /\ Melt(u, w)[v] + Occurrences(A, v) + Occurrences(C, v) > 0 => Melt(i, w)[v] > 0
  <2>1. u[v] \in 0 .. UIntMax /\ i[v] \in 0 .. UIntMax
    BY <1>2 DEF Tables
  <2>2. /\ i[v] < UIntMax => i[v] = u[v] + Occurrences(A, v) + Occurrences(C, v)
        /\ u[v] + Occurrences(A, v) + Occurrences(C, v) > 0 => i[v] > 0
    BY DEF Counted
  <2>3. /\ Melt(i, w)[v] = IF v = w /\ i[v] < UIntMax THEN i[v] - 1 ELSE i[v]
        /\ Melt(u, w)[v] = IF v = w /\ u[v] < UIntMax THEN u[v] - 1 ELSE u[v]
    BY <1>4, <1>5
  <2> QED
    BY <1>1, <1>2, <2>1, <2>2, <2>3
<1> QED
  BY <1>6, <1>7 DEF Counted

-----------------------------------------------------------------------------
(* What the invariant says about the data a call changes, with the table   *)
(* of the user as it was: the new assumptions, constraint and counters.    *)
Constraints == [lits : SUBSET Lits, all : SUBSET Lits, closed : BOOLEAN, unsat : BOOLEAN]
Data(A, c, t) ==
    /\ A \in SUBSET Lits /\ c \in Constraints /\ t \in Tables
    /\ Counted(frozen.user, t, A, FrozenLits(c))
    /\ c.lits # {} /\ ~c.closed => adding.constraint

(* FrozenCounted in these terms.                                           *)
LEMMA CountedInvariant ==
    ASSUME ApiTypes
    PROVE  FrozenCounted <=>
               Counted(frozen.user, frozen.internal, assumptions, FrozenLits(constraint))
<1>1. \A v \in Vars : /\ Occurrences(assumptions, v) \in Nat /\ Occurrences(constraint.lits, v) \in Nat
                      /\ Occurrences({}, v) = 0 /\ frozen.user[v] \in Nat
  BY OccurrencesType, OccurrencesEmpty, ApiAssumption DEF ApiTypes, Lits
<1>2. \A v \in Vars : frozen.user[v] + Needed(v) =
          frozen.user[v] + Occurrences(assumptions, v) + Occurrences(FrozenLits(constraint), v)
  BY <1>1 DEF Needed, FrozenLits
<1> QED
  BY <1>2 DEF FrozenCounted, Counted

(* The data of the state itself.                                           *)
LEMMA InvariantData ==
    ASSUME ApiInv
    PROVE  /\ Data(assumptions, constraint, frozen.internal)
           /\ frozen.user \in Tables
  BY CountedInvariant DEF ApiInv, ApiTypes, OpenConstraint, Data, Constraints, Lits, Tables

(* transition_to_unknown_state takes what was frozen along with it.        *)
LEMMA KeptData ==
    ASSUME ApiInv
    PROVE  Data(KeptAssumptions, KeptConstraint, KeptCounters)
<1>1. Data(assumptions, constraint, frozen.internal) /\ frozen.user \in Tables
  BY InvariantData
<1>2. CASE ~Answered
  BY <1>1, <1>2 DEF KeptAssumptions, KeptConstraint, KeptCounters
<1>3. CASE Answered
  <2>1. ~adding.constraint
    BY <1>3 DEF ApiInv, OpenConstraint, Answered
  <2>2. FrozenLits(constraint) = constraint.lits /\ constraint.lits \in SUBSET Lits
    BY <1>1, <2>1 DEF Data, FrozenLits, Constraints
  <2> DEFINE t == MeltAll(frozen.internal, assumptions)
  <2>3. t \in Tables /\ Counted(frozen.user, t, {}, constraint.lits)
    BY <1>1, <2>2, MeltAssumptions DEF Data
  <2>4. /\ MeltAll(t, constraint.lits) \in Tables
        /\ Counted(frozen.user, MeltAll(t, constraint.lits), {}, {})
    BY <1>1, <2>2, <2>3, MeltConstraint
  <2>5. NoConstraint \in Constraints /\ FrozenLits(NoConstraint) = {} /\ NoConstraint.lits = {}
    BY DEF NoConstraint, Constraints, FrozenLits
  <2> QED
    BY <1>3, <2>4, <2>5 DEF KeptAssumptions, KeptConstraint, KeptCounters, Data
<1> QED
  BY <1>2, <1>3

(* A literal after a complete constraint starts anew.                      *)
LEMMA RenewedData ==
    ASSUME ApiInv
    PROVE  Data(KeptAssumptions, Renewed, RenewedCounters) /\ ~Renewed.closed
<1>1. Data(KeptAssumptions, KeptConstraint, KeptCounters) /\ frozen.user \in Tables
  BY KeptData, InvariantData
<1>2. CASE ~KeptConstraint.closed
  BY <1>1, <1>2 DEF Renewed, RenewedCounters
<1>3. CASE KeptConstraint.closed
  <2>1. FrozenLits(KeptConstraint) = KeptConstraint.lits /\ KeptConstraint.lits \in SUBSET Lits
    BY <1>1, <1>3 DEF Data, FrozenLits, Constraints
  <2>2. /\ MeltAll(KeptCounters, KeptConstraint.lits) \in Tables
        /\ Counted(frozen.user, MeltAll(KeptCounters, KeptConstraint.lits), KeptAssumptions, {})
    BY <1>1, <2>1, MeltConstraint DEF Data
  <2>3. /\ NoConstraint \in Constraints /\ FrozenLits(NoConstraint) = {} /\ NoConstraint.lits = {}
        /\ ~NoConstraint.closed
    BY DEF NoConstraint, Constraints, FrozenLits
  <2> QED
    BY <1>1, <1>3, <2>2, <2>3 DEF Renewed, RenewedCounters, Data
<1> QED
  BY <1>2, <1>3

-----------------------------------------------------------------------------
(* The invariant in three parts: the data of the solver, the call of solve *)
(* and the client.                                                         *)
DataInv ==
    /\ adding \in [clause : BOOLEAN, constraint : BOOLEAN]
    /\ assumptions \subseteq Lits /\ constraint \in Constraints
    /\ frozen \in [user : Tables, internal : Tables]
    /\ OpenConstraint /\ FrozenCounted

RunInv ==
    /\ state \in VALID \cup {"SOLVING", "ABORTED"}
    /\ limits \in [DOMAIN NoLimits -> Int]
    /\ stage \in Stages /\ result \in {0, 10, 20}
    /\ simplifying \in BOOLEAN /\ forced \in BOOLEAN /\ called \in BOOLEAN
    /\ given \in Givens /\ last \in Givens
    /\ OneCall /\ LimitsGiven /\ FlagHasCause

ClientInv ==
    /\ client \in {"tester", "app", "user"}
    /\ client = "app" => CubeInFile

(* They make up the invariant.                                             *)
LEMMA InvariantParts == ApiInv <=> DataInv /\ RunInv /\ ClientInv
  BY DEF ApiInv, ApiTypes, DataInv, RunInv, ClientInv, Constraints, Tables, Lits

(* The same after a step. *)
LEMMA PartsTogether ==
    ASSUME DataInv', RunInv', ClientInv'
    PROVE  ApiInv'
  BY DEF ApiInv, ApiTypes, DataInv, RunInv, ClientInv, Constraints, Tables, Lits

(* What the client does with its own variables in a step.                  *)
ClientSide ==
    /\ client' = client
    /\ client = "app" => CubeInFile'
    /\ adding'.constraint => <<client', turn'>> \in {<<"tester", "constrain">>, <<"user", "user">>}

(* What it remembers with a call other than solve.                         *)
GhostsKept ==
    /\ UNCHANGED <<last, called>>
    /\ given' \in Givens /\ (given.limited => given'.limited)

(* Its part of the invariant stays.                                        *)
LEMMA ClientKept ==
    ASSUME ApiInv, ClientSide
    PROVE  ClientInv'
  BY InvariantParts DEF ClientSide, ClientInv

(* A call leaves the call of solve that there will be as it was.           *)
LEMMA RunKept ==
    ASSUME ApiInv, state \in VALID, state' \in VALID, UNCHANGED <<job, async, limits>>, GhostsKept
    PROVE  RunInv'
<1>1. RunInv /\ stage = "idle"
  BY InvariantParts DEF RunInv, OneCall, VALID, READY
<1>2. OneCall'
  BY <1>1 DEF job, OneCall, VALID, READY
<1>3. LimitsGiven'
  BY <1>1 DEF job, LimitsGiven, RunInv, GhostsKept
<1>4. FlagHasCause'
  BY <1>1 DEF job, async, FlagHasCause, RunInv, GhostsKept
<1> QED
  BY <1>1, <1>2, <1>3, <1>4 DEF job, async, RunInv, GhostsKept

(* A step that changes none of the data, but for unsat_constraint.         *)
LEMMA DataStays ==
    ASSUME ApiInv, UNCHANGED <<adding, assumptions, frozen>>, ClientSide,
           constraint' \in Constraints, constraint'.lits = constraint.lits,
           constraint'.closed = constraint.closed, adding.constraint => state' = "ADDING"
    PROVE  DataInv'
<1>1. DataInv
  BY InvariantParts
<1>2. OpenConstraint'
  BY <1>1 DEF DataInv, OpenConstraint, ClientSide
<1>3. FrozenCounted'
  BY <1>1 DEF DataInv, FrozenCounted, Needed
<1> QED
  BY <1>1, <1>2, <1>3 DEF DataInv

(* A call after which the data are those that Become says.                 *)
LEMMA DataBecomes ==
    ASSUME ApiInv, NEW s, NEW A, NEW c, NEW t, Become(s, A, c, t),
           A \in SUBSET Lits, c \in Constraints, t \in Tables,
           Counted(frozen.user, t, A, FrozenLits(c)),
           c.lits # {} /\ ~c.closed => adding'.constraint,
           adding' \in [clause : BOOLEAN, constraint : BOOLEAN], ClientSide,
           adding'.constraint => s = "ADDING"
    PROVE  DataInv'
<1>1. DataInv
  BY InvariantParts
<1>2. /\ assumptions' = A /\ constraint' = c /\ state' = s
      /\ frozen' = [frozen EXCEPT !.internal = t]
  BY DEF Become
<1>3. frozen' \in [user : Tables, internal : Tables] /\ frozen'.user = frozen.user /\ frozen'.internal = t
  BY <1>1, <1>2 DEF DataInv
<1>4. OpenConstraint'
  BY <1>2 DEF OpenConstraint, ClientSide
<1>5. FrozenCounted'
  <2>1. \A v \in Vars : Needed(v)' = Occurrences(A, v) + Occurrences(FrozenLits(c), v)
    <3>1. \A v \in Vars : Occurrences(A, v) \in Nat /\ Occurrences({}, v) = 0
      BY OccurrencesType, OccurrencesEmpty
    <3> QED
      BY <1>2, <3>1 DEF Needed, FrozenLits
  <2>2. \A v \in Vars : /\ Occurrences(A, v) \in Nat /\ Occurrences(FrozenLits(c), v) \in Nat
                        /\ frozen.user[v] \in Nat
    <3>1. FrozenLits(c) \in SUBSET Lits
      BY DEF FrozenLits, Constraints
    <3>2. \A v \in Vars : frozen.user[v] \in Nat
      BY <1>1, ApiAssumption DEF DataInv, Tables
    <3> QED
      BY <3>1, <3>2, OccurrencesType
  <2>3. \A v \in Vars : /\ frozen'.internal[v] = t[v] /\ frozen'.user[v] = frozen.user[v]
                        /\ frozen.user[v] + Needed(v)' =
                              frozen.user[v] + Occurrences(A, v) + Occurrences(FrozenLits(c), v)
    BY <1>3, <2>1, <2>2
  <2> QED
    BY <2>3 DEF FrozenCounted, Counted
<1> QED
  BY <1>2, <1>3, <1>4, <1>5 DEF DataInv

-----------------------------------------------------------------------------
(* The calls.                                                              *)

(* What transition_to_unknown_state leaves is right for a call that        *)
(* changes neither the assumptions nor the constraint any further.         *)
LEMMA TransitionKeeps ==
    ASSUME ApiInv, state \in VALID, NEW s \in VALID,
           Become(s, KeptAssumptions, KeptConstraint, KeptCounters),
           adding' \in [clause : BOOLEAN, constraint : BOOLEAN],
           adding'.constraint = adding.constraint, adding.constraint => s = "ADDING",
           UNCHANGED <<job, async, limits>>, GhostsKept, ClientSide
    PROVE  ApiInv'
<1>1. Data(KeptAssumptions, KeptConstraint, KeptCounters)
  BY KeptData
<1>2. DataInv'
  BY <1>1, DataBecomes DEF Data
<1>3. RunInv'
  BY RunKept DEF Become
<1> QED
  BY <1>2, <1>3, ClientKept, PartsTogether

(* Solver::add of a literal.                                               *)
LEMMA AddLitKeeps ==
    ASSUME ApiInv, NEW l, AddLit(l), GhostsKept, ClientSide
    PROVE  ApiInv'
<1>1. adding \in [clause : BOOLEAN, constraint : BOOLEAN]
  BY InvariantParts DEF DataInv
<1>2. /\ adding' \in [clause : BOOLEAN, constraint : BOOLEAN]
      /\ adding'.constraint = adding.constraint
  BY <1>1 DEF AddLit
<1> QED
  BY <1>2, TransitionKeeps DEF AddLit, VALID

(* Solver::add (0), with no constraint open.                               *)
LEMMA AddZeroKeeps ==
    ASSUME ApiInv, AddZero, ~adding.constraint, GhostsKept, ClientSide
    PROVE  ApiInv'
<1>1. adding \in [clause : BOOLEAN, constraint : BOOLEAN]
  BY InvariantParts DEF DataInv
<1>2. /\ adding' \in [clause : BOOLEAN, constraint : BOOLEAN]
      /\ adding'.constraint = adding.constraint
  BY <1>1 DEF AddZero
<1> QED
  BY <1>2, TransitionKeeps DEF AddZero, VALID, READY

(* Solver::reserve.                                                        *)
LEMMA ReserveKeeps ==
    ASSUME ApiInv, NEW n, Reserve(n), ~adding.constraint, GhostsKept, ClientSide
    PROVE  ApiInv'
<1>1. adding \in [clause : BOOLEAN, constraint : BOOLEAN]
  BY InvariantParts DEF DataInv
<1> QED
  BY <1>1, TransitionKeeps DEF Reserve, VALID, READY

(* Solver::constrain of a literal, which is not frozen yet.                *)
LEMMA ConstrainLitKeeps ==
    ASSUME ApiInv, NEW l \in Lits, ConstrainLit(l), GhostsKept, ClientSide
    PROVE  ApiInv'
<1> DEFINE c == [Renewed EXCEPT !.lits = @ \cup {l}, !.all = @ \cup {l}]
<1>1. adding \in [clause : BOOLEAN, constraint : BOOLEAN]
  BY InvariantParts DEF DataInv
<1>2. adding' \in [clause : BOOLEAN, constraint : BOOLEAN] /\ adding'.constraint
  BY <1>1 DEF ConstrainLit
<1>3. Data(KeptAssumptions, Renewed, RenewedCounters) /\ ~Renewed.closed
  BY RenewedData
<1>4. c \in Constraints /\ ~c.closed
  BY <1>3 DEF Data, Constraints
<1>5. FrozenLits(c) = {} /\ FrozenLits(Renewed) = {}
  BY <1>3, <1>4 DEF FrozenLits
<1>6. Become("ADDING", KeptAssumptions, c, RenewedCounters)
  BY DEF ConstrainLit
<1> HIDE DEF c
<1>7. DataInv'
  BY <1>2, <1>3, <1>4, <1>5, <1>6, DataBecomes DEF Data
<1>8. RunInv'
  BY <1>6, RunKept DEF ConstrainLit, Become, VALID
<1> QED
  BY <1>7, <1>8, ClientKept, PartsTogether

(* Solver::constrain (0) freezes the literals that are left.               *)
LEMMA ConstrainZeroKeeps ==
    ASSUME ApiInv, ConstrainZero, GhostsKept, ClientSide
    PROVE  ApiInv'
<1>1. adding \in [clause : BOOLEAN, constraint : BOOLEAN]
  BY InvariantParts DEF DataInv
<1>2. adding' \in [clause : BOOLEAN, constraint : BOOLEAN] /\ ~adding'.constraint
  BY <1>1 DEF ConstrainZero
<1>3. Data(KeptAssumptions, Renewed, RenewedCounters) /\ ~Renewed.closed
  BY RenewedData
<1>4. PICK lits \in SUBSET Lits, un \in BOOLEAN :
          Become("UNKNOWN", KeptAssumptions,
                 [lits |-> lits, all |-> Renewed.all, closed |-> TRUE, unsat |-> un],
                 FreezeAll(RenewedCounters, lits))
  <2>1. Live(root.units, Renewed.lits) \in SUBSET Lits
    BY <1>3 DEF Data, Constraints, Live
  <2> DEFINE left == Live(root.units, Renewed.lits)
             true == Sat(root.units, Renewed.lits) \/ \E l \in left : -l \in left
             kept == IF true THEN {} ELSE left
             un == ~true /\ left = {}
  <2>2. Become("UNKNOWN", KeptAssumptions,
               [lits |-> kept, all |-> Renewed.all, closed |-> TRUE, unsat |-> un],
               FreezeAll(RenewedCounters, kept))
    BY DEF ConstrainZero
  <2>3. kept \in SUBSET Lits /\ un \in BOOLEAN
    BY <2>1
  <2> HIDE DEF kept, un
  <2> QED
    BY <2>2, <2>3
<1> DEFINE c == [lits |-> lits, all |-> Renewed.all, closed |-> TRUE, unsat |-> un]
<1>5. c \in Constraints /\ FrozenLits(c) = lits /\ c.closed
  BY <1>3 DEF Data, Constraints, FrozenLits
<1>6. FrozenLits(Renewed) = {}
  BY <1>3 DEF FrozenLits
<1>7. /\ FreezeAll(RenewedCounters, lits) \in Tables
      /\ Counted(frozen.user, FreezeAll(RenewedCounters, lits), KeptAssumptions, lits)
  BY <1>3, <1>6, FreezeConstraint, InvariantData DEF Data
<1>8. DataInv'
  <2> HIDE DEF c
  <2>1. Become("UNKNOWN", KeptAssumptions, c, FreezeAll(RenewedCounters, lits))
    BY <1>4 DEF c
  <2> QED
    BY <1>2, <1>3, <1>5, <1>7, <2>1, DataBecomes DEF Data
<1>9. RunInv'
  BY <1>4, RunKept DEF ConstrainZero, Become, VALID, READY
<1> QED
  BY <1>8, <1>9, ClientKept, PartsTogether

(* Solver::assume freezes a literal once.                                  *)
LEMMA AssumeKeeps ==
    ASSUME ApiInv, NEW l \in Lits, Assume(l), ~adding.constraint, GhostsKept, ClientSide
    PROVE  ApiInv'
<1>1. adding' \in [clause : BOOLEAN, constraint : BOOLEAN] /\ ~adding'.constraint
  BY InvariantParts DEF DataInv, Assume
<1>2. Data(KeptAssumptions, KeptConstraint, KeptCounters)
  BY KeptData
<1> DEFINE t == IF l \in KeptAssumptions THEN KeptCounters ELSE Freeze(KeptCounters, l)
<1>3. /\ t \in Tables
      /\ Counted(frozen.user, t, KeptAssumptions \cup {l}, FrozenLits(KeptConstraint))
  <2>1. FrozenLits(KeptConstraint) \in SUBSET Lits
    BY <1>2 DEF Data, FrozenLits, Constraints
  <2>2. CASE l \in KeptAssumptions
    <3>1. KeptAssumptions \cup {l} = KeptAssumptions
      BY <2>2
    <3> QED
      BY <1>2, <2>2, <3>1 DEF Data
  <2>3. CASE l \notin KeptAssumptions
    BY <1>2, <2>1, <2>3, FreezeAssumption, InvariantData DEF Data
  <2> QED
    BY <2>2, <2>3
<1>4. Become("UNKNOWN", KeptAssumptions \cup {l}, KeptConstraint, t)
  BY DEF Assume
<1> HIDE DEF t
<1>5. DataInv'
  <2>1. KeptConstraint.lits # {} /\ ~KeptConstraint.closed => adding'.constraint
    BY <1>2 DEF Data, Assume
  <2>2. KeptAssumptions \cup {l} \in SUBSET Lits /\ KeptConstraint \in Constraints
    BY <1>2 DEF Data
  <2> QED
    BY <1>1, <1>3, <1>4, <2>1, <2>2, DataBecomes
<1>6. RunInv'
  BY <1>4, RunKept DEF Assume, Become, VALID, READY
<1> QED
  BY <1>5, <1>6, ClientKept, PartsTogether

(* Solver::reset_assumptions and Solver::reset_constraint.                 *)
LEMMA ResetsKeep ==
    ASSUME ApiInv, ResetAssumptions \/ ResetConstraint, ~adding.constraint, GhostsKept, ClientSide
    PROVE  ApiInv'
<1>1. adding' = adding /\ adding \in [clause : BOOLEAN, constraint : BOOLEAN]
  BY InvariantParts DEF DataInv, ResetAssumptions, ResetConstraint
<1>2. Data(KeptAssumptions, KeptConstraint, KeptCounters) /\ frozen.user \in Tables
  BY KeptData, InvariantData
<1>3. FrozenLits(KeptConstraint) = KeptConstraint.lits /\ KeptConstraint.lits \in SUBSET Lits
  BY <1>2 DEF Data, FrozenLits, Constraints
<1>4. RunInv'
  BY RunKept DEF ResetAssumptions, ResetConstraint, Become, VALID, READY
<1>5. DataInv'
  <2>1. CASE ResetAssumptions
    <3>1. /\ MeltAll(KeptCounters, KeptAssumptions) \in Tables
          /\ Counted(frozen.user, MeltAll(KeptCounters, KeptAssumptions), {},
                     FrozenLits(KeptConstraint))
      BY <1>2, <1>3, MeltAssumptions DEF Data
    <3>2. Become("UNKNOWN", {}, KeptConstraint, MeltAll(KeptCounters, KeptAssumptions))
      BY <2>1 DEF ResetAssumptions
    <3> QED
      BY <1>1, <1>2, <3>1, <3>2, DataBecomes DEF Data
  <2>2. CASE ResetConstraint
    <3>1. /\ MeltAll(KeptCounters, KeptConstraint.lits) \in Tables
          /\ Counted(frozen.user, MeltAll(KeptCounters, KeptConstraint.lits), KeptAssumptions, {})
      BY <1>2, <1>3, MeltConstraint DEF Data
    <3>2. Become("UNKNOWN", KeptAssumptions, NoConstraint, MeltAll(KeptCounters, KeptConstraint.lits))
      BY <2>2 DEF ResetConstraint
    <3>3. NoConstraint \in Constraints /\ FrozenLits(NoConstraint) = {} /\ NoConstraint.lits = {}
      BY DEF NoConstraint, Constraints, FrozenLits
    <3> QED
      BY <1>1, <1>2, <3>1, <3>2, <3>3, DataBecomes DEF Data
  <2> QED
    BY <2>1, <2>2
<1> QED
  BY <1>4, <1>5, ClientKept, PartsTogether

(* Solver::freeze and Solver::melt. *)
LEMMA FreezeMeltKeep ==
    ASSUME ApiInv, NEW v \in Vars, FreezeVar(v) \/ MeltVar(v), GhostsKept, ClientSide
    PROVE  ApiInv'
<1>1. /\ UNCHANGED <<state, adding, assumptions, constraint, limits, job, async>>
      /\ state \in VALID
  BY DEF FreezeVar, MeltVar
<1>2. DataInv /\ Data(assumptions, constraint, frozen.internal) /\ frozen.user \in Tables
  BY InvariantParts, InvariantData
<1>3. RunInv'
  BY <1>1, RunKept
<1>4. FrozenLits(constraint) \in SUBSET Lits
  BY <1>2 DEF Data, FrozenLits, Constraints
<1>5. PICK u \in Tables, i \in Tables :
          /\ frozen' = [user |-> u, internal |-> i]
          /\ Counted(u, i, assumptions, FrozenLits(constraint))
  <2>1. CASE FreezeVar(v)
    <3>1. frozen' = [user |-> Freeze(frozen.user, v), internal |-> Freeze(frozen.internal, v)]
      BY <2>1 DEF FreezeVar
    <3> QED
      BY <1>2, <1>4, <3>1, FreezeBoth DEF Data
  <2>2. CASE MeltVar(v)
    <3>1. /\ frozen' = [user |-> Melt(frozen.user, v), internal |-> Melt(frozen.internal, v)]
          /\ frozen.user[v] > 0
      BY <2>2 DEF MeltVar
    <3> QED
      BY <1>2, <1>4, <3>1, MeltBoth DEF Data
  <2> QED
    BY <2>1, <2>2
<1>6. FrozenCounted'
  <2>1. \A w \in Vars : Needed(w)' = Needed(w)
    BY <1>1 DEF Needed
  <2>2. \A w \in Vars : Needed(w) = Occurrences(assumptions, w) + Occurrences(FrozenLits(constraint), w)
    <3>1. \A w \in Vars : Occurrences(assumptions, w) \in Nat /\ Occurrences({}, w) = 0
      BY <1>2, OccurrencesType, OccurrencesEmpty DEF Data
    <3> QED
      BY <3>1 DEF Needed, FrozenLits
  <2>3. \A w \in Vars : /\ u[w] \in Nat /\ Occurrences(assumptions, w) \in Nat
                        /\ Occurrences(FrozenLits(constraint), w) \in Nat
    <3>1. \A w \in Vars : u[w] \in Nat
      BY ApiAssumption DEF Tables
    <3> QED
      BY <1>2, <1>4, <3>1, OccurrencesType DEF Data
  <2>4. \A w \in Vars : u[w] + Needed(w)' =
            u[w] + Occurrences(assumptions, w) + Occurrences(FrozenLits(constraint), w)
    BY <2>1, <2>2, <2>3
  <2>5. frozen'.user = u /\ frozen'.internal = i
    BY <1>5
  <2> QED
    BY <1>5, <2>4, <2>5 DEF FrozenCounted, Counted
<1>7. OpenConstraint'
  BY <1>1, <1>2 DEF DataInv, OpenConstraint, ClientSide
<1>8. DataInv'
  BY <1>1, <1>2, <1>5, <1>6, <1>7 DEF DataInv
<1> QED
  BY <1>3, <1>8, ClientKept, PartsTogether

(* Solver::limit. *)
LEMMA LimitKeeps ==
    ASSUME ApiInv, NEW name \in DOMAIN NoLimits, NEW n \in Int, SetLimit(name, n), ClientSide,
           UNCHANGED <<last, called>>, given' \in Givens, given'.limited
    PROVE  ApiInv'
<1>1. DataInv'
  <2>1. constraint \in Constraints /\ (adding.constraint => state = "ADDING")
    BY InvariantParts DEF DataInv, OpenConstraint
  <2> QED
    BY <2>1, DataStays DEF SetLimit
<1>2. RunInv /\ stage = "idle"
  BY InvariantParts DEF RunInv, OneCall, SetLimit, VALID, READY
<1>3. limits' \in [DOMAIN NoLimits -> Int]
  BY <1>2 DEF SetLimit, RunInv
<1>4. OneCall' /\ LimitsGiven'
  BY <1>2 DEF SetLimit, job, OneCall, LimitsGiven, RunInv
<1>5. FlagHasCause'
  BY <1>2 DEF SetLimit, job, async, FlagHasCause, RunInv
<1>6. RunInv'
  BY <1>2, <1>3, <1>4, <1>5 DEF SetLimit, job, async, RunInv
<1> QED
  BY <1>1, <1>6, ClientKept, PartsTogether

(* Calls that leave the data, the limits and the call of solve alone, and  *)
(* steps in which the client makes no call.                                *)
LEMMA QuietKeeps ==
    ASSUME ApiInv, UNCHANGED <<state, adding, assumptions, constraint, frozen, limits, job, forced>>,
           terminator' = terminator \/ stage = "idle" \/ terminator' = "up",
           UNCHANGED <<last, called>>, given' \in Givens, given'.limited = given.limited, ClientSide
    PROVE  ApiInv'
<1>1. DataInv'
  <2>1. constraint \in Constraints /\ (adding.constraint => state = "ADDING")
    BY InvariantParts DEF DataInv, OpenConstraint
  <2> QED
    BY <2>1, DataStays
<1>2. RunInv
  BY InvariantParts
<1>3. OneCall' /\ LimitsGiven'
  BY <1>2 DEF job, OneCall, LimitsGiven, RunInv
<1>4. FlagHasCause'
  BY <1>2 DEF job, FlagHasCause, RunInv, Cause
<1>5. RunInv'
  BY <1>2, <1>3, <1>4 DEF job, RunInv
<1> QED
  BY <1>1, <1>5, ClientKept, PartsTogether

(* terminate, from another thread, also while solve runs. *)
LEMMA TerminateKeeps ==
    ASSUME ApiInv, Terminate, called' = TRUE, UNCHANGED <<given, last, clientVars>>
    PROVE  ApiInv'
<1>1. RunInv /\ ClientInv /\ OpenConstraint /\ constraint \in Constraints
  BY InvariantParts DEF DataInv
<1>2. /\ UNCHANGED <<state, adding, assumptions, constraint, frozen, limits, stage, result, simplifying>>
      /\ forced' = TRUE
  BY DEF Terminate, core, job
<1>3. ClientSide
  BY <1>1, <1>2 DEF ClientSide, ClientInv, clientVars, OpenConstraint, CubeInFile
<1>4. DataInv'
  BY <1>1, <1>2, <1>3, DataStays DEF OpenConstraint
<1>5. OneCall' /\ LimitsGiven' /\ FlagHasCause'
  BY <1>1, <1>2 DEF OneCall, LimitsGiven, FlagHasCause, Cause, RunInv
<1>6. RunInv'
  BY <1>1, <1>2, <1>5 DEF RunInv
<1> QED
  BY <1>3, <1>4, <1>6, ClientKept, PartsTogether

(* The start of solve hands over what was given for it. *)
LEMMA StartSolveKeeps ==
    ASSUME ApiInv, NEW pre \in BOOLEAN, NEW rounds \in Int, StartSolve(pre, rounds),
           last' = given, UNCHANGED <<given, called>>, ClientSide
    PROVE  ApiInv'
<1>1. RunInv /\ stage = "idle" /\ ~adding.constraint
  BY InvariantParts DEF RunInv, OneCall, StartSolve, VALID, READY, DataInv, OpenConstraint
<1>2. Data(KeptAssumptions, KeptConstraint, KeptCounters)
  BY KeptData
<1>3. adding' = adding /\ adding \in [clause : BOOLEAN, constraint : BOOLEAN]
  BY InvariantParts DEF DataInv, StartSolve
<1>4. Become("SOLVING", KeptAssumptions, KeptConstraint, KeptCounters)
  BY DEF StartSolve
<1>5. DataInv'
  BY <1>1, <1>2, <1>3, <1>4, DataBecomes DEF Data
<1>6. /\ limits' \in [DOMAIN NoLimits -> Int]
      /\ limits'.conflicts = limits.conflicts /\ limits'.terminate = limits.terminate
  BY <1>1 DEF StartSolve, RunInv, NoLimits
<1>7. /\ state' = "SOLVING" /\ stage' = "already_solved" /\ result' = 0 /\ simplifying' = pre
      /\ forced' = forced
  BY DEF StartSolve, Become, async
<1>8. OneCall' /\ LimitsGiven' /\ FlagHasCause'
  BY <1>1, <1>6, <1>7 DEF OneCall, LimitsGiven, FlagHasCause, Cause, RunInv
<1>9. RunInv'
  BY <1>1, <1>6, <1>7, <1>8 DEF RunInv, Stages
<1> QED
  BY <1>5, <1>9, ClientKept, PartsTogether

(* lookahead and generate_cubes drop a request for termination with the    *)
(* flag, and no limit on conflicts is left that was not given.             *)
LEMMA LookaheadKeeps ==
    ASSUME ApiInv, UNCHANGED <<state, adding, assumptions, constraint, frozen, job>>, state \in VALID,
           limits' \in {limits, [limits EXCEPT !.conflicts = -1], NoLimits},
           given' \in Givens, given.limited /\ limits' # NoLimits => given'.limited,
           forced' \in BOOLEAN, called' \in BOOLEAN, forced' => forced /\ called', last' = last, ClientSide
    PROVE  ApiInv'
<1>1. DataInv'
  <2>1. constraint \in Constraints /\ (adding.constraint => state = "ADDING")
    BY InvariantParts DEF DataInv, OpenConstraint
  <2> QED
    BY <2>1, DataStays
<1>2. RunInv /\ stage = "idle"
  BY InvariantParts DEF RunInv, OneCall, VALID, READY
<1>3. /\ limits' \in [DOMAIN NoLimits -> Int]
      /\ limits'.conflicts >= 0 \/ limits'.terminate > 0 =>
             limits' # NoLimits /\ (limits.conflicts >= 0 \/ limits.terminate > 0)
  BY <1>2 DEF RunInv, NoLimits
<1>4. OneCall' /\ LimitsGiven' /\ FlagHasCause'
  BY <1>2, <1>3 DEF job, OneCall, LimitsGiven, FlagHasCause, RunInv
<1>5. RunInv'
  BY <1>2, <1>3, <1>4 DEF job, RunInv
<1> QED
  BY <1>1, <1>5, ClientKept, PartsTogether

-----------------------------------------------------------------------------
(* The stages of solve.                                                    *)

(* A step within solve leaves the data alone, but for unsat_constraint.    *)
LEMMA SolveData ==
    ASSUME ApiInv, state = "SOLVING", KeepsUserData, UNCHANGED clientVars,
           constraint' \in {constraint, [constraint EXCEPT !.unsat = TRUE]}
    PROVE  DataInv' /\ ClientInv'
<1>1. OpenConstraint /\ constraint \in Constraints /\ ClientInv /\ ~adding.constraint
  BY InvariantParts DEF DataInv, OpenConstraint
<1>2. /\ constraint' \in Constraints /\ constraint'.lits = constraint.lits
      /\ constraint'.closed = constraint.closed
  BY <1>1 DEF Constraints
<1>3. UNCHANGED <<adding, assumptions, frozen>>
  BY DEF KeepsUserData
<1>4. ClientSide
  BY <1>1, <1>3 DEF ClientSide, ClientInv, clientVars, CubeInFile
<1> QED
  BY <1>1, <1>2, <1>3, <1>4, DataStays, ClientKept

(* The stages up to the search: the flag is set, and the search is left,   *)
(* for a cause.                                                            *)
LEMMA SearchStages ==
    ASSUME ApiInv, stage \in Stages \ {"idle", "reset", "clear", "return"}, KeepsUserData,
           stage' \in Stages \ {"idle", "clear", "return"}, result' \in {0, 10, 20},
           forced' \in BOOLEAN, forced' => Asked,
           stage' = "reset" /\ result' = 0 => simplifying \/ Asked \/ limits.conflicts >= 0,
           UNCHANGED <<given, last, called, clientVars>>,
           constraint' \in {constraint, [constraint EXCEPT !.unsat = TRUE]}
    PROVE  ApiInv'
<1>1. RunInv /\ state = "SOLVING"
  BY InvariantParts DEF RunInv, OneCall
<1>2. Asked \/ limits.conflicts >= 0 => Cause
  BY <1>1 DEF RunInv, Asked, Cause, FlagHasCause, LimitsGiven
<1>3. UNCHANGED <<state, limits, simplifying, terminator>>
  BY DEF KeepsUserData
<1>4. Cause' = Cause
  BY <1>3 DEF Cause
<1>5. FlagHasCause'
  BY <1>2, <1>3, <1>4 DEF FlagHasCause
<1>6. OneCall' /\ LimitsGiven'
  BY <1>1, <1>3 DEF RunInv, OneCall, LimitsGiven
<1>7. RunInv'
  BY <1>1, <1>3, <1>5, <1>6 DEF RunInv
<1> QED
  BY <1>1, <1>7, SolveData, PartsTogether

(* reset_solving and the end of solve. *)
LEMMA ResetKeeps ==
    ASSUME ApiInv, ResetSolving \/ ClearForced, UNCHANGED <<given, last, clientVars>>,
           called' = (called /\ ~(stage = "clear" \/ (stage = "reset" /\ ~forced)))
    PROVE  ApiInv'
<1>1. RunInv /\ state = "SOLVING" /\ KeepsUserData /\ constraint' = constraint
  BY InvariantParts DEF RunInv, OneCall, ResetSolving, ClearForced
<1>2. UNCHANGED <<state, limits, simplifying, terminator, result>>
  BY <1>1 DEF KeepsUserData, ResetSolving, ClearForced
<1>3. /\ stage' \in {"clear", "return"} /\ forced' \in BOOLEAN /\ called' \in BOOLEAN
      /\ stage' = "return" => ~forced'
  <2>1. CASE ResetSolving
    BY <1>1, <2>1 DEF ResetSolving, ToStage, RunInv
  <2>2. CASE ClearForced
    BY <1>1, <2>2 DEF ClearForced, ToStage, RunInv
  <2> QED
    BY <2>1, <2>2
<1>4. FlagHasCause' /\ OneCall' /\ LimitsGiven'
  <2>1. stage # "idle"
    BY DEF ResetSolving, ClearForced
  <2> QED
    BY <1>1, <1>2, <1>3, <2>1 DEF FlagHasCause, RunInv, OneCall, LimitsGiven
<1>5. RunInv'
  BY <1>1, <1>2, <1>3, <1>4 DEF RunInv, Stages
<1> QED
  BY <1>1, <1>5, SolveData, PartsTogether

(* An answer keeps the assumptions frozen, and otherwise they are melted. *)
LEMMA ReturnKeeps ==
    ASSUME ApiInv, Return, given' = Nothing, last' = last, UNCHANGED clientVars,
           called' = (called /\ ~(stage = "clear" \/ (stage = "reset" /\ ~forced)))
    PROVE  ApiInv'
<1>1. RunInv /\ DataInv /\ ClientInv /\ state = "SOLVING" /\ ~adding.constraint
  BY InvariantParts DEF RunInv, OneCall, Return, DataInv, OpenConstraint
<1>2. Data(assumptions, constraint, frozen.internal) /\ frozen.user \in Tables
  BY InvariantData
<1>3. UNCHANGED <<adding, constraint, result, simplifying, forced, terminator>>
  BY DEF Return, async
<1>4. state' \in {"ABORTED", "SATISFIED", "UNSATISFIED", "UNKNOWN"}
  BY DEF Return
<1>5. ClientSide
  BY <1>1, <1>3 DEF ClientSide, ClientInv, clientVars, CubeInFile
<1>6. DataInv'
  <2>1. CASE result = 0
    <3> DEFINE t == MeltAll(frozen.internal, assumptions)
    <3>1. t \in Tables /\ Counted(frozen.user, t, {}, FrozenLits(constraint))
      <4>1. FrozenLits(constraint) \in SUBSET Lits
        BY <1>2 DEF Data, FrozenLits, Constraints
      <4> QED
        BY <1>2, <4>1, MeltAssumptions DEF Data
    <3> HIDE DEF t
    <3>2. assumptions' = {} /\ frozen' = [frozen EXCEPT !.internal = t]
      BY <2>1 DEF Return, t
    <3>3. frozen' \in [user : Tables, internal : Tables] /\ frozen'.user = frozen.user /\ frozen'.internal = t
      BY <1>1, <3>1, <3>2 DEF DataInv
    <3>4. OpenConstraint'
      BY <1>1, <1>3 DEF DataInv, OpenConstraint
    <3>5. FrozenCounted'
      <4>1. \A v \in Vars : /\ Occurrences({}, v) = 0 /\ frozen.user[v] \in Nat
                            /\ Occurrences(FrozenLits(constraint), v) \in Nat
        <5>1. FrozenLits(constraint) \in SUBSET Lits
          BY <1>2 DEF Data, FrozenLits, Constraints
        <5>2. \A v \in Vars : frozen.user[v] \in Nat
          BY <1>2, ApiAssumption DEF Tables
        <5> QED
          BY <5>1, <5>2, OccurrencesType, OccurrencesEmpty
      <4>2. \A v \in Vars : Needed(v)' = Occurrences({}, v) + Occurrences(FrozenLits(constraint), v)
        BY <1>3, <3>2, <4>1 DEF Needed, FrozenLits
      <4>3. \A v \in Vars : /\ frozen'.internal[v] = t[v] /\ frozen'.user[v] = frozen.user[v]
                            /\ frozen.user[v] + Needed(v)' =
                                 frozen.user[v] + Occurrences({}, v) + Occurrences(FrozenLits(constraint), v)
        BY <3>3, <4>1, <4>2
      <4> QED
        BY <3>1, <4>3 DEF FrozenCounted, Counted
    <3> QED
      BY <1>1, <1>3, <3>2, <3>3, <3>4, <3>5 DEF DataInv
  <2>2. CASE result # 0
    <3>1. UNCHANGED <<assumptions, frozen>>
      BY <2>2 DEF Return
    <3> QED
      BY <1>1, <1>3, <1>5, <3>1, DataStays DEF DataInv
  <2> QED
    BY <2>1, <2>2
<1>7. limits' = NoLimits /\ stage' = "idle" /\ stage = "return" /\ given'.limited = FALSE
  BY DEF Return, Nothing
<1>8. OneCall' /\ LimitsGiven'
  BY <1>4, <1>7 DEF OneCall, LimitsGiven, NoLimits
<1>9. FlagHasCause' /\ called' = called
  BY <1>1, <1>3, <1>7 DEF FlagHasCause, RunInv
<1>10. limits' \in [DOMAIN NoLimits -> Int] /\ given' \in Givens
  BY <1>7 DEF NoLimits, Nothing, Givens
<1>11. RunInv'
  BY <1>1, <1>3, <1>4, <1>7, <1>8, <1>9, <1>10 DEF RunInv, VALID, READY, Stages
<1> QED
  BY <1>5, <1>6, <1>11, ClientKept, PartsTogether

(* What the answers that the search gives have in common: solve is left    *)
(* for reset_solving, and all that may change is unsat_constraint.         *)
Answers ==
    /\ stage' = "reset" /\ result' \in {10, 20}
    /\ constraint' \in {constraint, [constraint EXCEPT !.unsat = TRUE]}

(* Each of them is of this form. *)
LEMMA AnswersAlike ==
    ASSUME NEW S, AnswerSat(S) \/ AnswerFailed \/ AnswerConstraint \/ AnswerUnsat
    PROVE  Answers
<1>1. CASE AnswerSat(S)
  BY <1>1 DEF AnswerSat, Finish, ToStage, Answers
<1>2. CASE AnswerFailed
  BY <1>2 DEF AnswerFailed, Finish, ToStage, Answers
<1>3. CASE AnswerConstraint
  BY <1>3 DEF AnswerConstraint, Finish, ToStage, Answers
<1>4. CASE AnswerUnsat
  BY <1>4 DEF AnswerUnsat, Finish, ToStage, Answers
<1> QED
  BY <1>1, <1>2, <1>3, <1>4

(* Every step of solve. *)
LEMMA SolverKeeps ==
    ASSUME ApiInv, Solver
    PROVE  ApiInv'
<1> DEFINE early == {"already_solved", "preprocess", "local_search", "lucky_phases", "search"}
           Flag == forced' \in BOOLEAN /\ (forced' => Asked)
           Result == result' \in {0, 10, 20}
           Unsat1 == constraint' \in {constraint, [constraint EXCEPT !.unsat = TRUE]}
           Stop == stage' = "reset" /\ result' = 0 => simplifying \/ Asked \/ limits.conflicts >= 0
<1>1. /\ called' = (called /\ ~(stage = "clear" \/ (stage = "reset" /\ ~forced)))
      /\ given' = IF stage = "return" THEN Nothing ELSE given
      /\ UNCHANGED <<last, clientVars>>
  BY DEF Solver
<1>2. forced \in BOOLEAN /\ called \in BOOLEAN /\ result \in {0, 10, 20} /\ (forced => Asked)
  BY InvariantParts DEF RunInv, Asked
<1>3. ASSUME stage \in early, stage' \in (early \cup {"reset"}),
             KeepsUserData, Flag, Result, Unsat1, Stop
      PROVE  ApiInv'
  <2>1. UNCHANGED <<given, last, called, clientVars>>
    BY <1>1, <1>2, <1>3
  <2>2. /\ stage \in Stages \ {"idle", "reset", "clear", "return"}
        /\ stage' \in Stages \ {"idle", "clear", "return"}
    BY <1>3 DEF Stages
  <2> QED
    BY <1>3, <2>1, <2>2, SearchStages
<1>4. CASE AlreadySolved
  <2>1. KeepsUserData /\ Flag /\ Unsat1 /\ stage \in early
    BY <1>2, <1>4 DEF AlreadySolved
  <2>2. stage' \in (early \cup {"reset"}) /\ Result /\ Stop
    BY <1>2, <1>4 DEF AlreadySolved, Finish, ToStage
  <2> HIDE DEF early, Flag, Result, Unsat1, Stop
  <2> QED
    BY <1>3, <2>1, <2>2
<1>5. CASE Preprocess
  <2>1. KeepsUserData /\ Flag /\ Unsat1 /\ stage \in early
    BY <1>2, <1>5 DEF Preprocess
  <2>2. stage' \in (early \cup {"reset"}) /\ Result /\ Stop
    BY <1>2, <1>5 DEF Preprocess, Finish, ToStage
  <2> HIDE DEF early, Flag, Result, Unsat1, Stop
  <2> QED
    BY <1>3, <2>1, <2>2
<1>6. CASE LocalSearch
  <2>1. KeepsUserData /\ stage \in early
    BY <1>6 DEF LocalSearch
  <2>2. \/ Answers /\ UNCHANGED forced
        \/ /\ stage' = "lucky_phases" /\ (forced' = forced \/ (forced' = TRUE /\ Asked))
           /\ UNCHANGED <<constraint, result>>
    BY <1>6, AnswersAlike DEF LocalSearch, ToStage
  <2>3. Flag
    <3>1. CASE forced' = forced
      BY <1>2, <3>1
    <3>2. CASE forced' = TRUE /\ Asked
      BY <3>2
    <3> QED
      BY <2>2, <3>1, <3>2
  <2>4. Unsat1 /\ stage' \in (early \cup {"reset"}) /\ Result /\ Stop
    BY <1>2, <2>2 DEF Answers
  <2> HIDE DEF early, Flag, Result, Unsat1, Stop
  <2> QED
    BY <1>3, <2>1, <2>3, <2>4
<1>7. CASE LuckyPhases
  <2>1. KeepsUserData /\ stage \in early
    BY <1>7 DEF LuckyPhases
  <2>2. \/ Answers /\ UNCHANGED forced
        \/ /\ stage' = "search" /\ (forced' = forced \/ (forced' = TRUE /\ Asked))
           /\ UNCHANGED <<constraint, result>>
    BY <1>7, AnswersAlike DEF LuckyPhases, ToStage
  <2>3. Flag
    <3>1. CASE forced' = forced
      BY <1>2, <3>1
    <3>2. CASE forced' = TRUE /\ Asked
      BY <3>2
    <3> QED
      BY <2>2, <3>1, <3>2
  <2>4. Unsat1 /\ stage' \in (early \cup {"reset"}) /\ Result /\ Stop
    BY <1>2, <2>2 DEF Answers
  <2> HIDE DEF early, Flag, Result, Unsat1, Stop
  <2> QED
    BY <1>3, <2>1, <2>3, <2>4
<1>8. CASE SearchAnswer
  <2>1. KeepsUserData /\ stage \in early
    BY <1>8 DEF SearchAnswer
  <2>2. Answers /\ UNCHANGED forced
    BY <1>8, AnswersAlike DEF SearchAnswer
  <2>3. Flag
    <3>1. CASE forced' = forced
      BY <1>2, <3>1
    <3>2. CASE forced' = TRUE /\ Asked
      BY <3>2
    <3> QED
      BY <2>2, <3>1, <3>2
  <2>4. Unsat1 /\ stage' \in (early \cup {"reset"}) /\ Result /\ Stop
    BY <1>2, <2>2 DEF Answers
  <2> HIDE DEF early, Flag, Result, Unsat1, Stop
  <2> QED
    BY <1>3, <2>1, <2>3, <2>4
<1>9. CASE SearchLimit
  <2>1. KeepsUserData /\ stage \in early /\ Flag /\ Unsat1
    BY <1>2, <1>9 DEF SearchLimit
  <2>2. stage' \in (early \cup {"reset"}) /\ Result /\ Stop
    BY <1>9 DEF SearchLimit, Finish, ToStage
  <2> HIDE DEF early, Flag, Result, Unsat1, Stop
  <2> QED
    BY <1>3, <2>1, <2>2
<1>10. CASE SearchTerminated
  <2>1. KeepsUserData /\ stage \in early /\ Flag /\ Unsat1
    BY <1>2, <1>10 DEF SearchTerminated
  <2>2. stage' \in (early \cup {"reset"}) /\ Result /\ Stop
    BY <1>10 DEF SearchTerminated, Finish, ToStage
  <2> HIDE DEF early, Flag, Result, Unsat1, Stop
  <2> QED
    BY <1>3, <2>1, <2>2
<1>11. CASE ResetSolving \/ ClearForced
  <2>1. given' = given
    BY <1>1, <1>11 DEF ResetSolving, ClearForced
  <2> QED
    BY <1>1, <1>11, <2>1, ResetKeeps
<1>12. CASE Return
  <2>1. given' = Nothing
    BY <1>1, <1>12 DEF Return
  <2> QED
    BY <1>1, <1>12, <2>1, ReturnKeeps
<1> QED
  BY <1>4, <1>5, <1>6, <1>7, <1>8, <1>9, <1>10, <1>11, <1>12 DEF Solver, SolverStep

-----------------------------------------------------------------------------
(* The clients.                                                            *)

(* Outside of the turns in which a client gives a constraint none is open. *)
LEMMA NothingOpen ==
    ASSUME ApiInv, ~(client = "tester" /\ turn = "constrain"), ~(client = "user" /\ turn = "user")
    PROVE  ~adding.constraint
  BY InvariantParts DEF DataInv, OpenConstraint

(* What a client gives is remembered next to what it gave before.          *)
LEMMA CallGhosts ==
    ASSUME given \in Givens, NEW l \in Lits, CallAssume(l) \/ CallConstrain(l) \/ CallConstrainZero
    PROVE  GhostsKept
<1>1. CASE CallAssume(l)
  BY <1>1 DEF CallAssume, GhostsKept, Givens, Lits
<1>2. CASE CallConstrain(l)
  BY <1>2 DEF CallConstrain, GhostsKept, Givens, Lits
<1>3. CASE CallConstrainZero
  BY <1>3 DEF CallConstrainZero, GhostsKept, Givens, Lits
<1> QED
  BY <1>1, <1>2, <1>3

(* A limit is one of those that ClientAssumption names.                    *)
LEMMA CallLimitKeeps ==
    ASSUME ApiInv, NEW c \in LimitCalls, CallLimit(c[1], c[2]), ClientSide
    PROVE  ApiInv'
<1>1. c[1] \in DOMAIN NoLimits /\ c[2] \in Int
  BY ClientAssumption
<1>2. UNCHANGED <<last, called>> /\ given' = [given EXCEPT !.limited = TRUE]
  BY DEF CallLimit
<1>3. given' \in Givens /\ given'.limited
  BY <1>2, InvariantParts DEF RunInv, Givens
<1> QED
  BY <1>1, <1>2, <1>3, LimitKeeps DEF CallLimit

(* A client calls solve or simplify.                                       *)
LEMMA CallSolveKeeps ==
    ASSUME ApiInv, NEW pre \in BOOLEAN, NEW n \in Int, CallSolve(pre, n), ClientSide
    PROVE  ApiInv'
  BY StartSolveKeeps DEF CallSolve

(* A client calls lookahead.                                               *)
LEMMA CallLookaheadKeeps ==
    ASSUME ApiInv, CallLookahead, ClientSide
    PROVE  ApiInv'
<1>1. RunInv
  BY InvariantParts
<1>2. /\ UNCHANGED <<state, adding, assumptions, constraint, frozen, job>> /\ state \in VALID
      /\ forced' = FALSE /\ called' = FALSE /\ UNCHANGED <<given, last>>
  BY DEF CallLookahead, Lookahead
<1>3. limits' \in {limits, [limits EXCEPT !.conflicts = -1], NoLimits}
  BY DEF CallLookahead, Lookahead
<1> QED
  BY <1>1, <1>2, <1>3, LookaheadKeeps DEF RunInv

(* A client calls generate_cubes.                                          *)
LEMMA CallCubesKeeps ==
    ASSUME ApiInv, NEW depth, CallCubes(depth), ClientSide
    PROVE  ApiInv'
<1>1. RunInv /\ stage = "idle" /\ given \in Givens
  BY InvariantParts DEF RunInv, OneCall, CallCubes, GenerateCubes, VALID, READY
<1>2. /\ UNCHANGED <<state, adding, assumptions, constraint, frozen, job>> /\ state \in VALID
      /\ limits' = NoLimits /\ last' = last
  BY DEF CallCubes, GenerateCubes
<1>3. given' \in Givens
  BY <1>1 DEF CallCubes, Givens
<1>4. forced' = forced \/ forced' = FALSE
  BY DEF CallCubes, GenerateCubes
<1>5. forced => called
  BY <1>1 DEF RunInv, FlagHasCause
<1>6. called' = (called /\ forced') /\ forced \in BOOLEAN /\ called \in BOOLEAN
  BY <1>1 DEF CallCubes, RunInv
<1>7. forced' \in BOOLEAN /\ called' \in BOOLEAN /\ (forced' => forced /\ called')
  <2>1. CASE forced' = forced
    BY <1>5, <1>6, <2>1
  <2>2. CASE forced' = FALSE
    BY <1>6, <2>2
  <2> QED
    BY <1>4, <2>1, <2>2
<1> QED
  BY <1>2, <1>3, <1>7, LookaheadKeeps

(* The traces of the tester.                                               *)
LEMMA TesterKeeps ==
    ASSUME ApiInv, Tester
    PROVE  ApiInv'
<1>1. client = "tester" /\ adding \in [clause : BOOLEAN, constraint : BOOLEAN]
  BY InvariantParts DEF Tester, DataInv
<1>2. given \in Givens
  BY InvariantParts DEF RunInv
<1>3. ASSUME UNCHANGED <<client, phases, app>>, ~adding'.constraint
      PROVE  ClientSide
  BY <1>1, <1>3 DEF ClientSide
<1>4. UNCHANGED ghosts => GhostsKept
  BY <1>2 DEF ghosts, GhostsKept
<1>5. CASE TesterAdd /\ UNCHANGED <<client, phases, app>>
  <2>1. ~adding.constraint
    BY <1>1, <1>5, NothingOpen DEF TesterAdd, KeepsTurn
  <2>2. CASE \E l \in AddLits : Quietly(AddLit(l))
    <3>1. PICK l \in AddLits : AddLit(l) /\ UNCHANGED ghosts
      BY <2>2 DEF Quietly
    <3>2. adding'.constraint = adding.constraint
      BY <1>1, <3>1 DEF AddLit
    <3> QED
      BY <1>3, <1>4, <1>5, <2>1, <3>1, <3>2, AddLitKeeps
  <2>3. CASE Quietly(AddZero)
    <3>1. adding'.constraint = adding.constraint
      BY <1>1, <2>3 DEF Quietly, AddZero
    <3> QED
      BY <1>3, <1>4, <1>5, <2>1, <2>3, <3>1, AddZeroKeeps DEF Quietly
  <2> QED
    BY <1>5, <2>2, <2>3 DEF TesterAdd
<1>6. CASE TesterConstrain /\ UNCHANGED <<client, phases, app>>
  <2>1. CASE KeepsTurn("constrain") /\ \E l \in ConstrainLits : CallConstrain(l)
    <3>1. PICK l \in ConstrainLits : CallConstrain(l)
      BY <2>1
    <3>2. l \in Lits
      BY ClientAssumption DEF Lits
    <3>3. GhostsKept
      BY <1>2, <3>1, <3>2, CallGhosts
    <3>4. ClientSide
      BY <1>1, <1>6, <2>1 DEF ClientSide, KeepsTurn
    <3> QED
      BY <3>1, <3>2, <3>3, <3>4, ConstrainLitKeeps DEF CallConstrain
  <2>2. CASE CallConstrainZero
    <3>1. ~adding'.constraint
      BY <1>1, <2>2 DEF CallConstrainZero, ConstrainZero
    <3>2. GhostsKept
      BY <1>2, <2>2 DEF CallConstrainZero, GhostsKept, Givens
    <3> QED
      BY <1>3, <1>6, <2>2, <3>1, <3>2, ConstrainZeroKeeps DEF CallConstrainZero
  <2> QED
    BY <1>6, <2>1, <2>2 DEF TesterConstrain
<1>7. CASE TesterAssume /\ UNCHANGED <<client, phases, app>>
  <2>1. ~adding.constraint
    BY <1>1, <1>7, NothingOpen DEF TesterAssume, KeepsTurn
  <2>2. PICK l \in AssumeLits : CallAssume(l)
    BY <1>7 DEF TesterAssume
  <2>3. l \in Lits
    BY ClientAssumption DEF Lits
  <2>4. GhostsKept /\ ~adding'.constraint
    BY <1>2, <2>1, <2>2, <2>3, CallGhosts DEF CallAssume, Assume
  <2> QED
    BY <1>3, <1>7, <2>1, <2>2, <2>3, <2>4, AssumeKeeps DEF CallAssume
<1>8. CASE (TesterMelt \/ TesterFreeze) /\ UNCHANGED <<client, phases, app>>
  <2>1. ~adding.constraint
    BY <1>1, <1>8, NothingOpen DEF TesterMelt, TesterFreeze, KeepsTurn, Goes
  <2>2. PICK v \in FreezeVars : (FreezeVar(v) \/ MeltVar(v)) /\ UNCHANGED ghosts
    BY <1>8 DEF TesterMelt, TesterFreeze, Quietly
  <2>3. v \in Vars /\ adding' = adding
    BY <2>2, ClientAssumption DEF FreezeVar, MeltVar
  <2> QED
    BY <1>3, <1>4, <1>8, <2>1, <2>2, <2>3, FreezeMeltKeep
<1>9. CASE TesterLimit /\ UNCHANGED <<client, phases, app>>
  <2>1. ~adding.constraint
    BY <1>1, <1>9, NothingOpen DEF TesterLimit, Goes
  <2>2. PICK c \in LimitCalls : CallLimit(c[1], c[2])
    BY <1>9 DEF TesterLimit
  <2>3. adding' = adding
    BY <2>2 DEF CallLimit, SetLimit
  <2> QED
    BY <1>3, <1>9, <2>1, <2>2, <2>3, CallLimitKeeps
<1>10. CASE TesterProcess /\ UNCHANGED <<client, phases, app>>
  <2>1. ~adding.constraint
    BY <1>1, <1>10, NothingOpen DEF TesterProcess, Goes
  <2>2. ASSUME NEW pre \in BOOLEAN, NEW n \in 0 .. 1, CallSolve(pre, n)
        PROVE  ApiInv'
    <3>1. adding' = adding
      BY <2>2 DEF CallSolve, StartSolve
    <3> QED
      BY <1>3, <1>10, <2>1, <2>2, <3>1, CallSolveKeeps
  <2>3. CASE CallLookahead
    <3>1. adding' = adding
      BY <2>3 DEF CallLookahead, Lookahead
    <3> QED
      BY <1>3, <1>10, <2>1, <2>3, <3>1, CallLookaheadKeeps
  <2>4. CASE CallCubes(0)
    <3>1. adding' = adding
      BY <2>4 DEF CallCubes, GenerateCubes
    <3> QED
      BY <1>3, <1>10, <2>1, <2>4, <3>1, CallCubesKeeps
  <2>5. CASE CallSolve(FALSE, 0)
    <3>1. 0 \in 0 .. 1 /\ FALSE \in BOOLEAN
      OBVIOUS
    <3> QED
      BY <2>2, <2>5, <3>1, Zenon
  <2>6. CASE \E n \in 0 .. 1 : CallSolve(TRUE, n)
    BY <2>2, <2>6
  <2> QED
    BY <1>10, <2>3, <2>4, <2>5, <2>6 DEF TesterProcess
<1>11. CASE TesterQuery /\ UNCHANGED <<client, phases, app>>
  <2>1. ~adding.constraint
    BY <1>1, <1>11, NothingOpen DEF TesterQuery, KeepsTurn
  <2>2. QueryFailed /\ UNCHANGED ghosts
    BY <1>11 DEF TesterQuery, Quietly
  <2>3. adding' = adding
    BY <2>2 DEF QueryFailed
  <2> QED
    BY <1>2, <1>3, <1>11, <2>1, <2>2, <2>3, QuietKeeps DEF QueryFailed, async, ghosts
<1>12. CASE TesterSkips
  <2>1. ~adding.constraint
    BY <1>1, <1>12, NothingOpen DEF TesterSkips, Goes
  <2>2. UNCHANGED <<core, job, async, ghosts, client, app>>
    BY <1>12 DEF TesterSkips
  <2>3. ClientSide
    BY <1>1, <2>1, <2>2 DEF ClientSide, core
  <2> QED
    BY <1>2, <2>2, <2>3, QuietKeeps DEF core, async, ghosts
<1> QED
  BY <1>5, <1>6, <1>7, <1>8, <1>9, <1>10, <1>11, <1>12 DEF Tester

(* What the stand-alone solver assumes next is a literal of its cube.      *)
LEMMA NextOfCube ==
    ASSUME CubeInFile, turn = "cube", NEW todo,
           todo = {i \in 1 .. Len(Cube) : Cube[i] \notin given.assumptions}, todo # {}
    PROVE  Cube[Max(todo)] \in Lits /\ Cube[Max(todo)] \in CubeLits(app.cube)
<1>1. Cube \in Seq(Lits)
  <2>1. app.cnf.cubes \in Seq(Seq(Lits))
    BY ClientAssumption DEF CubeInFile, Lits
  <2>2. app.cube \in 1 .. Len(app.cnf.cubes)
    BY <2>1 DEF CubeInFile
  <2> QED
    BY <2>1, <2>2 DEF Cube
<1>2. Len(Cube) \in Nat /\ todo \subseteq 1 .. Len(Cube)
  BY <1>1
<1>3. \E x \in todo : \A y \in todo : x >= y
  <2>1. todo \subseteq 0 .. Len(Cube)
    BY <1>2
  <2>2. \E x \in todo : \A y \in todo : y <= x
    BY <1>2, <2>1, GreatestElement
  <2>3. \A x, y \in todo : y <= x => x >= y
    BY <1>2
  <2> QED
    BY <2>2, <2>3
<1>4. Max(todo) \in todo
  BY <1>3 DEF Max
<1>5. Cube[Max(todo)] \in CubeLits(app.cube)
  BY <1>2, <1>4 DEF CubeLits, Cube
<1> QED
  BY <1>1, <1>2, <1>4, <1>5

(* The stand-alone solver never gives a constraint. *)
LEMMA AppKeeps ==
    ASSUME ApiInv, App
    PROVE  ApiInv'
<1>1. client = "app" /\ client' = client
  BY DEF App, AppStep, AppLimits, AppOpens, AppOpen, ReadAux, ReadHeader, ReadDimacs, ReadLit, ReadEnd,
         AppSolve, AppAssume, AppCubeLimit, AppSolved, AppAddFailed, AppVerdict
<1>2. /\ adding \in [clause : BOOLEAN, constraint : BOOLEAN] /\ ~adding.constraint
      /\ given \in Givens /\ CubeInFile
  BY <1>1, NothingOpen, InvariantParts DEF DataInv, RunInv, ClientInv
<1>3. ASSUME CubeInFile', ~adding'.constraint
      PROVE  ClientSide
  BY <1>1, <1>3 DEF ClientSide
<1>4. UNCHANGED ghosts => GhostsKept
  BY <1>2 DEF ghosts, GhostsKept
<1>5. app' = app /\ (turn' \in Reading => turn \in Reading) /\ (turn' = "cube" => turn = "cube")
          => CubeInFile'
  BY <1>2 DEF CubeInFile
<1>6. ASSUME UNCHANGED <<core, job, async, ghosts>>, CubeInFile'
      PROVE  ApiInv'
  <2>1. ClientSide
    BY <1>2, <1>3, <1>6 DEF core
  <2> QED
    BY <1>2, <1>6, <2>1, QuietKeeps DEF core, async, ghosts
<1>7. CASE AppLimits
  <2>1. turn \in Reading /\ turn' \in Reading
    BY <1>7 DEF AppLimits, AppStep, Turn, Reading
  <2>2. CASE Quietly(ConnectTerminator) /\ UNCHANGED app
    <3>1. UNCHANGED <<core, job, forced, forces>> /\ UNCHANGED ghosts /\ stage = "idle"
      <4>1. UNCHANGED <<core, job, forced, forces>> /\ UNCHANGED ghosts /\ state \in VALID
        BY <2>2 DEF Quietly, ConnectTerminator
      <4> QED
        BY <4>1, InvariantParts DEF RunInv, OneCall, VALID, READY
    <3>2. ClientSide
      BY <1>2, <1>3, <1>5, <2>1, <2>2, <3>1 DEF core, Reading
    <3> QED
      BY <1>2, <3>1, <3>2, QuietKeeps DEF core, ghosts
  <2>3. CASE \E c \in LimitCalls :
                 CallLimit(c[1], c[2]) /\ app' = [app EXCEPT !.limit = @ \cup {c}]
    <3>1. PICK c \in LimitCalls :
              CallLimit(c[1], c[2]) /\ app' = [app EXCEPT !.limit = @ \cup {c}]
      BY <2>3
    <3>2. adding' = adding
      BY <3>1 DEF CallLimit, SetLimit
    <3>3. CubeInFile'
      BY <1>2, <2>1, <3>1 DEF CubeInFile, Reading
    <3> QED
      BY <1>2, <1>3, <3>1, <3>2, <3>3, CallLimitKeeps
  <2>4. CASE UNCHANGED <<core, job, async, ghosts, app>>
    BY <1>5, <1>6, <2>1, <2>4 DEF Reading
  <2> QED
    BY <1>7, <2>2, <2>3, <2>4 DEF AppLimits
<1>8. CASE AppOpens \/ ReadAux
  <2>1. UNCHANGED <<core, job, async, ghosts>>
    BY <1>8 DEF AppOpens, AppOpen, ReadAux
  <2>2. turn \in Reading /\ turn' # "cube"
    BY <1>8 DEF AppOpens, AppOpen, ReadAux, AppStep, Turn, Reading
  <2>3. CASE AppOpens
    <3>1. app' = app
      BY <2>3 DEF AppOpens, AppOpen
    <3> QED
      BY <1>5, <1>6, <2>1, <2>2, <3>1
  <2>4. CASE ReadAux
    <3>1. \/ app' = [app EXCEPT !.pos = 1]
          \/ app' = [app EXCEPT !.aux = @ \cup {app.file[app.pos][1]}, !.pos = @ + 1]
      BY <2>4 DEF ReadAux
    <3>2. /\ DOMAIN app' = DOMAIN app /\ app'.pos \in Nat \ {0}
          /\ app'.cnf = app.cnf /\ app'.limit = app.limit /\ app'.cube = app.cube
      <4>1. CASE app' = [app EXCEPT !.pos = 1]
        BY <1>2, <4>1 DEF CubeInFile
      <4>2. CASE app' = [app EXCEPT !.aux = @ \cup {app.file[app.pos][1]}, !.pos = @ + 1]
        BY <1>2, <4>2 DEF CubeInFile
      <4> QED
        BY <3>1, <4>1, <4>2
    <3>3. CubeInFile'
      BY <1>2, <2>2, <3>2 DEF CubeInFile
    <3> QED
      BY <1>6, <2>1, <3>3
  <2> QED
    BY <1>8, <2>3, <2>4
<1>9. CASE ReadHeader
  <2>1. app' = app /\ turn \in Reading /\ turn' # "cube"
    BY <1>9 DEF ReadHeader, AppStep, Turn, Reading
  <2>2. CASE UNCHANGED <<core, job, async, ghosts>>
    BY <1>5, <1>6, <2>1, <2>2
  <2>3. CASE Quietly(Reserve(app.cnf.vars))
    <3>1. adding' = adding
      BY <2>3 DEF Quietly, Reserve
    <3> QED
      BY <1>2, <1>3, <1>4, <1>5, <2>1, <2>3, <3>1, ReserveKeeps DEF Quietly
  <2> QED
    BY <1>9, <2>2, <2>3 DEF ReadHeader
<1>10. CASE ReadLit
  <2> DEFINE lit == app.cnf.lits[app.pos]
  <2>1. turn \in Reading /\ turn' # "cube"
    BY <1>10 DEF ReadLit, AppStep, Turn, Reading
  <2>2. CASE UNCHANGED <<core, job, async, ghosts, app>>
    BY <1>5, <1>6, <2>1, <2>2
  <2>3. CASE /\ Quietly(IF lit = 0 THEN AddZero ELSE AddLit(lit))
             /\ app' = [app EXCEPT !.pos = @ + 1]
    <3> HIDE DEF lit
    <3>1. CubeInFile'
      BY <1>2, <2>1, <2>3 DEF CubeInFile
    <3>2. CASE AddZero /\ UNCHANGED ghosts
      <4>1. ~adding'.constraint
        BY <1>2, <3>2 DEF AddZero
      <4> QED
        BY <1>2, <1>3, <1>4, <3>1, <3>2, <4>1, AddZeroKeeps
    <3>3. CASE AddLit(lit) /\ UNCHANGED ghosts
      <4>1. ~adding'.constraint
        BY <1>2, <3>3 DEF AddLit
      <4> QED
        BY <1>2, <1>3, <1>4, <3>1, <3>3, <4>1, AddLitKeeps
    <3> QED
      BY <2>3, <3>2, <3>3 DEF Quietly
  <2> QED
    BY <1>10, <2>2, <2>3 DEF ReadLit
<1>11. CASE ReadEnd
  <2>1. /\ UNCHANGED <<core, job, async, ghosts, app>> /\ turn \in Reading
        /\ turn' \in {"error", "solve"} \/ (turn' = "cube" /\ app.cnf.cubes # <<>>)
    BY <1>11 DEF ReadEnd, AppStep, Turn, Reading
  <2>2. turn' = "cube" => 1 <= Len(app.cnf.cubes)
    <3>1. app.cnf.cubes \in Seq(Seq(Lits))
      BY <1>2, ClientAssumption DEF CubeInFile, Lits
    <3> QED
      BY <2>1, <3>1
  <2>3. CubeInFile'
    BY <1>2, <2>1, <2>2 DEF CubeInFile, Reading
  <2> QED
    BY <1>6, <2>1, <2>3
<1>12. CASE AppSolve
  <2>1. CallSolve(FALSE, 0) /\ app' = app /\ turn' = "solved"
    BY <1>12 DEF AppSolve, Turn
  <2>2. adding' = adding
    BY <2>1 DEF CallSolve, StartSolve
  <2>3. ClientSide
    BY <1>2, <1>3, <1>5, <2>1, <2>2 DEF Reading
  <2>4. 0 \in Int /\ FALSE \in BOOLEAN
    OBVIOUS
  <2> QED
    BY <2>1, <2>3, <2>4, CallSolveKeeps, Zenon
<1>13. CASE AppAssume
  <2> DEFINE todo == {i \in 1 .. Len(Cube) : Cube[i] \notin given.assumptions}
  <2>1. app' = app /\ turn = "cube" /\ turn' \in {"cube", "cube_limit"}
    BY <1>13 DEF AppAssume, AppStep, Turn
  <2>2. CASE todo # {} /\ CallAssume(Cube[Max(todo)])
    <3>1. PICK l \in Lits : CallAssume(l)
      <4> HIDE DEF todo
      <4>1. todo = {i \in 1 .. Len(Cube) : Cube[i] \notin given.assumptions}
        BY DEF todo
      <4>2. Cube[Max(todo)] \in Lits
        BY <1>2, <2>1, <2>2, <4>1, NextOfCube
      <4> QED
        BY <2>2, <4>2
    <3>2. adding' = adding
      BY <3>1 DEF CallAssume, Assume
    <3>3. GhostsKept /\ ClientSide
      BY <1>2, <1>3, <1>5, <2>1, <3>1, <3>2, CallGhosts DEF Reading
    <3> QED
      BY <1>2, <3>1, <3>3, AssumeKeeps DEF CallAssume
  <2>3. CASE UNCHANGED <<core, job, async, ghosts>>
    BY <1>5, <1>6, <2>1, <2>3 DEF Reading
  <2> QED
    BY <1>13, <2>2, <2>3 DEF AppAssume
<1>14. CASE AppCubeLimit
  <2>1. app' = app /\ turn' = "solve"
    BY <1>14 DEF AppCubeLimit, Turn
  <2>2. CASE \E c \in app.limit : CallLimit(c[1], c[2])
    <3>1. PICK c \in app.limit : CallLimit(c[1], c[2])
      BY <2>2
    <3>2. c \in LimitCalls
      BY <1>2 DEF CubeInFile
    <3>3. adding' = adding
      BY <3>1 DEF CallLimit, SetLimit
    <3>4. ClientSide
      BY <1>2, <1>3, <1>5, <2>1, <3>3 DEF Reading
    <3> QED
      BY <3>1, <3>2, <3>4, CallLimitKeeps
  <2>3. CASE UNCHANGED <<core, job, async, ghosts>>
    BY <1>5, <1>6, <2>1, <2>3 DEF Reading
  <2> QED
    BY <1>14, <2>2, <2>3 DEF AppCubeLimit
<1>15. CASE AppSolved
  <2>1. CubeInFile'
    <3>1. app.cnf.cubes \in Seq(Seq(Lits))
      BY <1>2, ClientAssumption DEF CubeInFile, Lits
    <3>2. \/ app' = [app EXCEPT !.res = result] /\ turn' = "verdict"
          \/ app' = [app EXCEPT !.res = 20] /\ turn' = "add_failed"
          \/ /\ app' = [app EXCEPT !.res = 0, !.inconclusive = TRUE, !.cube = @ + 1]
             /\ turn' \in {"verdict", NextCube}
      BY <1>15 DEF AppSolved, Turn
    <3>3. CASE app' = [app EXCEPT !.res = result] /\ turn' = "verdict"
      BY <1>2, <3>3 DEF CubeInFile, Reading
    <3>4. CASE app' = [app EXCEPT !.res = 20] /\ turn' = "add_failed"
      BY <1>2, <3>4 DEF CubeInFile, Reading
    <3>5. CASE /\ app' = [app EXCEPT !.res = 0, !.inconclusive = TRUE, !.cube = @ + 1]
               /\ turn' \in {"verdict", NextCube}
      <4>1. /\ DOMAIN app' = DOMAIN app /\ app'.cnf = app.cnf
            /\ app'.limit = app.limit /\ app'.cube = app.cube + 1 /\ app'.pos = app.pos
        BY <1>2, <3>5 DEF CubeInFile
      <4>2. turn' \notin Reading /\ (turn' = "cube" => app.cube < Len(app.cnf.cubes))
        BY <1>2, <3>1, <3>5 DEF CubeInFile, NextCube, LastCube, Reading
      <4> QED
        BY <1>2, <3>1, <4>1, <4>2 DEF CubeInFile
    <3> QED
      BY <3>2, <3>3, <3>4, <3>5
  <2>2. CASE UNCHANGED <<core, job, async, ghosts>>
    BY <1>6, <2>1, <2>2
  <2>3. CASE Quietly(QueryFailed)
    <3>1. QueryFailed /\ UNCHANGED ghosts /\ adding' = adding
      BY <2>3 DEF Quietly, QueryFailed
    <3>2. ClientSide
      BY <1>2, <1>3, <2>1, <3>1
    <3> QED
      BY <1>2, <3>1, <3>2, QuietKeeps DEF QueryFailed, async, ghosts
  <2> QED
    BY <1>15, <2>2, <2>3 DEF AppSolved
<1>16. CASE AppAddFailed
  <2>1. /\ Become("UNKNOWN", KeptAssumptions, KeptConstraint, KeptCounters) /\ state \in VALID
        /\ UNCHANGED <<adding, limits, job, async, ghosts>>
        /\ app' = [app EXCEPT !.cube = @ + 1] /\ turn' = NextCube
    BY <1>16 DEF AppAddFailed, Turn
  <2>2. CubeInFile'
    <3>1. app.cnf.cubes \in Seq(Seq(Lits))
      BY <1>2, ClientAssumption DEF CubeInFile, Lits
    <3> QED
      BY <1>2, <2>1, <3>1 DEF CubeInFile, NextCube, LastCube, Reading
  <2>3. ClientSide
    BY <1>2, <1>3, <2>1, <2>2
  <2>4. "UNKNOWN" \in VALID
    BY DEF VALID, READY
  <2> QED
    BY <1>2, <1>4, <2>1, <2>3, <2>4, TransitionKeeps
<1>17. CASE AppVerdict
  <2>1. /\ UNCHANGED <<core, job, async, ghosts>> /\ turn' = "done"
        /\ app' = [app EXCEPT !.res = IF @ = 20 /\ app.inconclusive THEN 0 ELSE @,
                              !.witness = Witness]
    BY <1>17 DEF AppVerdict, Turn
  <2>2. CubeInFile'
    BY <1>2, <2>1 DEF CubeInFile, Reading
  <2> QED
    BY <1>6, <2>1, <2>2
<1> QED
  BY <1>7, <1>8, <1>9, <1>10, <1>11, <1>12, <1>13, <1>14, <1>15, <1>16, <1>17 DEF App, ReadDimacs

(* A program that keeps its calls apart. *)
LEMMA UserKeeps ==
    ASSUME ApiInv, User
    PROVE  ApiInv'
<1>1. client = "user" /\ client' = client /\ app' = app
  BY DEF User
<1>2. /\ adding \in [clause : BOOLEAN, constraint : BOOLEAN] /\ given \in Givens
      /\ constraint \in Constraints
  BY InvariantParts DEF DataInv, RunInv
<1>3. ASSUME ~adding'.constraint
      PROVE  ClientSide
  BY <1>1, <1>3 DEF ClientSide
<1>4. UNCHANGED ghosts => GhostsKept
  BY <1>2 DEF ghosts, GhostsKept
<1>5. CASE UserAdd
  <2>1. ~adding.constraint
    BY <1>5 DEF UserAdd
  <2>2. CASE \E l \in AddLits : Quietly(AddLit(l))
    <3>1. PICK l \in AddLits : AddLit(l) /\ UNCHANGED ghosts
      BY <2>2 DEF Quietly
    <3>2. adding'.constraint = adding.constraint
      BY <1>2, <3>1 DEF AddLit
    <3> QED
      BY <1>3, <1>4, <2>1, <3>1, <3>2, AddLitKeeps
  <2>3. CASE Quietly(AddZero)
    <3>1. adding'.constraint = adding.constraint
      BY <1>2, <2>3 DEF Quietly, AddZero
    <3> QED
      BY <1>3, <1>4, <2>1, <2>3, <3>1, AddZeroKeeps DEF Quietly
  <2> QED
    BY <1>5, <2>2, <2>3 DEF UserAdd
<1>6. CASE UserConstrain
  <2>1. turn' = "user"
    BY <1>6 DEF UserConstrain, KeepsTurn
  <2>2. ClientSide
    BY <1>1, <2>1 DEF ClientSide
  <2>3. CASE \E l \in ConstrainLits : CallConstrain(l)
    <3>1. PICK l \in ConstrainLits : CallConstrain(l)
      BY <2>3
    <3>2. l \in Lits
      BY ClientAssumption DEF Lits
    <3>3. GhostsKept
      BY <1>2, <3>1, <3>2, CallGhosts
    <3> QED
      BY <2>2, <3>1, <3>2, <3>3, ConstrainLitKeeps DEF CallConstrain
  <2>4. CASE CallConstrainZero
    <3>1. GhostsKept
      BY <1>2, <2>4 DEF CallConstrainZero, GhostsKept, Givens
    <3> QED
      BY <2>2, <2>4, <3>1, ConstrainZeroKeeps DEF CallConstrainZero
  <2> QED
    BY <1>6, <2>3, <2>4 DEF UserConstrain
<1>7. CASE UserAssume
  <2>1. ~adding.constraint
    BY <1>7 DEF UserAssume, Free
  <2>2. PICK l \in AssumeLits : CallAssume(l)
    BY <1>7 DEF UserAssume
  <2>3. l \in Lits
    BY ClientAssumption DEF Lits
  <2>4. GhostsKept /\ ~adding'.constraint
    BY <1>2, <2>1, <2>2, <2>3, CallGhosts DEF CallAssume, Assume
  <2> QED
    BY <1>3, <2>1, <2>2, <2>3, <2>4, AssumeKeeps DEF CallAssume
<1>8. CASE UserReserve
  <2>1. ~adding.constraint
    BY <1>8 DEF UserReserve, Free
  <2>2. PICK n \in Vars : Reserve(n) /\ UNCHANGED ghosts
    BY <1>8 DEF UserReserve, Quietly
  <2>3. adding' = adding
    BY <2>2 DEF Reserve
  <2> QED
    BY <1>3, <1>4, <2>1, <2>2, <2>3, ReserveKeeps
<1>9. CASE UserResets
  <2>1. ~adding.constraint /\ UNCHANGED <<last, called>>
    BY <1>9 DEF UserResets, Free
  <2>2. ResetAssumptions \/ ResetConstraint
    BY <1>9 DEF UserResets
  <2>3. \/ given' = [given EXCEPT !.assumptions = {}]
        \/ given' = [given EXCEPT !.constraint = {}]
    BY <1>9 DEF UserResets
  <2>4. GhostsKept
    BY <1>2, <2>1, <2>3 DEF GhostsKept, Givens
  <2>5. adding' = adding
    BY <2>2 DEF ResetAssumptions, ResetConstraint
  <2> QED
    BY <1>3, <2>1, <2>2, <2>4, <2>5, ResetsKeep
<1>10. CASE UserTerminator
  <2>1. ~adding.constraint
    BY <1>10 DEF UserTerminator, Free
  <2>2. /\ UNCHANGED <<core, job, forced, forces>> /\ UNCHANGED ghosts /\ state \in VALID
    BY <1>10 DEF UserTerminator, Quietly, ConnectTerminator, DisconnectTerminator
  <2>3. stage = "idle"
    BY <2>2, InvariantParts DEF RunInv, OneCall, VALID, READY
  <2>4. ClientSide
    BY <1>3, <2>1, <2>2 DEF core
  <2> QED
    BY <1>2, <2>2, <2>3, <2>4, QuietKeeps DEF core, ghosts
<1>11. CASE UserSolve
  <2>1. ~adding.constraint /\ CallSolve(FALSE, 0)
    BY <1>11 DEF UserSolve, Free
  <2>2. adding' = adding
    BY <2>1 DEF CallSolve, StartSolve
  <2>3. 0 \in Int /\ FALSE \in BOOLEAN
    OBVIOUS
  <2>4. ClientSide
    BY <1>3, <2>1, <2>2
  <2> QED
    BY <2>1, <2>3, <2>4, CallSolveKeeps, Zenon
<1>12. CASE UserSolved
  <2>1. ~adding.constraint /\ UNCHANGED ghosts
    BY <1>1, <1>12, NothingOpen DEF UserSolved, Goes
  <2>2. CASE ResetConstraint
    <3>1. adding' = adding
      BY <2>2 DEF ResetConstraint
    <3> QED
      BY <1>3, <1>4, <2>1, <2>2, <3>1, ResetsKeep
  <2>3. CASE UNCHANGED <<core, job, async>>
    <3>1. ClientSide
      BY <1>3, <2>1, <2>3 DEF core
    <3> QED
      BY <1>2, <2>1, <2>3, <3>1, QuietKeeps DEF core, async, ghosts
  <2> QED
    BY <1>12, <2>2, <2>3 DEF UserSolved
<1>13. CASE UserQuery
  <2>1. ~adding.constraint
    BY <1>13 DEF UserQuery, Free
  <2>2. QueryFailed /\ UNCHANGED ghosts
    BY <1>13 DEF UserQuery, Quietly
  <2>3. adding' = adding
    BY <2>2 DEF QueryFailed
  <2> QED
    BY <1>2, <1>3, <2>1, <2>2, <2>3, QuietKeeps DEF QueryFailed, async, ghosts
<1>14. CASE UserCubes
  <2>1. ~adding.constraint /\ CallCubes(1)
    BY <1>14 DEF UserCubes, Free
  <2>2. adding' = adding
    BY <2>1 DEF CallCubes, GenerateCubes
  <2> QED
    BY <1>3, <2>1, <2>2, CallCubesKeeps
<1> QED
  BY <1>5, <1>6, <1>7, <1>8, <1>9, <1>10, <1>11, <1>12, <1>13, <1>14 DEF User

-----------------------------------------------------------------------------
(* A client begins with a solver nothing was given to. *)
LEMMA ClientInitially ==
    ASSUME ClientInit
    PROVE  ApiInv
<1>1. /\ Init /\ client \in Clients /\ given = Nothing /\ last = Nothing /\ called = FALSE
      /\ client = "app" => app.cnf \in CnfFiles
  BY DEF ClientInit
<1>2. client = "app" => CubeInFile
  <2>1. client = "app" =>
            app \in [aux : {{}}, file : AuxFiles, cnf : CnfFiles, pos : {1}, limit : {{}}, cube : {1},
                     res : {0}, inconclusive : {FALSE}, witness : {{}}]
    BY DEF ClientInit
  <2>2. client = "app" => turn = "limits"
    BY DEF ClientInit
  <2> QED
    BY <2>1, <2>2 DEF CubeInFile
<1>3. NoConstraint \in Constraints
  BY DEF NoConstraint, Constraints
<1>4. /\ frozen = [user |-> [v \in Vars |-> 0], internal |-> [v \in Vars |-> 0]]
      /\ assumptions = {} /\ constraint = NoConstraint
  BY <1>1 DEF Init
<1>5. frozen \in [user : Tables, internal : Tables]
  <2>1. [v \in Vars |-> 0] \in Tables
    BY ApiAssumption DEF Tables
  <2> QED
    BY <1>4, <2>1
<1>6. FrozenCounted
  <2>1. \A v \in Vars : Needed(v) = 0
    BY <1>4, OccurrencesEmpty DEF Needed, NoConstraint
  <2> QED
    BY <1>4, <2>1 DEF FrozenCounted
<1>7. OpenConstraint
  BY <1>1, <1>4 DEF OpenConstraint, NoConstraint, Init
<1>8. DataInv
  BY <1>1, <1>3, <1>4, <1>5, <1>6, <1>7 DEF DataInv, Init
<1>9. RunInv
  <2>1. Nothing \in Givens
    BY DEF Nothing, Givens
  <2>2. NoLimits \in [DOMAIN NoLimits -> Int]
    BY DEF NoLimits
  <2>3. OneCall /\ LimitsGiven /\ FlagHasCause
    BY <1>1 DEF OneCall, LimitsGiven, FlagHasCause, Init, NoLimits
  <2> QED
    BY <1>1, <2>1, <2>2, <2>3 DEF RunInv, Init, VALID, READY, Stages
<1>10. ClientInv
  BY <1>1, <1>2, ClientAssumption DEF ClientInv
<1> QED
  BY <1>8, <1>9, <1>10, InvariantParts

(* Every step, of the clients, of solve and of the thread next to it.      *)
LEMMA ClientNextKeeps ==
    ASSUME ApiInv, [ClientNext]_vars
    PROVE  ApiInv'
<1>1. CASE UNCHANGED vars
  <2>1. UNCHANGED <<core, job, async, clientVars, ghosts>>
    BY <1>1 DEF vars
  <2>2. ClientSide /\ given \in Givens
    BY <2>1, InvariantParts DEF ClientSide, ClientInv, CubeInFile, clientVars, core, DataInv,
                                OpenConstraint, RunInv
  <2> QED
    BY <2>1, <2>2, QuietKeeps DEF core, async, ghosts
<1>2. CASE Thread
  <2>1. CASE Terminate /\ called' = TRUE /\ UNCHANGED <<given, last, clientVars>>
    BY <2>1, TerminateKeeps
  <2>2. CASE TerminatorAsks /\ UNCHANGED <<ghosts, clientVars>>
    <3>1. UNCHANGED <<core, job, forced, ghosts, clientVars>> /\ terminator' = "up"
      BY <2>2 DEF TerminatorAsks
    <3>2. ClientSide /\ given \in Givens
      BY <3>1, InvariantParts DEF ClientSide, ClientInv, CubeInFile, clientVars, core, DataInv,
                                  OpenConstraint, RunInv
    <3> QED
      BY <3>1, <3>2, QuietKeeps DEF core, ghosts
  <2> QED
    BY <1>2, <2>1, <2>2 DEF Thread
<1> QED
  BY <1>1, <1>2, TesterKeeps, AppKeeps, UserKeeps, SolverKeeps DEF ClientNext, Done

(* What the calls of the clients do to the solver's data, to the limits    *)
(* and to the flag, for all variables and arguments, any number of calls   *)
(* and any interleaving with terminate: ApiInv holds throughout.           *)
THEOREM ApiInvariant == ClientSpec => []ApiInv
<1>1. ClientInit => ApiInv
  BY ClientInitially
<1>2. ApiInv /\ [ClientNext]_vars => ApiInv'
  BY ClientNextKeeps
<1> QED
  BY <1>1, <1>2, PTL DEF ClientSpec

(* The reference counters of Internal count each reason for which a        *)
(* variable must stay, up to UINT_MAX (freeze, melt, reset_assumptions,    *)
(* reset_constraint).                                                      *)
THEOREM CountersRight == ClientSpec => []FrozenCounted
<1>1. ApiInv => FrozenCounted
  BY DEF ApiInv
<1> QED
  BY <1>1, ApiInvariant, PTL

(* solve gives up only with a cause, and outside of it the flag of an      *)
(* asynchronous termination is set only by a call that nothing has         *)
(* answered yet (reset_limits, reset_solving).                             *)
THEOREM UnknownIsCaused == ClientSpec => []UnknownHasCause
<1>1. ApiInv => UnknownHasCause
  BY DEF ApiInv, OneCall, FlagHasCause, Cause, UnknownHasCause
<1> QED
  BY <1>1, ApiInvariant, PTL

-----------------------------------------------------------------------------
(* Assignments, propagation and what it finds on the root level.           *)

(* A total assignment has one literal of each variable.                    *)
LEMMA AssignmentOver ==
    ASSUME NEW V, V \subseteq Nat \ {0}, NEW m
    PROVE  m \in Assignments(V) <=>
               m \subseteq LitsOver(V) /\ \A v \in V : v \in m <=> -v \notin m
<1>1. ASSUME NEW T \in SUBSET V, m = T \cup Neg(V \ T)
      PROVE  m \subseteq LitsOver(V) /\ \A v \in V : v \in m <=> -v \notin m
  <2>1. m \subseteq LitsOver(V)
    BY <1>1 DEF LitsOver, Neg
  <2>2. ASSUME NEW v \in V PROVE v \in m <=> v \in T
    <3>1. v \notin Neg(V \ T)
      BY DEF Neg
    <3> QED
      BY <1>1, <3>1
  <2>3. ASSUME NEW v \in V PROVE -v \in m <=> v \notin T
    <3>1. -v \notin T
      OBVIOUS
    <3>2. -v \in Neg(V \ T) <=> v \in V \ T
      <4>1. \A u \in V : -u = -v => u = v
        OBVIOUS
      <4> QED
        BY <4>1 DEF Neg
    <3> QED
      BY <1>1, <3>1, <3>2
  <2> QED
    BY <2>1, <2>2, <2>3
<1>2. ASSUME m \subseteq LitsOver(V), \A v \in V : v \in m <=> -v \notin m
      PROVE  m \in Assignments(V)
  <2> DEFINE T == {v \in V : v \in m}
  <2>1. m = T \cup Neg(V \ T)
    BY <1>2 DEF LitsOver, Neg
  <2> QED
    BY <2>1 DEF Assignments
<1> QED
  BY <1>1, <1>2 DEF Assignments

(* It has one of a literal and its negation.                               *)
LEMMA TotalLits ==
    ASSUME NEW V, V \subseteq Nat \ {0}, NEW m \in Assignments(V), NEW l \in LitsOver(V)
    PROVE  l \in m <=> -l \notin m
<1>1. \A v \in V : v \in m <=> -v \notin m
  BY AssignmentOver
<1>2. \A v \in V : -(-v) = v
  OBVIOUS
<1> QED
  BY <1>1, <1>2 DEF LitsOver, Neg

(* The literals of variables V are literals of more variables.             *)
LEMMA LitsOverMore ==
    ASSUME NEW V, NEW W, V \subseteq W
    PROVE  LitsOver(V) \subseteq LitsOver(W)
  BY DEF LitsOver, Neg

(* A model over all variables is one over some of them for clauses over    *)
(* these.                                                                  *)
LEMMA Restricted ==
    ASSUME NEW V, V \subseteq Nat \ {0}, NEW W \in SUBSET V, NEW S, S \subseteq SUBSET LitsOver(W),
           NEW m \in Models(V, S)
    PROVE  m \cap LitsOver(W) \in Models(W, S)
<1>1. m \in Assignments(V) /\ \A c \in S : Sat(m, c)
  BY DEF Models
<1>2. m \subseteq LitsOver(V) /\ \A v \in V : v \in m <=> -v \notin m
  BY <1>1, AssignmentOver
<1>3. \A v \in W : v \in LitsOver(W) /\ -v \in LitsOver(W)
  BY DEF LitsOver, Neg
<1>4. \A v \in W : v \in m \cap LitsOver(W) <=> -v \notin m \cap LitsOver(W)
  BY <1>2, <1>3
<1> DEFINE n == m \cap LitsOver(W)
<1>5. n \in Assignments(W)
  <2>1. W \subseteq Nat \ {0} /\ n \subseteq LitsOver(W) /\ \A v \in W : v \in n <=> -v \notin n
    BY <1>4
  <2> HIDE DEF n
  <2> QED
    BY <2>1, AssignmentOver
<1>6. \A c \in S : Sat(m \cap LitsOver(W), c)
  BY <1>1 DEF Sat
<1> QED
  BY <1>5, <1>6 DEF Models

(* A model over some of the variables can be extended to all of them.      *)
LEMMA Extended ==
    ASSUME NEW V, V \subseteq Nat \ {0}, NEW W \in SUBSET V, NEW S, NEW m \in Models(W, S)
    PROVE  /\ m \cup (V \ W) \in Models(V, S)
           /\ \A l \in LitsOver(W) : l \in m \cup (V \ W) => l \in m
<1> DEFINE n == m \cup (V \ W)
<1>1. m \in Assignments(W) /\ \A c \in S : Sat(m, c)
  BY DEF Models
<1>2. m \subseteq LitsOver(W) /\ \A v \in W : v \in m <=> -v \notin m
  BY <1>1, AssignmentOver
<1>3. \A v \in V \ W : v \notin LitsOver(W) /\ -v \notin LitsOver(W) /\ -v \notin V
  BY DEF LitsOver, Neg
<1>4. \A v \in W : -v \notin V \ W
  OBVIOUS
<1>5. \A v \in V : v \in n <=> -v \notin n
  BY <1>2, <1>3, <1>4
<1>6. n \subseteq LitsOver(V)
  BY <1>2 DEF LitsOver, Neg
<1>7. n \in Assignments(V)
  BY <1>5, <1>6, AssignmentOver
<1>8. \A l \in LitsOver(W) : l \in n => l \in m
  BY <1>2, <1>3
<1>9. \A c \in S : Sat(n, c)
  BY <1>1 DEF Sat
<1> QED
  BY <1>7, <1>8, <1>9 DEF Models

(* Unsat speaks of the variables of the clauses only, and may as well      *)
(* speak of all variables.                                                 *)
LEMMA UnsatOver ==
    ASSUME NEW S, S \subseteq SUBSET Lits
    PROVE  Unsat(S) <=> Models(Vars, S) = {}
<1> DEFINE W == UNION {VarsOf(c) : c \in S}
<1>1. Vars \subseteq Nat \ {0}
  BY ApiAssumption
<1>2. \A c \in S : \A l \in c : Var(l) \in W
  BY DEF VarsOf
<1>3. W \in SUBSET Vars
  BY LitsAreIntegers DEF VarsOf
<1>4. S \subseteq SUBSET LitsOver(W)
  <2>1. \A l \in Lits : l = Var(l) \/ l = -Var(l)
    BY LitsAreIntegers DEF Var
  <2>2. \A c \in S : \A l \in c : l \in LitsOver(W)
    BY <1>2, <2>1 DEF LitsOver, Neg
  <2> QED
    BY <2>2
<1>5. Unsat(S) <=> Models(W, S) = {}
  BY DEF Unsat
<1> HIDE DEF W
<1>6. \A m \in Models(Vars, S) : Models(W, S) # {}
  BY <1>1, <1>3, <1>4, Restricted
<1>7. \A m \in Models(W, S) : Models(Vars, S) # {}
  BY <1>1, <1>3, Extended
<1> QED
  BY <1>5, <1>6, <1>7

(* More clauses have no other models.                                      *)
LEMMA FewerModels ==
    ASSUME NEW V, NEW S, NEW T, S \subseteq T
    PROVE  Models(V, T) \subseteq Models(V, S)
  BY DEF Models

(* A clause with one literal is true under assignments with this literal.  *)
LEMMA UnitModels ==
    ASSUME NEW V, NEW S, NEW A, NEW C
    PROVE  Models(V, S \cup Units(A) \cup C) = {m \in Models(V, S \cup C) : A \subseteq m}
<1>1. ASSUME NEW m
      PROVE  (\A c \in Units(A) : Sat(m, c)) <=> A \subseteq m
  <2>1. \A l : Sat(m, {l}) <=> l \in m
    BY DEF Sat
  <2> QED
    BY <2>1 DEF Units
<1> QED
  BY <1>1 DEF Models

(* There are finitely many literals.                                       *)
LEMMA NegationFinite ==
    ASSUME NEW V, IsFiniteSet(V)
    PROVE  IsFiniteSet(Neg(V))
<1> DEFINE f == [v \in V |-> -v]
<1>1. f \in Surjection(V, Neg(V))
  BY DEF Surjection, Neg
<1> HIDE DEF f
<1> QED
  BY <1>1, FS_Surjection DEF ExistsSurjection

(* One round of propagation finds literals of every model.                 *)
LEMMA ImpliedSound ==
    ASSUME NEW V \in SUBSET Vars, NEW S, S \subseteq SUBSET LitsOver(V), NEW A
    PROVE  /\ Implied(S, A) \subseteq LitsOver(V)
           /\ \A m \in Models(Vars, S) : A \subseteq m => Implied(S, A) \subseteq m
<1>1. ASSUME NEW m \in Models(Vars, S), A \subseteq m, NEW c \in S, Cardinality(Live(A, c)) = 1
      PROVE  Live(A, c) \subseteq m
  <2>1. m \in Assignments(Vars) /\ Sat(m, c)
    BY <1>1 DEF Models
  <2>2. PICK x \in c : x \in m
    BY <2>1 DEF Sat
  <2>3. x \in LitsOver(Vars)
    BY LitsOverMore
  <2>4. -x \notin A
    BY <1>1, <2>1, <2>2, <2>3, TotalLits, ApiAssumption
  <2>5. x \in Live(A, c)
    BY <2>2, <2>4 DEF Live
  <2>6. IsFiniteSet(Live(A, c))
    <3>1. IsFiniteSet(Vars)
      BY ApiAssumption
    <3>2. IsFiniteSet(Neg(Vars))
      BY <3>1, NegationFinite
    <3>3. IsFiniteSet(LitsOver(Vars))
      BY <3>1, <3>2, FS_Union DEF LitsOver
    <3>4. Live(A, c) \subseteq LitsOver(Vars)
      BY LitsOverMore DEF Live
    <3> QED
      BY <3>3, <3>4, FS_Subset
  <2>7. PICK y : Live(A, c) = {y}
    BY <1>1, <2>6, FS_Singleton
  <2> QED
    BY <2>2, <2>5, <2>7
<1>2. Implied(S, A) \subseteq LitsOver(V)
  <2>1. \A c \in S : Live(A, c) \subseteq LitsOver(V)
    BY DEF Live
  <2> QED
    BY <2>1 DEF Implied
<1> QED
  BY <1>1, <1>2 DEF Implied

(* So does propagation to the end.                                         *)
LEMMA ClosureSound ==
    ASSUME NEW V \in SUBSET Vars, NEW S, S \subseteq SUBSET LitsOver(V), NEW A \in SUBSET LitsOver(V)
    PROVE  /\ Closure(S, A) \subseteq LitsOver(V)
           /\ \A m \in Models(Vars, S) : A \subseteq m => Closure(S, A) \subseteq m
<1> DEFINE P == {B \in SUBSET LitsOver(V) : \A m \in Models(Vars, S) : A \subseteq m => B \subseteq m}
           F == [x \in Nat \X P |->
                    IF \E l \in x[2] : -l \in x[2] THEN x[2] ELSE x[2] \cup Implied(S, x[2])]
           Round(r) == r = [n \in Nat |->
                               IF n = 0 THEN A
                               ELSE IF \E l \in r[n - 1] : -l \in r[n - 1] THEN r[n - 1]
                               ELSE r[n - 1] \cup Implied(S, r[n - 1])]
           n1 == Cardinality(UNION {VarsOf(c) : c \in S}) + 1
<1>1. A \in P
  OBVIOUS
<1>2. F \in [Nat \X P -> P]
  <2>1. \A B \in P : B \cup Implied(S, B) \in P
    BY ImpliedSound
  <2> HIDE DEF P
  <2> QED
    BY <2>1
<1>3. \E r : Round(r) /\ r \in [Nat -> P]
  <2>1. PICK f : RecursiveOn(f, P, A, F)
    <3> HIDE DEF P, F
    <3> QED
      BY <1>1, <1>2, RecursiveFunction
  <2>2. f \in [Nat -> P] /\ f[0] = A /\ \A n \in Nat \ {0} : f[n] = F[<<n, f[n - 1]>>]
    BY <2>1 DEF RecursiveOn
  <2>3. \A n \in Nat \ {0} : f[n] = IF \E l \in f[n - 1] : -l \in f[n - 1] THEN f[n - 1]
                                    ELSE f[n - 1] \cup Implied(S, f[n - 1])
    <3> TAKE n \in Nat \ {0}
    <3>1. n - 1 \in Nat
      OBVIOUS
    <3>2. f[n - 1] \in P
      <4> HIDE DEF P
      <4> QED
        BY <2>2, <3>1
    <3>3. <<n, f[n - 1]>> \in Nat \X P
      <4> HIDE DEF P
      <4> QED
        BY <3>2
    <3>4. F[<<n, f[n - 1]>>] = IF \E l \in f[n - 1] : -l \in f[n - 1] THEN f[n - 1]
                               ELSE f[n - 1] \cup Implied(S, f[n - 1])
      <4> HIDE DEF P
      <4> QED
        BY <3>3
    <3> HIDE DEF P, F
    <3> QED
      BY <2>2, <3>4
  <2> HIDE DEF P, F
  <2>4. f = [n \in Nat |-> f[n]]
    BY <2>2
  <2>5. \A n \in Nat : f[n] = IF n = 0 THEN A
                              ELSE IF \E l \in f[n - 1] : -l \in f[n - 1] THEN f[n - 1]
                              ELSE f[n - 1] \cup Implied(S, f[n - 1])
    BY <2>2, <2>3
  <2>6. Round(f)
    BY <2>4, <2>5
  <2> QED
    BY <2>2, <2>6
<1>4. \A r : Round(r) => \A n \in Nat : r[n] \in P
  <2> SUFFICES ASSUME NEW r, Round(r) PROVE \A n \in Nat : r[n] \in P
    OBVIOUS
  <2> DEFINE T == {n \in Nat : r[n] \in P}
  <2>1. r[0] = A /\ \A n \in Nat \ {0} : r[n] = IF \E l \in r[n - 1] : -l \in r[n - 1] THEN r[n - 1]
                                                ELSE r[n - 1] \cup Implied(S, r[n - 1])
    <3> HIDE DEF P
    <3> QED
      OBVIOUS
  <2>2. 0 \in T
    BY <2>1
  <2>3. ASSUME NEW n \in Nat, n \in T PROVE n + 1 \in T
    <3>1. r[n + 1] = IF \E l \in r[n] : -l \in r[n] THEN r[n] ELSE r[n] \cup Implied(S, r[n])
      <4>1. n + 1 \in Nat \ {0} /\ (n + 1) - 1 = n
        OBVIOUS
      <4> HIDE DEF T, P, Round
      <4> QED
        BY <2>1, <4>1
    <3>2. r[n] \in P
      BY <2>3
    <3>3. r[n] \cup Implied(S, r[n]) \in P
      BY <3>2, ImpliedSound
    <3> HIDE DEF P, Round
    <3> QED
      BY <3>1, <3>2, <3>3
  <2> HIDE DEF T
  <2>4. \A n \in Nat : n \in T
    BY <2>2, <2>3, SetInduction
  <2> QED
    BY <2>4 DEF T
<1>5. n1 \in Nat
  <2>1. UNION {VarsOf(c) : c \in S} \subseteq Vars
    <3>1. \A c \in S : c \subseteq Lits
      BY LitsOverMore DEF Lits
    <3> QED
      BY <3>1, LitsAreIntegers DEF VarsOf
  <2>2. IsFiniteSet(UNION {VarsOf(c) : c \in S})
    BY <2>1, ApiAssumption, FS_Subset
  <2> QED
    BY <2>2, FS_CardinalityType
<1>6. Closure(S, A) \in P
  <2>1. Closure(S, A) = (CHOOSE r : Round(r))[n1]
    BY DEF Closure
  <2> HIDE DEF Round, n1, P
  <2>2. Round(CHOOSE r : Round(r))
    BY <1>3
  <2> QED
    BY <1>4, <1>5, <2>1, <2>2
<1> QED
  BY <1>6

(* What propagation and probing find is true in every model.               *)
LEMMA RootFindings ==
    ASSUME AnswerTypes, RootSound, NEW U \in {Propagated, Backbone}
    PROVE  U \subseteq LitsOver(known) /\ \A m \in Models(Vars, formula) : U \subseteq m
<1>1. known \in SUBSET Vars /\ formula \subseteq SUBSET LitsOver(known)
      /\ root.units \in SUBSET LitsOver(known)
  BY DEF AnswerTypes
<1>2. CASE U = Propagated
  BY <1>1, <1>2, ClosureSound DEF Propagated, RootSound
<1>3. CASE U = Backbone
  <2>1. U \subseteq LitsOver(known)
    BY <1>3 DEF Backbone
  <2>2. ASSUME NEW m \in Models(Vars, formula), NEW l \in U
        PROVE  l \in m
    <3>1. l \in Lits /\ -l \in Lits
      <4>1. l \in LitsOver(known)
        BY <2>1
      <4>2. known \subseteq Nat \ {0}
        BY <1>1, ApiAssumption
      <4>3. -l \in LitsOver(known)
        BY <4>1, <4>2 DEF LitsOver, Neg
      <4> QED
        BY <1>1, <4>1, <4>3, LitsOverMore DEF Lits
    <3>2. formula \cup {{-l}} \subseteq SUBSET Lits
      BY <1>1, <3>1, LitsOverMore DEF Lits
    <3>3. Models(Vars, formula \cup {{-l}}) = {}
      BY <1>3, <3>2, UnsatOver DEF Backbone
    <3>4. m \in Assignments(Vars) /\ \A c \in formula : Sat(m, c)
      BY DEF Models
    <3>5. ~Sat(m, {-l})
      BY <3>3, <3>4 DEF Models
    <3>6. -l \notin m
      BY <3>5 DEF Sat
    <3> QED
      BY <3>1, <3>4, <3>6, TotalLits, ApiAssumption DEF Lits
  <2> QED
    BY <2>1, <2>2
<1> QED
  BY <1>2, <1>3

(* A total assignment is no conflict, and satisfies clauses it is a model  *)
(* of.                                                                     *)
LEMMA ModelNoConflict ==
    ASSUME NEW S, S \subseteq SUBSET Lits, NEW m \in Models(Vars, S), NEW U \in SUBSET m
    PROVE  (\A c \in S : Live(U, c) # {}) /\ ~\E l \in U : -l \in U
<1>1. m \in Assignments(Vars) /\ \A c \in S : Sat(m, c)
  BY DEF Models
<1>2. m \subseteq Lits /\ \A l \in Lits : l \in m <=> -l \notin m
  BY <1>1, AssignmentOver, TotalLits, ApiAssumption DEF Lits
<1>3. \A c \in S : Live(U, c) # {}
  BY <1>1, <1>2 DEF Sat, Live
<1> QED
  BY <1>2, <1>3

(* What is noted of such findings is sound, and the empty clause is not    *)
(* overlooked.                                                             *)
LEMMA RootAfterSound ==
    ASSUME AnswerTypes, RootSound, NEW U \in {Propagated, Backbone}
    PROVE  /\ RootAfter(U) \in [units : SUBSET LitsOver(known), unsat : BOOLEAN]
           /\ \A m \in Models(Vars, formula) : RootAfter(U).units \subseteq m
           /\ RootAfter(U).unsat => Models(Vars, formula) = {}
           /\ {} \in formula => RootAfter(U).unsat
<1>1. U \subseteq LitsOver(known) /\ \A m \in Models(Vars, formula) : U \subseteq m
  BY RootFindings
<1>2. root \in [units : SUBSET LitsOver(known), unsat : BOOLEAN]
  BY DEF AnswerTypes
<1>3. formula \subseteq SUBSET Lits
  BY LitsOverMore DEF AnswerTypes, Lits
<1>4. CASE Conflict(formula, U)
  <2>1. RootAfter(U) = [root EXCEPT !.unsat = TRUE]
    BY <1>4 DEF RootAfter
  <2>2. Models(Vars, formula) = {}
    BY <1>1, <1>3, <1>4, ModelNoConflict DEF Conflict
  <2> QED
    BY <1>2, <2>1, <2>2
<1>5. CASE ~Conflict(formula, U)
  <2>1. RootAfter(U) = [root EXCEPT !.units = U]
    BY <1>5 DEF RootAfter, Conflict
  <2>2. {} \notin formula
    BY <1>5 DEF Conflict, Live
  <2> QED
    BY <1>1, <1>2, <2>1, <2>2 DEF RootSound
<1> QED
  BY <1>4, <1>5

-----------------------------------------------------------------------------
(* The data of the solver in an answer.                                    *)
SolverInv == AnswerTypes /\ RootSound /\ ConstraintSound /\ TrailFits

(* All of it is over the variables that calls mention.                     *)
LEMMA OverVars ==
    ASSUME AnswerTypes
    PROVE  /\ known \in SUBSET Vars /\ LitsOver(known) \subseteq Lits
           /\ formula \subseteq SUBSET LitsOver(known)
           /\ formula \subseteq SUBSET Lits /\ assumptions \subseteq Lits /\ constraint.all \subseteq Lits
<1>1. known \in SUBSET Vars
  BY DEF AnswerTypes
<1>2. LitsOver(known) \subseteq Lits
  BY <1>1, LitsOverMore DEF Lits
<1> QED
  BY <1>1, <1>2 DEF AnswerTypes

(* What a constraint says under some clauses it says under more of them.   *)
LEMMA SaysMore ==
    ASSUME NEW c, NEW S, NEW T, S \subseteq T, ConstraintSays(c, S)
    PROVE  ConstraintSays(c, T)
  BY FewerModels DEF ConstraintSays

(* No constraint says nothing.                                             *)
LEMMA NothingSays ==
    ASSUME NEW S
    PROVE  ConstraintSays(NoConstraint, S)
  BY DEF ConstraintSays, NoConstraint

(* Outside of solve nothing is left to show for a state without answer.    *)
LEMMA OutsideFits ==
    ASSUME AnswerTypes', stage' \in {"idle", "already_solved"}, ~Answered',
           \A m \in Models(Vars, formula') : root'.units \subseteq m,
           root'.unsat => Models(Vars, formula') = {} /\ trail' = NoTrail,
           constraint'.unsat => trail' = NoTrail /\ constraint'.lits = {},
           ConstraintSays(constraint', formula')
    PROVE  SolverInv'
<1>1. RootSound'
  BY DEF RootSound
<1>2. ConstraintSound'
  BY DEF ConstraintSound, ConstraintSays
<1>3. TrailFits'
  BY DEF TrailFits, Answered
<1> QED
  BY <1>1, <1>2, <1>3 DEF SolverInv

(* What transition_to_unknown_state leaves.                                *)
LEMMA KeptFits ==
    ASSUME SolverInv, stage = "idle"
    PROVE  /\ ConstraintSays(KeptConstraint, formula)
           /\ KeptConstraint.all \subseteq LitsOver(known) /\ KeptAssumptions \subseteq LitsOver(known)
           /\ KeptConstraint.unsat => trail = NoTrail /\ KeptConstraint.lits = {}
<1>1. CASE Answered
  BY <1>1, NothingSays DEF KeptConstraint, KeptAssumptions, NoConstraint
<1>2. CASE ~Answered
  BY <1>2 DEF KeptConstraint, KeptAssumptions, SolverInv, ConstraintSound, AnswerTypes, TrailFits, Answered
<1> QED
  BY <1>1, <1>2

(* A call after which the solver has no answer.                            *)
LEMMA BecomeFits ==
    ASSUME SolverInv, stage = "idle", stage' \in {"idle", "already_solved"},
           NEW s, NEW A, NEW c, NEW t, Become(s, A, c, t), s \notin {"SATISFIED", "UNSATISFIED"},
           known \subseteq known', known' \subseteq Vars,
           formula \subseteq formula', formula' \subseteq SUBSET LitsOver(known'),
           original' \cup A \cup c.all \subseteq LitsOver(known'),
           NEW u \in BOOLEAN, root' = [root EXCEPT !.unsat = u],
           u => root.unsat \/ ({} \in formula' /\ trail' = NoTrail),
           trail' \in {trail, NoTrail},
           ConstraintSays(c, formula'), c.unsat => trail' = NoTrail /\ c.lits = {}
    PROVE  SolverInv'
<1>1. /\ constraint' = c /\ assumptions' = A /\ failed' = {} /\ state' = s
      /\ LitsOver(known) \subseteq LitsOver(known')
  BY LitsOverMore DEF Become
<1>2. root'.units = root.units /\ root'.unsat = u
  BY DEF SolverInv, AnswerTypes
<1>3. AnswerTypes'
  <2>1. root' \in [units : SUBSET LitsOver(known'), unsat : BOOLEAN]
    BY <1>1 DEF SolverInv, AnswerTypes
  <2>2. trail' \in [model : SUBSET LitsOver(known'), core : SUBSET LitsOver(known')]
    <3>1. CASE trail' = trail
      BY <1>1, <3>1 DEF SolverInv, AnswerTypes
    <3>2. CASE trail' = NoTrail
      BY <3>2 DEF NoTrail
    <3> QED
      BY <3>1, <3>2
  <2> QED
    BY <1>1, <2>1, <2>2 DEF AnswerTypes
<1>4. Models(Vars, formula') \subseteq Models(Vars, formula)
  BY FewerModels
<1>5. {} \in formula' => Models(Vars, formula') = {}
  BY DEF Models, Sat
<1>6. root.unsat => Models(Vars, formula') = {} /\ trail' = NoTrail
  BY <1>4 DEF SolverInv, RootSound, TrailFits
<1>7. \A m \in Models(Vars, formula') : root'.units \subseteq m
  BY <1>2, <1>4 DEF SolverInv, RootSound
<1>8. ~Answered'
  BY <1>1 DEF Answered
<1> QED
  BY <1>1, <1>2, <1>3, <1>5, <1>6, <1>7, <1>8, OutsideFits

-----------------------------------------------------------------------------
(* The data of the client in an answer.                                    *)
SideInv == TurnFits /\ GivenHeld /\ LastHeld

(* AnswerInv by the component that each part is about.                     *)
LEMMA AnswerParts == AnswerInv <=> ApiInv /\ SolverInv /\ SideInv
  BY DEF AnswerInv, SolverInv, SideInv

(* The same after a step. *)
LEMMA AnswerTogether ==
    ASSUME ApiInv', SolverInv', SideInv'
    PROVE  AnswerInv'
  BY DEF AnswerInv, SolverInv, SideInv

(* What a client does besides in a call outside of solve.                  *)
CallSide ==
    /\ client' = client /\ last' = last
    /\ HasGiven' => HasGiven
    /\ client = "user" => turn' = "user"

SameGiven ==
    /\ given'.assumptions = given.assumptions
    /\ given'.constraint = given.constraint /\ given'.open = given.open

(* No call of solve runs in a state in which other calls are made.         *)
LEMMA CallsIdle ==
    ASSUME ApiInv, state \in VALID
    PROVE  stage = "idle"
  BY InvariantParts DEF RunInv, OneCall, VALID, READY

(* After a call that leaves no answer the client gave what is there.       *)
LEMMA SideFits ==
    ASSUME AnswerInv, stage' = "idle", state' \in {"ADDING", "UNKNOWN"},
           client' = client, client = "user" => turn' = "user",
           given'.assumptions = assumptions',
           given'.open = IF constraint'.closed THEN {} ELSE constraint'.all,
           HasGiven' => given'.constraint = ClosedConstraint',
           client = "app" => ~constraint'.closed
    PROVE  SideInv'
<1>1. ~Answered' /\ KeptAssumptions' = assumptions' /\ KeptConstraint' = constraint'
  BY DEF Answered, KeptAssumptions, KeptConstraint
<1>2. TurnFits'
  BY <1>1 DEF TurnFits, AnswerInv
<1>3. GivenHeld'
  BY <1>1 DEF GivenHeld
<1>4. LastHeld'
  BY <1>1 DEF LastHeld
<1> QED
  BY <1>2, <1>3, <1>4 DEF SideInv

(* The complete constraint that transition_to_unknown_state leaves.        *)
LEMMA KeptClosed ==
    ASSUME AnswerInv, stage = "idle", HasGiven
    PROVE  /\ given.constraint = IF KeptConstraint.closed THEN {KeptConstraint.all} ELSE {}
           /\ client = "app" => ~KeptConstraint.closed
<1>1. CASE Answered
  BY <1>1 DEF AnswerInv, GivenHeld, KeptConstraint, NoConstraint
<1>2. CASE ~Answered
  BY <1>2 DEF AnswerInv, GivenHeld, KeptConstraint, ClosedConstraint, TurnFits
<1> QED
  BY <1>1, <1>2

(* The stand-alone solver has no constraint.                               *)
LEMMA AppUnconstrained ==
    ASSUME AnswerInv, client = "app"
    PROVE  ~KeptConstraint.closed
  BY DEF AnswerInv, TurnFits, KeptConstraint, NoConstraint

(* A call that changes neither the assumptions nor the constraint any      *)
(* further.                                                                *)
LEMMA TransitionSide ==
    ASSUME AnswerInv, state \in VALID, stage' = "idle", state' \in {"ADDING", "UNKNOWN"},
           assumptions' = KeptAssumptions, constraint' = KeptConstraint, SameGiven, CallSide
    PROVE  SideInv'
<1>1. stage = "idle"
  BY CallsIdle DEF AnswerInv
<1>2. /\ given'.assumptions = assumptions'
      /\ given'.open = IF constraint'.closed THEN {} ELSE constraint'.all
  BY <1>1 DEF AnswerInv, GivenHeld, SameGiven
<1>3. HasGiven' => given'.constraint = ClosedConstraint'
  BY <1>1, KeptClosed DEF ClosedConstraint, SameGiven, CallSide
<1>4. client = "app" => ~constraint'.closed
  BY AppUnconstrained
<1> QED
  BY <1>2, <1>3, <1>4, SideFits DEF CallSide

(* The variables of a literal are known after internalize.                 *)
LEMMA Internalized ==
    ASSUME AnswerTypes, NEW n, Internalize(n)
    PROVE  /\ known \subseteq known' /\ known' \subseteq Vars /\ trail' \in {trail, NoTrail}
           /\ LitsOver(known) \subseteq LitsOver(known')
           /\ \A l \in Lits : n = Var(l) => l \in LitsOver(known')
<1>1. known \subseteq known' /\ known' \subseteq Vars /\ trail' \in {trail, NoTrail}
  BY DEF Internalize, UpTo, AnswerTypes
<1>2. ASSUME NEW l \in Lits, n = Var(l)
      PROVE  l \in LitsOver(known')
  <2>1. Var(l) \in Vars /\ l \in Int /\ (l = Var(l) \/ l = -Var(l))
    BY LitsAreIntegers DEF Var
  <2>2. Var(l) <= n
    BY <1>2, <2>1, PositiveVars
  <2>3. Var(l) \in known'
    BY <2>1, <2>2 DEF Internalize, UpTo
  <2> QED
    BY <2>1, <2>3 DEF LitsOver, Neg
<1> QED
  BY <1>1, <1>2, LitsOverMore

-----------------------------------------------------------------------------
(* The calls, from what they do to the data to the answers.                *)

(* Solver::add of a literal.                                               *)
LEMMA AddLitFits ==
    ASSUME AnswerInv, NEW l \in Lits, AddLit(l), SameGiven, CallSide
    PROVE  SolverInv' /\ SideInv'
<1>1. SolverInv /\ stage = "idle" /\ stage' = "idle" /\ AnswerTypes
  BY AnswerParts, CallsIdle DEF AddLit, job, SolverInv
<1>2. Become("ADDING", KeptAssumptions, KeptConstraint, KeptCounters) /\ state \in VALID
  BY DEF AddLit
<1>3. SideInv'
  BY <1>1, <1>2, TransitionSide DEF Become
<1>4. /\ known \subseteq known' /\ known' \subseteq Vars /\ trail' \in {trail, NoTrail}
      /\ LitsOver(known) \subseteq LitsOver(known') /\ l \in LitsOver(known')
  BY <1>1, Internalized DEF AddLit
<1>5. formula' = formula /\ root' = root /\ original' = original \cup {l}
  BY DEF AddLit
<1>6. /\ formula' \subseteq SUBSET LitsOver(known')
      /\ original' \cup KeptAssumptions \cup KeptConstraint.all \subseteq LitsOver(known')
  BY <1>1, <1>4, <1>5, KeptFits DEF AnswerTypes
<1>7. root.unsat \in BOOLEAN /\ root' = [root EXCEPT !.unsat = root.unsat]
  BY <1>1, <1>5 DEF AnswerTypes
<1> QED
  BY <1>1, <1>2, <1>3, <1>4, <1>5, <1>6, <1>7, KeptFits, BecomeFits

(* A call that ends with a new clause, or without it if it is a tautology, *)
(* on the root level.                                                      *)
LEMMA NewClauseFits ==
    ASSUME AnswerInv, state \in VALID, NEW S \in SUBSET SUBSET LitsOver(known),
           Become("UNKNOWN", KeptAssumptions, KeptConstraint, KeptCounters),
           formula' = formula \cup S, NEW b \in BOOLEAN, b => {} \in S,
           root' = [root EXCEPT !.unsat = @ \/ b], original' \in {{}, original},
           trail' = NoTrail, UNCHANGED <<known, job>>, SameGiven, CallSide
    PROVE  SolverInv' /\ SideInv'
<1>1. SolverInv /\ stage = "idle" /\ stage' = "idle" /\ AnswerTypes
  BY AnswerParts, CallsIdle DEF job, SolverInv
<1>2. SideInv'
  BY <1>1, TransitionSide DEF Become
<1>3. /\ formula' \subseteq SUBSET LitsOver(known')
      /\ original' \cup KeptAssumptions \cup KeptConstraint.all \subseteq LitsOver(known')
  BY <1>1, KeptFits DEF AnswerTypes
<1>4. /\ (root.unsat \/ b) \in BOOLEAN /\ root' = [root EXCEPT !.unsat = (root.unsat \/ b)]
      /\ root.unsat \/ b => root.unsat \/ ({} \in formula' /\ trail' = NoTrail)
  BY <1>1 DEF AnswerTypes
<1>5. ConstraintSays(KeptConstraint, formula')
  BY <1>1, KeptFits, SaysMore
<1>6. known \subseteq known' /\ known' \subseteq Vars /\ formula \subseteq formula'
  BY <1>1 DEF AnswerTypes
<1> QED
  BY <1>1, <1>2, <1>3, <1>4, <1>5, <1>6, KeptFits, BecomeFits

(* Solver::add (0).                                                        *)
LEMMA AddZeroFits ==
    ASSUME AnswerInv, AddZero, SameGiven, CallSide
    PROVE  SolverInv' /\ SideInv'
<1> DEFINE S == IF \E l \in original : -l \in original THEN {} ELSE {original}
<1>1. S \in SUBSET SUBSET LitsOver(known)
  BY DEF AnswerInv, AnswerTypes
<1>2. (original = {}) \in BOOLEAN /\ (original = {} => {} \in S)
  OBVIOUS
<1>3. formula' = formula \cup S
  BY DEF AddZero
<1> HIDE DEF S
<1> QED
  BY <1>1, <1>2, <1>3, NewClauseFits DEF AddZero

(* The stand-alone solver adds a clause over the failed assumptions.       *)
LEMMA AddFailedFits ==
    ASSUME AnswerInv, AppAddFailed, SameGiven, CallSide
    PROVE  SolverInv' /\ SideInv'
<1>1. failed \subseteq LitsOver(known) /\ known \subseteq Nat \ {0}
  BY OverVars, ApiAssumption DEF AnswerInv, AnswerTypes
<1>2. Neg(failed) \subseteq LitsOver(known)
  BY <1>1 DEF LitsOver, Neg
<1>3. (failed = {}) \in BOOLEAN /\ (failed = {} => {} \in {Neg(failed)})
  BY DEF Neg
<1> QED
  BY <1>2, <1>3, NewClauseFits DEF AppAddFailed

(* Solver::reserve.                                                        *)
LEMMA ReserveFits ==
    ASSUME AnswerInv, NEW n, Reserve(n), SameGiven, CallSide
    PROVE  SolverInv' /\ SideInv'
<1>1. SolverInv /\ stage = "idle" /\ stage' = "idle" /\ AnswerTypes
  BY AnswerParts, CallsIdle DEF Reserve, job, SolverInv
<1>2. Become("UNKNOWN", KeptAssumptions, KeptConstraint, KeptCounters) /\ state \in VALID
  BY DEF Reserve
<1>3. SideInv'
  BY <1>1, <1>2, TransitionSide DEF Become
<1>4. /\ known \subseteq known' /\ known' \subseteq Vars /\ trail' \in {trail, NoTrail}
      /\ LitsOver(known) \subseteq LitsOver(known')
  BY <1>1, Internalized DEF Reserve
<1>5. formula' = formula /\ root' = root /\ original' = original
  BY DEF Reserve
<1>6. /\ formula' \subseteq SUBSET LitsOver(known')
      /\ original' \cup KeptAssumptions \cup KeptConstraint.all \subseteq LitsOver(known')
  BY <1>1, <1>4, <1>5, KeptFits DEF AnswerTypes
<1>7. root.unsat \in BOOLEAN /\ root' = [root EXCEPT !.unsat = root.unsat]
  BY <1>1, <1>5 DEF AnswerTypes
<1> QED
  BY <1>1, <1>2, <1>3, <1>4, <1>5, <1>6, <1>7, KeptFits, BecomeFits

(* A literal after a complete constraint starts anew.                      *)
LEMMA RenewedFits ==
    ASSUME AnswerInv, stage = "idle"
    PROVE  /\ ConstraintSays(Renewed, formula) /\ ~Renewed.closed /\ ~Renewed.unsat
           /\ Renewed.all \subseteq LitsOver(known) /\ Renewed.lits = Renewed.all
           /\ Renewed.all = given.open
<1>1. Renewed \in Constraints /\ ~Renewed.closed
  BY RenewedData DEF AnswerInv, Data
<1>2. ConstraintSays(KeptConstraint, formula) /\ KeptConstraint.all \subseteq LitsOver(known)
  BY KeptFits, AnswerParts
<1>3. ConstraintSays(Renewed, formula) /\ Renewed.all \subseteq LitsOver(known)
  BY <1>2, NothingSays DEF Renewed, NoConstraint
<1>4. Renewed.all = given.open
  BY DEF AnswerInv, GivenHeld, Renewed, NoConstraint
<1> QED
  BY <1>1, <1>3, <1>4 DEF ConstraintSays

(* Solver::constrain of a literal.                                         *)
LEMMA ConstrainLitFits ==
    ASSUME AnswerInv, NEW l \in Lits, CallConstrain(l), ClientSide
    PROVE  SolverInv' /\ SideInv'
<1> DEFINE c == [Renewed EXCEPT !.lits = @ \cup {l}, !.all = @ \cup {l}]
<1>1. SolverInv /\ stage = "idle" /\ stage' = "idle" /\ AnswerTypes
  BY AnswerParts, CallsIdle DEF CallConstrain, ConstrainLit, job, SolverInv
<1>2. Become("ADDING", KeptAssumptions, c, RenewedCounters) /\ state \in VALID
  BY DEF CallConstrain, ConstrainLit
<1>3. Renewed \in Constraints
  BY RenewedData DEF AnswerInv, Data
<1>4. /\ c.lits = c.all /\ ~c.closed /\ ~c.unsat
      /\ c.all = Renewed.all \cup {l}
  BY <1>1, <1>3, RenewedFits DEF Constraints
<1>5. ConstraintSays(c, formula)
  BY <1>4 DEF ConstraintSays
<1> HIDE DEF c
<1>6. /\ known \subseteq known' /\ known' \subseteq Vars /\ trail' \in {trail, NoTrail}
      /\ LitsOver(known) \subseteq LitsOver(known') /\ l \in LitsOver(known')
  BY <1>1, Internalized DEF CallConstrain, ConstrainLit
<1>7. formula' = formula /\ root' = root /\ original' = original
  BY DEF CallConstrain, ConstrainLit
<1>8. /\ formula' \subseteq SUBSET LitsOver(known')
      /\ original' \cup KeptAssumptions \cup c.all \subseteq LitsOver(known')
  BY <1>1, <1>4, <1>6, <1>7, KeptFits, RenewedFits DEF AnswerTypes
<1>9. root.unsat \in BOOLEAN /\ root' = [root EXCEPT !.unsat = root.unsat]
  BY <1>1, <1>7 DEF AnswerTypes
<1>10. SolverInv'
  BY <1>1, <1>2, <1>4, <1>5, <1>6, <1>7, <1>8, <1>9, BecomeFits
<1>11. /\ client' = client /\ client # "app" /\ ~HasGiven' /\ (client = "user" => turn' = "user")
  <2>1. adding'.constraint
    BY InvariantParts DEF AnswerInv, CallConstrain, ConstrainLit, DataInv
  <2> QED
    BY <2>1 DEF ClientSide, HasGiven, BeforeProcess
<1>12. given' = [given EXCEPT !.open = @ \cup {l}] /\ given \in Givens
  BY InvariantParts DEF CallConstrain, AnswerInv, RunInv
<1>13. /\ given'.assumptions = assumptions'
       /\ given'.open = IF constraint'.closed THEN {} ELSE constraint'.all
  <2>1. given.assumptions = KeptAssumptions /\ Renewed.all = given.open
    BY <1>1, RenewedFits DEF AnswerInv, GivenHeld
  <2>2. given'.assumptions = given.assumptions /\ given'.open = given.open \cup {l}
    BY <1>12 DEF Givens
  <2> QED
    BY <1>2, <1>4, <2>1, <2>2 DEF Become
<1>14. SideInv'
  BY <1>1, <1>2, <1>11, <1>13, SideFits DEF Become
<1> QED
  BY <1>10, <1>14

(* What Internal::constrain (0) keeps of the literals says the same as all *)
(* of them in every model that has the root units.                         *)
LEMMA LeftSays ==
    ASSUME NEW S, NEW U, \A m \in Models(Vars, S) : U \subseteq m, NEW C \in SUBSET Lits,
           NEW left, left = Live(U, C),
           NEW true \in BOOLEAN, true <=> Sat(U, C) \/ \E l \in left : -l \in left,
           NEW c, c = [lits |-> IF true THEN {} ELSE left, all |-> C, closed |-> TRUE,
                       unsat |-> ~true /\ left = {}]
    PROVE  ConstraintSays(c, S)
<1>1. /\ c.lits = (IF true THEN {} ELSE left) /\ c.all = C /\ c.closed
      /\ (c.unsat <=> ~true /\ left = {})
  OBVIOUS
<1>2. left \subseteq C
  BY DEF Live
<1>3. ASSUME NEW m \in Models(Vars, S)
      PROVE  /\ true => Sat(m, C)
             /\ Sat(m, C) => Sat(m, left)
  <2>1. m \in Assignments(Vars) /\ U \subseteq m
    BY DEF Models
  <2>2. \A l \in Lits : l \in m <=> -l \notin m
    BY <2>1, TotalLits, ApiAssumption DEF Lits
  <2>3. true => Sat(m, C)
    BY <1>2, <2>1, <2>2 DEF Sat
  <2>4. Sat(m, C) => Sat(m, left)
    BY <2>1, <2>2 DEF Sat, Live
  <2> QED
    BY <2>3, <2>4
<1>4. ASSUME NEW m \in Models(Vars, S)
      PROVE  IF c.lits = {} THEN Sat(m, c.all) <=> ~c.unsat ELSE Sat(m, c.all) => Sat(m, c.lits)
  <2>1. ~Sat(m, {})
    BY DEF Sat
  <2> QED
    BY <1>1, <1>3, <2>1
<1> QED
  BY <1>1, <1>2, <1>4 DEF ConstraintSays

(* Solver::constrain (0).                                                  *)
LEMMA ConstrainZeroFits ==
    ASSUME AnswerInv, CallConstrainZero, client # "app", client' = client,
           client = "user" => turn' = "user"
    PROVE  SolverInv' /\ SideInv'
<1> DEFINE left == Live(root.units, Renewed.lits)
           true == Sat(root.units, Renewed.lits) \/ \E l \in left : -l \in left
           lits == IF true THEN {} ELSE left
           c == [lits |-> lits, all |-> Renewed.all, closed |-> TRUE, unsat |-> ~true /\ left = {}]
<1>1. SolverInv /\ stage = "idle" /\ stage' = "idle" /\ AnswerTypes
  BY AnswerParts, CallsIdle DEF CallConstrainZero, ConstrainZero, job, SolverInv
<1>2. Become("UNKNOWN", KeptAssumptions, c, FreezeAll(RenewedCounters, lits)) /\ state \in VALID
  BY DEF CallConstrainZero, ConstrainZero
<1>3. /\ Renewed.lits = Renewed.all /\ Renewed.all \subseteq LitsOver(known)
      /\ Renewed.all = given.open /\ Renewed.all \in SUBSET Lits
  BY <1>1, RenewedFits, OverVars
<1>4. ConstraintSays(c, formula)
  <2>1. \A m \in Models(Vars, formula) : root.units \subseteq m
    BY <1>1 DEF SolverInv, RootSound
  <2>2. true \in BOOLEAN
    OBVIOUS
  <2>3. left = Live(root.units, Renewed.all)
    BY <1>3
  <2>4. true <=> Sat(root.units, Renewed.all) \/ \E l \in left : -l \in left
    BY <1>3
  <2> HIDE DEF left, true
  <2> QED
    BY <1>3, <2>1, <2>2, <2>3, <2>4, LeftSays
<1>5. /\ c.all = Renewed.all /\ c.closed /\ (c.unsat => c.lits = {})
  OBVIOUS
<1> HIDE DEF c, lits, left, true
<1>6. /\ formula' = formula /\ root' = root /\ original' = original /\ known' = known
      /\ trail' = NoTrail
  BY DEF CallConstrainZero, ConstrainZero
<1>7. /\ known' \subseteq Vars /\ formula' \subseteq SUBSET LitsOver(known')
      /\ original' \cup KeptAssumptions \cup c.all \subseteq LitsOver(known')
  BY <1>1, <1>3, <1>5, <1>6, KeptFits DEF AnswerTypes
<1>8. root.unsat \in BOOLEAN /\ root' = [root EXCEPT !.unsat = root.unsat]
  BY <1>1, <1>6 DEF AnswerTypes
<1>9. SolverInv'
  <2>1. /\ known \subseteq known' /\ formula \subseteq formula' /\ trail' \in {trail, NoTrail}
        /\ ConstraintSays(c, formula') /\ (c.unsat => trail' = NoTrail /\ c.lits = {})
    BY <1>4, <1>5, <1>6
  <2> QED
    BY <1>1, <1>2, <1>7, <1>8, <2>1, BecomeFits
<1>10. given' = [given EXCEPT !.constraint = {given.open}, !.open = {}] /\ given \in Givens
  BY InvariantParts DEF CallConstrainZero, AnswerInv, RunInv
<1>11. /\ given'.assumptions = assumptions' /\ given'.open = {}
       /\ given'.constraint = {given.open} /\ constraint'.closed /\ constraint'.all = given.open
  BY <1>1, <1>2, <1>3, <1>5, <1>10 DEF AnswerInv, GivenHeld, Givens, Become
<1>12. SideInv'
  BY <1>1, <1>2, <1>11, SideFits DEF Become, ClosedConstraint
<1> QED
  BY <1>9, <1>12

(* Solver::assume.                                                         *)
LEMMA AssumeFits ==
    ASSUME AnswerInv, NEW l \in Lits, CallAssume(l), CallSide
    PROVE  SolverInv' /\ SideInv'
<1> DEFINE t == IF l \in KeptAssumptions THEN KeptCounters ELSE Freeze(KeptCounters, l)
<1>1. SolverInv /\ stage = "idle" /\ stage' = "idle" /\ AnswerTypes
  BY AnswerParts, CallsIdle DEF CallAssume, Assume, job, SolverInv
<1>2. Become("UNKNOWN", KeptAssumptions \cup {l}, KeptConstraint, t) /\ state \in VALID
  BY DEF CallAssume, Assume
<1> HIDE DEF t
<1>3. /\ known \subseteq known' /\ known' \subseteq Vars /\ trail' \in {trail, NoTrail}
      /\ LitsOver(known) \subseteq LitsOver(known') /\ l \in LitsOver(known')
  BY <1>1, Internalized DEF CallAssume, Assume
<1>4. formula' = formula /\ root' = root /\ original' = original
  BY DEF CallAssume, Assume
<1>5. /\ formula' \subseteq SUBSET LitsOver(known')
      /\ original' \cup (KeptAssumptions \cup {l}) \cup KeptConstraint.all \subseteq LitsOver(known')
  BY <1>1, <1>3, <1>4, KeptFits DEF AnswerTypes
<1>6. root.unsat \in BOOLEAN /\ root' = [root EXCEPT !.unsat = root.unsat]
  BY <1>1, <1>4 DEF AnswerTypes
<1>7. SolverInv'
  BY <1>1, <1>2, <1>3, <1>4, <1>5, <1>6, KeptFits, BecomeFits
<1>8. given' = [given EXCEPT !.assumptions = @ \cup {l}] /\ given \in Givens
  BY InvariantParts DEF CallAssume, AnswerInv, RunInv
<1>9. /\ given'.assumptions = assumptions'
      /\ given'.open = IF constraint'.closed THEN {} ELSE constraint'.all
      /\ given'.constraint = given.constraint
  BY <1>1, <1>2, <1>8 DEF AnswerInv, GivenHeld, Givens, Become
<1>10. HasGiven' => given'.constraint = ClosedConstraint'
  BY <1>1, <1>2, <1>9, KeptClosed DEF CallSide, ClosedConstraint, Become
<1>11. client = "app" => ~constraint'.closed
  BY <1>2, AppUnconstrained DEF Become
<1>12. SideInv'
  BY <1>1, <1>2, <1>9, <1>10, <1>11, SideFits DEF Become, CallSide
<1> QED
  BY <1>7, <1>12

(* Solver::reset_assumptions and Solver::reset_constraint, by the user.    *)
LEMMA ResetFits ==
    ASSUME AnswerInv, NEW A \in {KeptAssumptions, {}}, NEW c \in {KeptConstraint, NoConstraint},
           NEW t, Become("UNKNOWN", A, c, t), state \in VALID,
           UNCHANGED <<formula, original, known, root, trail, job>>,
           client' = client, client = "user", turn' = "user",
           given'.assumptions = A, given'.open = IF c.closed THEN {} ELSE c.all,
           HasGiven' => given'.constraint = IF c.closed THEN {c.all} ELSE {}
    PROVE  SolverInv' /\ SideInv'
<1>1. SolverInv /\ stage = "idle" /\ stage' = "idle" /\ AnswerTypes
  BY AnswerParts, CallsIdle DEF job, SolverInv
<1>2. /\ ConstraintSays(c, formula) /\ c.all \subseteq LitsOver(known) /\ A \subseteq LitsOver(known)
      /\ c.unsat => trail = NoTrail /\ c.lits = {}
  <2>1. CASE c = KeptConstraint
    BY <1>1, <2>1, KeptFits
  <2>2. CASE c = NoConstraint
    <3>1. c.all = {} /\ ~c.unsat /\ ConstraintSays(c, formula)
      BY <2>2, NothingSays DEF NoConstraint
    <3> QED
      BY <1>1, <3>1, KeptFits
  <2> QED
    BY <2>1, <2>2
<1>3. root.unsat \in BOOLEAN /\ root' = [root EXCEPT !.unsat = root.unsat]
  BY <1>1 DEF AnswerTypes
<1>4. /\ known' \subseteq Vars /\ formula' \subseteq SUBSET LitsOver(known')
      /\ original' \cup A \cup c.all \subseteq LitsOver(known')
  BY <1>1, <1>2 DEF AnswerTypes
<1>5. SolverInv'
  BY <1>1, <1>2, <1>3, <1>4, BecomeFits
<1>6. SideInv'
  BY <1>1, SideFits DEF Become, ClosedConstraint
<1> QED
  BY <1>5, <1>6

(* Calls that only read, and what leaves the solver's answer alone.        *)
LEMMA QuietFits ==
    ASSUME AnswerInv, failed' \in {failed, trail.core},
           UNCHANGED <<state, formula, original, assumptions, constraint, known, root, trail,
                       stage, result>>
    PROVE  SolverInv'
<1>1. SolverInv
  BY AnswerParts
<1>2. AnswerTypes'
  BY <1>1 DEF SolverInv, AnswerTypes
<1>3. RootSound' /\ ConstraintSound'
  <2>1. RootSound'
    BY <1>1 DEF SolverInv, RootSound
  <2>2. ConstraintSound'
    BY <1>1 DEF SolverInv, ConstraintSound, ConstraintSays
  <2> QED
    BY <2>1, <2>2
<1>4. ModelFits' = ModelFits /\ TrailCoreFits' = TrailCoreFits
  BY DEF ModelFits, TrailCoreFits, ClosedConstraint
<1>5. TrailFits'
  <2>1. state = "UNSATISFIED" => failed' = trail.core
    BY <1>1 DEF SolverInv, TrailFits
  <2> QED
    BY <1>1, <1>4, <2>1 DEF SolverInv, TrailFits
<1> QED
  BY <1>2, <1>3, <1>5 DEF SolverInv

(* The client's part of such a step.                                       *)
LEMMA QuietSide ==
    ASSUME AnswerInv, UNCHANGED <<state, assumptions, constraint, stage>>, SameGiven,
           client' = client, last' = last, HasGiven' => HasGiven,
           stage # "idle" \/ client = "user" => turn' = turn
    PROVE  SideInv'
<1>1. /\ Answered' = Answered /\ KeptAssumptions' = KeptAssumptions
      /\ KeptConstraint' = KeptConstraint /\ ClosedConstraint' = ClosedConstraint
  BY DEF Answered, KeptAssumptions, KeptConstraint, ClosedConstraint
<1>2. client = "tester" /\ turn' \in BeforeProcess => turn \in BeforeProcess
  BY DEF HasGiven
<1>3. TurnFits'
  BY <1>1, <1>2 DEF AnswerInv, TurnFits
<1>4. GivenHeld'
  BY <1>1 DEF AnswerInv, GivenHeld, SameGiven
<1>5. LastHeld'
  BY <1>1 DEF AnswerInv, LastHeld
<1> QED
  BY <1>3, <1>4, <1>5 DEF SideInv

(* Calls that may backtrack or learn units, made when there is no answer.  *)
LEMMA BacktrackFits ==
    ASSUME AnswerInv, state \in VALID, ~Answered,
           UNCHANGED <<state, formula, original, assumptions, constraint, failed, job>>,
           known \subseteq known', known' \subseteq Vars,
           trail' \in {trail, NoTrail},
           root' \in [units : SUBSET LitsOver(known'), unsat : BOOLEAN],
           \A m \in Models(Vars, formula) : root'.units \subseteq m,
           root'.unsat => Models(Vars, formula) = {} /\ trail' = NoTrail
    PROVE  SolverInv'
<1>1. SolverInv /\ stage = "idle" /\ stage' = "idle"
  BY AnswerParts, CallsIdle DEF job
<1>2. LitsOver(known) \subseteq LitsOver(known')
  BY LitsOverMore
<1>3. trail' \in [model : SUBSET LitsOver(known'), core : SUBSET LitsOver(known')]
  <2>1. CASE trail' = trail
    BY <1>1, <1>2, <2>1 DEF SolverInv, AnswerTypes
  <2>2. CASE trail' = NoTrail
    BY <2>2 DEF NoTrail
  <2> QED
    BY <2>1, <2>2
<1>4. AnswerTypes'
  BY <1>1, <1>2, <1>3 DEF SolverInv, AnswerTypes
<1>5. constraint.unsat => trail = NoTrail /\ constraint.lits = {}
  BY <1>1 DEF SolverInv, TrailFits, Answered
<1>6. ConstraintSays(constraint', formula')
  BY <1>1 DEF SolverInv, ConstraintSound
<1>7. ~Answered'
  BY DEF Answered
<1> QED
  BY <1>1, <1>4, <1>5, <1>6, <1>7, OutsideFits

(* Solver::freeze of a variable.                                           *)
LEMMA FreezeFits ==
    ASSUME AnswerInv, NEW v, FreezeVar(v), ~Answered
    PROVE  SolverInv'
<1>1. SolverInv /\ AnswerTypes
  BY AnswerParts DEF SolverInv
<1>2. /\ known \subseteq known' /\ known' \subseteq Vars /\ trail' \in {trail, NoTrail}
      /\ LitsOver(known) \subseteq LitsOver(known')
  BY <1>1, Internalized DEF FreezeVar
<1>3. root' = root
  BY DEF FreezeVar
<1>4. /\ root' \in [units : SUBSET LitsOver(known'), unsat : BOOLEAN]
      /\ \A m \in Models(Vars, formula) : root'.units \subseteq m
      /\ root'.unsat => Models(Vars, formula) = {} /\ trail' = NoTrail
  BY <1>1, <1>2, <1>3 DEF AnswerTypes, SolverInv, RootSound, TrailFits
<1> QED
  BY <1>2, <1>4, BacktrackFits DEF FreezeVar

(* Solver::lookahead and Solver::generate_cubes.                           *)
LEMMA ProbingFits ==
    ASSUME AnswerInv, ~Answered, Lookahead \/ \E depth \in {0, 1} : GenerateCubes(depth)
    PROVE  SolverInv'
<1>1. SolverInv /\ AnswerTypes /\ RootSound
  BY AnswerParts DEF SolverInv
<1>2. /\ state \in VALID /\ known' = known
      /\ UNCHANGED <<state, formula, original, assumptions, constraint, failed, job>>
  BY DEF Lookahead, GenerateCubes
<1>3. known' \subseteq Vars
  BY <1>1, <1>2 DEF AnswerTypes
<1>4. CASE UNCHANGED <<root, trail>>
  <2>1. /\ root' \in [units : SUBSET LitsOver(known'), unsat : BOOLEAN]
        /\ \A m \in Models(Vars, formula) : root'.units \subseteq m
        /\ root'.unsat => Models(Vars, formula) = {} /\ trail' = NoTrail
    BY <1>1, <1>2, <1>4 DEF AnswerTypes, SolverInv, RootSound, TrailFits
  <2> QED
    BY <1>2, <1>3, <1>4, <2>1, BacktrackFits
<1>5. ASSUME NEW U \in {Propagated, Backbone}, trail' = NoTrail,
             \/ root' = RootAfter(U)
             \/ root' = [RootAfter(U) EXCEPT !.unsat = RootAfter(Propagated).unsat]
      PROVE  SolverInv'
  <2> DEFINE r == RootAfter(U)
             p == RootAfter(Propagated)
  <2>1. /\ r \in [units : SUBSET LitsOver(known), unsat : BOOLEAN]
        /\ \A m \in Models(Vars, formula) : r.units \subseteq m
        /\ r.unsat => Models(Vars, formula) = {}
    BY <1>1, RootAfterSound
  <2>2. p.unsat \in BOOLEAN /\ (p.unsat => Models(Vars, formula) = {})
    BY <1>1, RootAfterSound
  <2> HIDE DEF r, p
  <2>3. /\ root' \in [units : SUBSET LitsOver(known'), unsat : BOOLEAN]
        /\ \A m \in Models(Vars, formula) : root'.units \subseteq m
        /\ root'.unsat => Models(Vars, formula) = {} /\ trail' = NoTrail
    <3>1. CASE root' = r
      BY <1>2, <1>5, <2>1, <3>1
    <3>2. CASE root' = [r EXCEPT !.unsat = p.unsat]
      BY <1>2, <1>5, <2>1, <2>2, <3>2
    <3> QED
      BY <1>5, <3>1, <3>2 DEF r, p
  <2> QED
    BY <1>2, <1>3, <1>5, <2>3, BacktrackFits
<1>6. CASE Lookahead
  <2>1. \/ UNCHANGED <<root, trail>>
        \/ trail' = NoTrail /\ root' \in {RootAfter(Propagated), RootAfter(Backbone)}
    BY <1>6 DEF Lookahead, LookaheadProbing
  <2> QED
    BY <1>4, <1>5, <2>1
<1>7. CASE \E depth \in {0, 1} : GenerateCubes(depth)
  <2>1. \/ UNCHANGED <<root, trail>>
        \/ /\ trail' = NoTrail
           /\ \E r \in {RootAfter(Propagated), RootAfter(Backbone)} :
                  root' = [r EXCEPT !.unsat = RootAfter(Propagated).unsat]
    BY <1>7 DEF GenerateCubes, LookaheadProbing
  <2> QED
    BY <1>4, <1>5, <2>1
<1> QED
  BY <1>6, <1>7

(* The start of solve.                                                     *)
LEMMA CallSolveFits ==
    ASSUME AnswerInv, NEW pre, NEW n, CallSolve(pre, n), HasGiven, client' = client,
           turn' = IF client = "tester" THEN "query" ELSE "solved"
    PROVE  SolverInv' /\ SideInv'
<1>1. SolverInv /\ state \in VALID /\ AnswerTypes /\ client \in {"tester", "app", "user"}
  BY AnswerParts, InvariantParts DEF CallSolve, StartSolve, VALID, SolverInv, ClientInv
<1>2. stage = "idle"
  BY <1>1, CallsIdle DEF AnswerInv
<1>3. Become("SOLVING", KeptAssumptions, KeptConstraint, KeptCounters)
  BY DEF CallSolve, StartSolve
<1>4. UNCHANGED <<formula, original, known, root, trail>> /\ stage' = "already_solved" /\ last' = given
  BY DEF CallSolve, StartSolve
<1>5. /\ known' \subseteq Vars /\ formula' \subseteq SUBSET LitsOver(known')
      /\ original' \cup KeptAssumptions \cup KeptConstraint.all \subseteq LitsOver(known')
  BY <1>1, <1>2, <1>4, KeptFits DEF AnswerTypes
<1>6. root.unsat \in BOOLEAN /\ root' = [root EXCEPT !.unsat = root.unsat]
  BY <1>1, <1>4 DEF AnswerTypes
<1>7. SolverInv'
  BY <1>1, <1>2, <1>3, <1>4, <1>5, <1>6, KeptFits, BecomeFits
<1>8. state' = "SOLVING" /\ assumptions' = KeptAssumptions /\ constraint' = KeptConstraint
  BY <1>3 DEF Become
<1>9. TurnFits'
  <2>1. client = "app" => ~constraint'.closed
    BY <1>8, AppUnconstrained
  <2> QED
    BY <1>1, <1>4, <1>8, <2>1 DEF TurnFits, BeforeProcess, Answered
<1>10. LastHeld'
  <2>1. last'.assumptions = assumptions'
    BY <1>2, <1>4, <1>8 DEF AnswerInv, GivenHeld
  <2>2. last'.constraint = ClosedConstraint'
    BY <1>2, <1>4, <1>8, KeptClosed DEF ClosedConstraint
  <2> QED
    BY <2>1, <2>2 DEF LastHeld
<1>11. GivenHeld'
  BY <1>4 DEF GivenHeld
<1> QED
  BY <1>7, <1>9, <1>10, <1>11 DEF SideInv

-----------------------------------------------------------------------------
(* The stages of solve, from what they find to the answers.                *)

(* More clauses contradict each other if some of them do.                  *)
LEMMA UnsatMore ==
    ASSUME NEW S, NEW T, S \subseteq T, T \subseteq SUBSET Lits, Models(Vars, S) = {}
    PROVE  Unsat(T)
<1>1. Models(Vars, T) = {}
  BY FewerModels
<1> QED
  BY <1>1, UnsatOver

(* The clauses that an answer is about are over the variables.             *)
LEMMA QuestionOver ==
    ASSUME AnswerTypes, NEW A \in SUBSET assumptions
    PROVE  /\ Units(A) \subseteq SUBSET Lits
           /\ formula \cup Units(A) \subseteq SUBSET Lits
           /\ formula \cup Units(A) \cup {constraint.all} \subseteq SUBSET Lits
<1>1. A \subseteq Lits /\ formula \subseteq SUBSET Lits /\ constraint.all \subseteq Lits
  BY OverVars
<1> QED
  BY <1>1 DEF Units

(* A model of what the solver has is one of what it was given.             *)
LEMMA ModelAnswers ==
    ASSUME SolverInv, ~constraint.unsat, constraint.lits # {} => constraint.closed,
           NEW m \in Models(known, Query)
    PROVE  /\ m \in Models(known, formula \cup Units(assumptions) \cup ClosedConstraint)
           /\ m \subseteq LitsOver(known)
<1>1. /\ m \in Assignments(known) /\ \A c \in formula \cup Units(assumptions) : Sat(m, c)
      /\ \A c \in Constraint : Sat(m, c)
  BY DEF Models, Query
<1>2. known \in SUBSET Vars /\ constraint.all \subseteq LitsOver(known) /\ ConstraintSays(constraint, formula)
  BY OverVars DEF SolverInv, AnswerTypes, ConstraintSound
<1>3. constraint.closed => Sat(m, constraint.all)
  <2>1. CASE constraint.closed /\ constraint.lits = {}
    <3>1. m \in Models(known, formula)
      BY <1>1 DEF Models
    <3> DEFINE n == m \cup (Vars \ known)
    <3>2. n \in Models(Vars, formula) /\ \A l \in LitsOver(known) : l \in n => l \in m
      <4>1. Vars \subseteq Nat \ {0} /\ known \in SUBSET Vars
        BY <1>2, ApiAssumption
      <4>2. n \in Models(Vars, formula)
        BY <3>1, <4>1, Extended
      <4>3. \A l \in LitsOver(known) : l \in n => l \in m
        BY <3>1, <4>1, Extended
      <4> QED
        BY <4>2, <4>3
    <3> HIDE DEF n
    <3>3. Sat(n, constraint.all)
      BY <1>2, <2>1, <3>2 DEF ConstraintSays
    <3> QED
      BY <1>2, <3>2, <3>3 DEF Sat
  <2>2. CASE constraint.lits # {}
    <3>1. Sat(m, constraint.lits)
      BY <1>1, <2>2 DEF Constraint
    <3> QED
      BY <1>2, <3>1 DEF ConstraintSays, Sat
  <2> QED
    BY <2>1, <2>2
<1>4. m \subseteq LitsOver(known)
  BY <1>1, <1>2, AssignmentOver, ApiAssumption
<1> QED
  BY <1>1, <1>3, <1>4 DEF Models, ClosedConstraint

(* When the clauses have no model none of the assumptions has failed.      *)
LEMMA NoCore ==
    ASSUME AnswerTypes, Models(Vars, formula) = {}
    PROVE  Unsat(formula \cup Units({})) /\ Unsat(formula \cup Units({}) \cup {constraint.all})
<1>1. /\ formula \cup Units({}) \subseteq SUBSET Lits
      /\ formula \cup Units({}) \cup {constraint.all} \subseteq SUBSET Lits
  BY QuestionOver
<1> QED
  BY <1>1, UnsatMore

(* When the constraint has failed all of it contradicts the rest.          *)
LEMMA ConstraintCore ==
    ASSUME SolverInv, constraint.closed, constraint.lits # {}, NEW A \in SUBSET assumptions,
           Unsat(formula \cup Units(A) \cup Constraint)
    PROVE  Unsat(formula \cup Units(A) \cup {constraint.all})
<1>1. AnswerTypes /\ ConstraintSays(constraint, formula)
  BY DEF SolverInv, ConstraintSound
<1>2. /\ formula \cup Units(A) \cup {constraint.all} \subseteq SUBSET Lits
      /\ formula \cup Units(A) \cup Constraint \subseteq SUBSET Lits
  <2>1. constraint.lits \subseteq constraint.all
    BY <1>1 DEF ConstraintSays
  <2> QED
    BY <1>1, <2>1, QuestionOver DEF Constraint
<1>3. Models(Vars, formula \cup Units(A) \cup Constraint) = {}
  BY <1>2, UnsatOver
<1>4. ASSUME NEW m \in Models(Vars, formula \cup Units(A) \cup {constraint.all})
      PROVE  FALSE
  <2>1. m \in Assignments(Vars) /\ \A c \in formula \cup Units(A) \cup {constraint.all} : Sat(m, c)
    BY DEF Models
  <2>2. m \in Models(Vars, formula)
    BY <2>1 DEF Models
  <2>3. Sat(m, constraint.lits)
    BY <1>1, <2>1, <2>2 DEF ConstraintSays
  <2>4. \A c \in formula \cup Units(A) \cup Constraint : Sat(m, c)
    BY <2>1, <2>3 DEF Constraint
  <2> QED
    BY <1>3, <2>1, <2>4 DEF Models
<1>5. Models(Vars, formula \cup Units(A) \cup {constraint.all}) = {}
  BY <1>4
<1> QED
  BY <1>2, <1>5, UnsatOver

(* The client's part of a step within solve.                               *)
LEMMA StageSide ==
    ASSUME AnswerInv, stage # "idle", stage' # "idle", KeepsUserData,
           constraint' \in {constraint, [constraint EXCEPT !.unsat = TRUE]},
           UNCHANGED <<last, clientVars>>
    PROVE  SideInv'
<1>1. constraint'.closed = constraint.closed /\ constraint'.all = constraint.all
  BY InvariantParts DEF AnswerInv, DataInv, Constraints
<1>2. ClosedConstraint' = ClosedConstraint /\ Answered' = Answered /\ assumptions' = assumptions
  BY <1>1 DEF ClosedConstraint, Answered, KeepsUserData
<1>3. TurnFits'
  BY <1>1, <1>2 DEF AnswerInv, TurnFits, KeepsUserData, clientVars
<1>4. GivenHeld'
  BY DEF GivenHeld
<1>5. LastHeld'
  BY <1>2 DEF AnswerInv, LastHeld
<1> QED
  BY <1>3, <1>4, <1>5 DEF SideInv

(* What is to be shown of a step within solve.                             *)
LEMMA StageFits ==
    ASSUME AnswerInv, stage # "idle", KeepsUserData, stage' \in Stages \ {"idle", "already_solved"},
           \/ constraint' = constraint
           \/ constraint.lits # {} /\ constraint' = [constraint EXCEPT !.unsat = TRUE],
           trail' \in [model : SUBSET LitsOver(known), core : SUBSET LitsOver(known)],
           root' \in [units : SUBSET LitsOver(known), unsat : BOOLEAN],
           \A m \in Models(Vars, formula) : root'.units \subseteq m,
           root'.unsat => Models(Vars, formula) = {} /\ trail' = NoTrail,
           stage' \in {"preprocess", "local_search", "lucky_phases", "search"} =>
               trail' = NoTrail /\ ~root'.unsat /\ ~constraint'.unsat,
           stage' \in {"reset", "clear", "return"} =>
               /\ result' = 10 =>
                      trail'.model \in Models(known, formula \cup Units(assumptions) \cup ClosedConstraint)
               /\ IF result' = 20
                  THEN /\ trail'.core \subseteq assumptions
                       /\ Unsat(formula \cup Units(trail'.core)
                                \cup IF constraint'.unsat THEN ClosedConstraint ELSE {})
                  ELSE ~constraint'.unsat
    PROVE  SolverInv'
<1>1. SolverInv /\ state = "SOLVING" /\ constraint \in Constraints
      /\ (constraint.lits # {} => constraint.closed)
  BY AnswerParts, InvariantParts DEF RunInv, OneCall, DataInv, OpenConstraint
<1>2. /\ constraint'.closed = constraint.closed /\ constraint'.all = constraint.all
      /\ constraint'.lits = constraint.lits
      /\ constraint' # constraint => constraint.lits # {}
  BY <1>1 DEF Constraints
<1>3. UNCHANGED <<state, formula, original, assumptions, known, failed>>
  BY DEF KeepsUserData
<1>4. ClosedConstraint' = ClosedConstraint
  BY <1>2 DEF ClosedConstraint
<1>5. AnswerTypes'
  BY <1>1, <1>2, <1>3 DEF SolverInv, AnswerTypes
<1>6. RootSound'
  BY <1>3 DEF RootSound
<1>7. ConstraintSound'
  <2>1. ConstraintSays(constraint', formula)
    BY <1>1, <1>2 DEF SolverInv, ConstraintSound, ConstraintSays
  <2> QED
    BY <1>3, <2>1 DEF ConstraintSound, ConstraintSays
<1>8. TrailFits'
  <2>1. stage' \in {"reset", "clear", "return"} =>
            /\ result' = 10 => ModelFits'
            /\ IF result' = 20 THEN TrailCoreFits' ELSE ~constraint'.unsat
    BY <1>3, <1>4 DEF ModelFits, TrailCoreFits
  <2>2. state' = "SOLVING" /\ stage' \notin {"idle", "already_solved"}
    BY <1>1, <1>3
  <2> QED
    BY <2>1, <2>2 DEF TrailFits
<1> QED
  BY <1>5, <1>6, <1>7, <1>8 DEF SolverInv

(* What holds in every stage of solve.                                     *)
LEMMA StageGiven ==
    ASSUME AnswerInv, stage # "idle"
    PROVE  /\ SolverInv /\ AnswerTypes /\ RootSound /\ state = "SOLVING"
           /\ constraint \in Constraints /\ (constraint.lits # {} => constraint.closed)
           /\ root \in [units : SUBSET LitsOver(known), unsat : BOOLEAN]
           /\ trail \in [model : SUBSET LitsOver(known), core : SUBSET LitsOver(known)]
           /\ NoTrail \in [model : SUBSET LitsOver(known), core : SUBSET LitsOver(known)]
  BY AnswerParts, InvariantParts DEF RunInv, OneCall, DataInv, OpenConstraint, SolverInv, AnswerTypes,
                                     NoTrail

(* A contradiction on the root level is an answer without failed           *)
(* assumptions.                                                            *)
LEMMA UnsatAnswer ==
    ASSUME AnswerInv, stage # "idle", KeepsUserData, UNCHANGED constraint,
           stage' = "reset", result' = 20, trail' = NoTrail,
           root' \in [units : SUBSET LitsOver(known), unsat : BOOLEAN],
           \A m \in Models(Vars, formula) : root'.units \subseteq m,
           Models(Vars, formula) = {}
    PROVE  SolverInv'
<1>1. AnswerTypes /\ NoTrail \in [model : SUBSET LitsOver(known), core : SUBSET LitsOver(known)]
  BY StageGiven
<1>2. trail'.core = {}
  BY DEF NoTrail
<1>3. Unsat(formula \cup Units({}) \cup IF constraint'.unsat THEN ClosedConstraint ELSE {})
  <2>1. formula \cup Units({}) \cup {} = formula \cup Units({})
    OBVIOUS
  <2> QED
    BY <1>1, <2>1, NoCore DEF ClosedConstraint
<1>4. {} \subseteq assumptions
  OBVIOUS
<1> QED
  BY <1>1, <1>2, <1>3, <1>4, StageFits DEF Stages

(* already_solved and the first propagation.                               *)
LEMMA AlreadySolvedFits ==
    ASSUME AnswerInv, AlreadySolved
    PROVE  SolverInv'
<1>1. stage = "already_solved" /\ KeepsUserData /\ constraint' = constraint
  BY DEF AlreadySolved
<1>2. /\ SolverInv /\ AnswerTypes /\ RootSound /\ state = "SOLVING" /\ constraint \in Constraints
      /\ (constraint.lits # {} => constraint.closed)
      /\ root \in [units : SUBSET LitsOver(known), unsat : BOOLEAN]
      /\ NoTrail \in [model : SUBSET LitsOver(known), core : SUBSET LitsOver(known)]
  BY <1>1, StageGiven
<1>3. CASE root.unsat
  <2>1. result' = 20 /\ stage' = "reset" /\ UNCHANGED <<root, trail>>
    BY <1>3 DEF AlreadySolved, Finish, ToStage
  <2>2. trail = NoTrail /\ Models(Vars, formula) = {}
    BY <1>2, <1>3 DEF SolverInv, RootSound, TrailFits
  <2> QED
    BY <1>1, <1>2, <2>1, <2>2, UnsatAnswer
<1>4. CASE ~root.unsat /\ constraint.unsat
  <2>1. result' = 20 /\ stage' = "reset" /\ UNCHANGED <<root, trail>>
    BY <1>4 DEF AlreadySolved, Finish, ToStage
  <2>2. trail = NoTrail /\ constraint.lits = {}
    BY <1>1, <1>2, <1>4 DEF SolverInv, TrailFits
  <2>3. constraint.closed /\ \A m \in Models(Vars, formula) : ~Sat(m, constraint.all)
    BY <1>2, <1>4, <2>2 DEF SolverInv, ConstraintSound, ConstraintSays
  <2>4. Models(Vars, formula \cup {constraint.all}) = {}
    BY <2>3 DEF Models
  <2>5. Unsat(formula \cup Units({}) \cup {constraint.all})
    <3>1. formula \cup Units({}) \cup {constraint.all} \subseteq SUBSET Lits
      BY <1>2, QuestionOver
    <3>2. formula \cup {constraint.all} \subseteq formula \cup Units({}) \cup {constraint.all}
      OBVIOUS
    <3> QED
      BY <2>4, <3>1, <3>2, UnsatMore
  <2>6. trail'.core = {} /\ {} \subseteq assumptions
    BY <2>1, <2>2 DEF NoTrail
  <2>7. Unsat(formula \cup Units(trail'.core)
              \cup IF constraint'.unsat THEN ClosedConstraint ELSE {})
    BY <1>1, <1>4, <2>3, <2>5, <2>6 DEF ClosedConstraint
  <2>8. \A m \in Models(Vars, formula) : root'.units \subseteq m
    BY <1>2, <2>1 DEF RootSound
  <2> QED
    BY <1>1, <1>2, <1>4, <2>1, <2>2, <2>6, <2>7, <2>8, StageFits DEF Stages
<1>5. CASE ~root.unsat /\ ~constraint.unsat
  <2> DEFINE r == RootAfter(Propagated)
  <2>1. trail' = NoTrail /\ root' = r
    BY <1>5 DEF AlreadySolved
  <2>2. /\ r \in [units : SUBSET LitsOver(known), unsat : BOOLEAN]
        /\ \A m \in Models(Vars, formula) : r.units \subseteq m
        /\ r.unsat => Models(Vars, formula) = {}
        /\ {} \in formula => r.unsat
    BY <1>2, RootAfterSound
  <2>3. IF r.unsat THEN Finish(20)
        ELSE IF known = {} THEN Finish(10)
        ELSE ToStage("preprocess") /\ UNCHANGED result
    BY <1>5, <2>1 DEF AlreadySolved
  <2> HIDE DEF r
  <2>4. CASE r.unsat
    BY <1>1, <1>2, <2>1, <2>2, <2>3, <2>4, UnsatAnswer DEF Finish, ToStage
  <2>5. CASE ~r.unsat /\ known = {}
    <3>1. LitsOver(known) = {}
      BY <2>5 DEF LitsOver, Neg
    <3>2. formula = {} /\ assumptions = {} /\ constraint.all = {}
      BY <1>2, <2>2, <2>5, <3>1 DEF AnswerTypes
    <3>3. ~constraint.closed
      <4>1. constraint.lits = {} /\ ConstraintSays(constraint, formula)
        BY <1>2, <3>2 DEF SolverInv, ConstraintSound, ConstraintSays
      <4>2. Vars \cup Neg({}) \in Models(Vars, formula)
        BY <3>2 DEF Models, Assignments
      <4>3. ~Sat(Vars \cup Neg({}), {})
        BY DEF Sat
      <4> QED
        BY <1>5, <3>2, <4>1, <4>2, <4>3 DEF ConstraintSays
    <3>4. {} \in Models(known, {})
      <4>1. {} \subseteq known /\ {} = {} \cup Neg(known \ {})
        BY <2>5 DEF Neg
      <4> QED
        BY <4>1 DEF Models, Assignments
    <3>5. formula \cup Units(assumptions) \cup ClosedConstraint = {}
      BY <3>2, <3>3 DEF Units, ClosedConstraint
    <3>6. trail'.model \in Models(known, formula \cup Units(assumptions) \cup ClosedConstraint)
      BY <2>1, <3>4, <3>5 DEF NoTrail
    <3>7. stage' = "reset" /\ result' = 10
      BY <2>3, <2>5 DEF Finish, ToStage
    <3> QED
      BY <1>1, <1>2, <1>5, <2>1, <2>2, <2>5, <3>6, <3>7, StageFits DEF Stages
  <2>6. CASE ~r.unsat /\ known # {}
    <3>1. stage' = "preprocess"
      BY <2>3, <2>6 DEF ToStage
    <3> QED
      BY <1>1, <1>2, <1>5, <2>1, <2>2, <2>6, <3>1, StageFits DEF Stages
  <2> QED
    BY <2>4, <2>5, <2>6
<1> QED
  BY <1>3, <1>4, <1>5

(* Preprocessing. *)
LEMMA PreprocessFits ==
    ASSUME AnswerInv, Preprocess
    PROVE  SolverInv'
<1>1. stage = "preprocess" /\ KeepsUserData /\ UNCHANGED <<constraint, trail>>
  BY DEF Preprocess
<1>2. /\ SolverInv /\ AnswerTypes /\ RootSound
      /\ root \in [units : SUBSET LitsOver(known), unsat : BOOLEAN]
      /\ NoTrail \in [model : SUBSET LitsOver(known), core : SUBSET LitsOver(known)]
  BY <1>1, StageGiven
<1>3. trail = NoTrail /\ ~root.unsat /\ ~constraint.unsat
  BY <1>1, <1>2 DEF SolverInv, TrailFits
<1>4. /\ root' \in [units : SUBSET LitsOver(known), unsat : BOOLEAN]
      /\ \A m \in Models(Vars, formula) : root'.units \subseteq m
      /\ root'.unsat => Models(Vars, formula) = {}
  <2>1. CASE root' = root
    BY <1>2, <2>1 DEF RootSound
  <2>2. CASE root' = RootAfter(Backbone)
    BY <1>2, <2>2, RootAfterSound
  <2> QED
    BY <2>1, <2>2 DEF Preprocess
<1>5. IF root'.unsat THEN Finish(20)
      ELSE IF simplifying THEN Finish(0)
      ELSE ToStage("local_search") /\ UNCHANGED result
  BY DEF Preprocess
<1>6. CASE root'.unsat
  BY <1>1, <1>2, <1>3, <1>4, <1>5, <1>6, UnsatAnswer DEF Finish, ToStage
<1>7. CASE ~root'.unsat
  <2>1. \/ stage' = "reset" /\ result' = 0
        \/ stage' = "local_search"
    BY <1>5, <1>7 DEF Finish, ToStage
  <2>2. stage # "idle" /\ stage' \in Stages \ {"idle", "already_solved"}
    BY <1>1, <2>1 DEF Stages
  <2> QED
    BY <1>1, <1>2, <1>3, <1>4, <1>7, <2>1, <2>2, StageFits
<1> QED
  BY <1>6, <1>7

(* A step within solve that has no answer, to another stage or to the end. *)
LEMMA NoAnswerFits ==
    ASSUME AnswerInv, stage \in {"local_search", "lucky_phases", "search"}, KeepsUserData,
           UNCHANGED <<root, trail, constraint>>,
           \/ stage' \in {"lucky_phases", "search"}
           \/ stage' = "reset" /\ result' = 0
    PROVE  SolverInv'
<1>1. /\ SolverInv /\ RootSound /\ root \in [units : SUBSET LitsOver(known), unsat : BOOLEAN]
      /\ NoTrail \in [model : SUBSET LitsOver(known), core : SUBSET LitsOver(known)]
  BY StageGiven
<1>2. trail = NoTrail /\ ~root.unsat /\ ~constraint.unsat
  BY <1>1 DEF SolverInv, TrailFits
<1>3. stage # "idle" /\ stage' \in Stages \ {"idle", "already_solved"}
  BY DEF Stages
<1>4. \A m \in Models(Vars, formula) : root'.units \subseteq m
  BY <1>1 DEF RootSound
<1> QED
  BY <1>1, <1>2, <1>3, <1>4, StageFits

(* The answers of local search, of the lucky phases and of the search.     *)
LEMMA SearchAnswerFits ==
    ASSUME AnswerInv, stage \in {"local_search", "lucky_phases", "search"}, KeepsUserData,
           AnswerSat(Query) \/ AnswerFailed \/ AnswerConstraint \/ AnswerUnsat
    PROVE  SolverInv'
<1>1. /\ SolverInv /\ AnswerTypes /\ RootSound
      /\ root \in [units : SUBSET LitsOver(known), unsat : BOOLEAN]
      /\ (constraint.lits # {} => constraint.closed) /\ constraint \in Constraints
  BY StageGiven
<1>2. trail = NoTrail /\ ~root.unsat /\ ~constraint.unsat
  BY <1>1 DEF SolverInv, TrailFits
<1>3. \A m \in Models(Vars, formula) : root.units \subseteq m
  BY <1>1 DEF RootSound
<1>4. assumptions \subseteq LitsOver(known)
  BY <1>1 DEF AnswerTypes
<1>5. "reset" \in Stages \ {"idle", "already_solved"} /\ stage # "idle"
  BY DEF Stages
<1>6. CASE AnswerSat(Query)
  <2>1. PICK m \in Models(known, Query) : trail' = [model |-> m, core |-> {}]
    BY <1>6 DEF AnswerSat
  <2>2. /\ m \in Models(known, formula \cup Units(assumptions) \cup ClosedConstraint)
        /\ m \subseteq LitsOver(known)
    BY <1>1, <1>2, ModelAnswers
  <2>3. stage' = "reset" /\ result' = 10 /\ UNCHANGED <<root, constraint>>
    BY <1>6 DEF AnswerSat, Finish, ToStage
  <2>4. /\ trail' \in [model : SUBSET LitsOver(known), core : SUBSET LitsOver(known)]
        /\ trail'.model = m
    BY <2>1, <2>2
  <2> QED
    BY <1>1, <1>2, <1>3, <1>5, <2>2, <2>3, <2>4, StageFits
<1>7. CASE AnswerFailed
  <2>1. PICK A \in SUBSET assumptions :
            Unsat(formula \cup Units(A)) /\ trail' = [model |-> {}, core |-> A]
    BY <1>7 DEF AnswerFailed
  <2>2. stage' = "reset" /\ result' = 20 /\ UNCHANGED <<root, constraint>>
    BY <1>7 DEF AnswerFailed, Finish, ToStage
  <2>3. /\ trail' \in [model : SUBSET LitsOver(known), core : SUBSET LitsOver(known)]
        /\ trail'.core = A
    BY <1>4, <2>1
  <2>4. Unsat(formula \cup Units(trail'.core)
              \cup IF constraint'.unsat THEN ClosedConstraint ELSE {})
    <3>1. formula \cup Units(A) \cup {} = formula \cup Units(A)
      OBVIOUS
    <3> QED
      BY <1>2, <2>1, <2>2, <2>3, <3>1
  <2> QED
    BY <1>1, <1>2, <1>3, <1>5, <2>2, <2>3, <2>4, StageFits
<1>8. CASE AnswerConstraint
  <2>1. PICK A \in SUBSET assumptions :
            Unsat(formula \cup Units(A) \cup Constraint) /\ trail' = [model |-> {}, core |-> A]
    BY <1>8 DEF AnswerConstraint
  <2>2. /\ stage' = "reset" /\ result' = 20 /\ root' = root /\ constraint.lits # {}
        /\ constraint' = [constraint EXCEPT !.unsat = TRUE]
    BY <1>8 DEF AnswerConstraint, Finish, ToStage
  <2>3. /\ trail' \in [model : SUBSET LitsOver(known), core : SUBSET LitsOver(known)]
        /\ trail'.core = A
    BY <1>4, <2>1
  <2>4. Unsat(formula \cup Units(trail'.core)
              \cup IF constraint'.unsat THEN ClosedConstraint ELSE {})
    <3>1. Unsat(formula \cup Units(A) \cup {constraint.all})
      BY <1>1, <2>1, <2>2, ConstraintCore
    <3>2. constraint'.unsat
      BY <1>1, <2>2 DEF Constraints
    <3> QED
      BY <1>1, <2>2, <2>3, <3>1, <3>2 DEF ClosedConstraint
  <2> QED
    BY <1>1, <1>2, <1>3, <1>5, <2>2, <2>3, <2>4, StageFits
<1>9. CASE AnswerUnsat
  <2>1. /\ stage' = "reset" /\ result' = 20 /\ constraint' = constraint /\ trail' = NoTrail
        /\ root' = [root EXCEPT !.unsat = TRUE] /\ Unsat(formula)
    BY <1>9 DEF AnswerUnsat, Finish, ToStage
  <2>2. Models(Vars, formula) = {}
    BY <1>1, <2>1, OverVars, UnsatOver
  <2>3. /\ root' \in [units : SUBSET LitsOver(known), unsat : BOOLEAN]
        /\ \A m \in Models(Vars, formula) : root'.units \subseteq m
    BY <1>1, <2>1, <2>2
  <2> QED
    BY <1>5, <2>1, <2>2, <2>3, UnsatAnswer
<1> QED
  BY <1>6, <1>7, <1>8, <1>9

(* reset_solving leaves the answer as it is.                               *)
LEMMA ResetSolvingFits ==
    ASSUME AnswerInv, ResetSolving \/ ClearForced
    PROVE  SolverInv'
<1>1. /\ stage \in {"reset", "clear"} /\ stage' \in {"clear", "return"} /\ KeepsUserData
      /\ UNCHANGED <<root, trail, constraint, result>>
  BY DEF ResetSolving, ClearForced, ToStage
<1>2. /\ SolverInv /\ RootSound /\ root \in [units : SUBSET LitsOver(known), unsat : BOOLEAN]
      /\ trail \in [model : SUBSET LitsOver(known), core : SUBSET LitsOver(known)]
  BY <1>1, StageGiven
<1>3. /\ result = 10 => ModelFits
      /\ IF result = 20 THEN TrailCoreFits ELSE ~constraint.unsat
      /\ root.unsat => trail = NoTrail
  BY <1>1, <1>2 DEF SolverInv, TrailFits
<1>4. stage # "idle" /\ stage' \in Stages \ {"idle", "already_solved"}
  BY <1>1 DEF Stages
<1>5. /\ \A m \in Models(Vars, formula) : root'.units \subseteq m
      /\ root'.unsat => Models(Vars, formula) = {} /\ trail' = NoTrail
  BY <1>1, <1>2, <1>3 DEF RootSound
<1>6. /\ result' = 10 =>
             trail'.model \in Models(known, formula \cup Units(assumptions) \cup ClosedConstraint)
      /\ IF result' = 20
         THEN /\ trail'.core \subseteq assumptions
              /\ Unsat(formula \cup Units(trail'.core)
                       \cup IF constraint'.unsat THEN ClosedConstraint ELSE {})
         ELSE ~constraint'.unsat
  BY <1>1, <1>3 DEF ModelFits, TrailCoreFits
<1> QED
  BY <1>1, <1>2, <1>4, <1>5, <1>6, StageFits

(* A model says something about each known variable, and what the checks   *)
(* of External::solve look at.                                             *)
LEMMA ModelChecked ==
    ASSUME SolverInv, ModelFits
    PROVE  CheckSatisfiable
<1>1. known \subseteq Nat \ {0}
  BY OverVars, ApiAssumption DEF SolverInv
<1>2. /\ trail.model \in Assignments(known)
      /\ \A c \in formula \cup Units(assumptions) \cup ClosedConstraint : Sat(trail.model, c)
  BY DEF ModelFits, Models
<1>3. VarsOf(trail.model) = known
  <2>1. /\ trail.model \subseteq LitsOver(known)
        /\ \A v \in known : v \in trail.model <=> -v \notin trail.model
    <3>1. PICK m : m = trail.model
      OBVIOUS
    <3>2. m \in Assignments(known)
      BY <1>2, <3>1
    <3>3. m \subseteq LitsOver(known) /\ \A v \in known : v \in m <=> -v \notin m
      BY <1>1, <3>2, AssignmentOver
    <3> QED
      BY <3>1, <3>3
  <2>2. \A v \in known : Var(v) = v /\ Var(-v) = v
    BY <1>1 DEF Var
  <2>3. \A l \in LitsOver(known) : Var(l) \in known
    BY <2>2 DEF LitsOver, Neg
  <2> QED
    BY <2>1, <2>2, <2>3 DEF VarsOf
<1>4. assumptions \subseteq trail.model
  <2>1. \A l \in assumptions : {l} \in Units(assumptions)
    BY DEF Units
  <2>2. ASSUME NEW l \in assumptions
        PROVE  l \in trail.model
    <3>1. Sat(trail.model, {l})
      BY <1>2, <2>1
    <3> QED
      BY <3>1 DEF Sat
  <2> QED
    BY <2>2
<1>5. constraint.closed => Sat(trail.model, constraint.all)
  BY <1>2 DEF ClosedConstraint
<1> QED
  BY <1>2, <1>3, <1>4, <1>5 DEF CheckSatisfiable

(* The checks at the end of solve find nothing wrong.                      *)
LEMMA ChecksPass ==
    ASSUME AnswerInv, stage = "return"
    PROVE  CheckSolveResult
<1>1. SolverInv
  BY AnswerParts
<1>2. result = 10 => CheckSatisfiable
  BY <1>1, ModelChecked DEF SolverInv, TrailFits
<1>3. result = 20 => CheckFailing
  <2>1. constraint.unsat => constraint.closed
    BY <1>1 DEF SolverInv, ConstraintSound, ConstraintSays
  <2> QED
    BY <1>1, <2>1 DEF SolverInv, TrailFits, TrailCoreFits, CheckFailing, ClosedConstraint
<1> QED
  BY <1>2, <1>3 DEF CheckSolveResult

(* The end of solve.                                                       *)
LEMMA ReturnFits ==
    ASSUME AnswerInv, Return, given' = Nothing, last' = last, UNCHANGED clientVars
    PROVE  SolverInv' /\ SideInv'
<1>1. /\ stage = "return" /\ stage' = "idle"
      /\ UNCHANGED <<formula, original, constraint, known, root, trail, result>>
      /\ assumptions' = IF result = 0 THEN {} ELSE assumptions
      /\ failed' = IF result = 20 THEN trail.core ELSE {}
  BY DEF Return
<1>2. /\ SolverInv /\ AnswerTypes /\ state = "SOLVING" /\ constraint \in Constraints
      /\ (constraint.lits # {} => constraint.closed) /\ result \in {0, 10, 20}
  BY <1>1, StageGiven, InvariantParts DEF AnswerInv, RunInv
<1>3. state' = CASE result = 10 -> "SATISFIED"
                 [] result = 20 -> "UNSATISFIED"
                 [] OTHER -> "UNKNOWN"
  BY <1>1, ChecksPass DEF Return
<1>4. /\ result = 10 => ModelFits
      /\ IF result = 20 THEN TrailCoreFits ELSE ~constraint.unsat
      /\ root.unsat => trail = NoTrail
  BY <1>1, <1>2 DEF SolverInv, TrailFits
<1>5. /\ state' = "SATISFIED" <=> result = 10
      /\ state' = "UNSATISFIED" <=> result = 20
      /\ state' \in {"SATISFIED", "UNSATISFIED", "UNKNOWN"}
      /\ Answered' <=> result # 0
  BY <1>2, <1>3 DEF Answered
<1>6. ClosedConstraint' = ClosedConstraint
  BY <1>1 DEF ClosedConstraint
<1>7. AnswerTypes'
  BY <1>1, <1>2 DEF AnswerTypes
<1>8. RootSound' /\ ConstraintSound'
  <2>1. RootSound'
    BY <1>1, <1>2 DEF SolverInv, RootSound
  <2>2. ConstraintSound'
    BY <1>1, <1>2 DEF SolverInv, ConstraintSound, ConstraintSays
  <2> QED
    BY <2>1, <2>2
<1>9. TrailFits'
  <2>1. state' = "SATISFIED" => ModelFits'
    BY <1>1, <1>4, <1>5, <1>6 DEF ModelFits
  <2>2. state' = "UNSATISFIED" => TrailCoreFits' /\ failed' = trail'.core
    BY <1>1, <1>4, <1>5, <1>6 DEF TrailCoreFits
  <2>3. constraint'.unsat => state' = "UNSATISFIED"
    BY <1>1, <1>4, <1>5
  <2> QED
    BY <1>1, <1>4, <2>1, <2>2, <2>3 DEF TrailFits
<1>10. /\ client' = client /\ turn' = turn /\ client \in {"tester", "app", "user"}
       /\ turn = IF client = "tester" THEN "query" ELSE "solved"
       /\ (client = "app" => ~constraint.closed)
  BY <1>1, InvariantParts DEF clientVars, AnswerInv, ClientInv, TurnFits
<1>11. TurnFits'
  BY <1>1, <1>5, <1>10 DEF TurnFits, BeforeProcess
<1>12. GivenHeld'
  <2>1. given'.assumptions = {} /\ given'.constraint = {} /\ given'.open = {}
    BY DEF Nothing
  <2>2. KeptAssumptions' = {}
    BY <1>1, <1>5 DEF KeptAssumptions
  <2>3. ~constraint.closed => constraint.all = {}
    BY <1>2 DEF SolverInv, ConstraintSound, ConstraintSays
  <2>4. KeptConstraint'.closed \/ KeptConstraint'.all = {}
    BY <1>1, <2>3 DEF KeptConstraint, NoConstraint
  <2>5. HasGiven' => client = "app"
    BY <1>10 DEF HasGiven, BeforeProcess
  <2>6. HasGiven' => given'.constraint = IF Answered' THEN {} ELSE ClosedConstraint'
    BY <1>6, <1>10, <2>1, <2>5 DEF ClosedConstraint
  <2> QED
    BY <2>1, <2>2, <2>4, <2>6 DEF GivenHeld
<1>13. LastHeld'
  BY <1>1, <1>5, <1>6 DEF AnswerInv, LastHeld
<1> QED
  BY <1>7, <1>8, <1>9, <1>11, <1>12, <1>13 DEF SolverInv, SideInv

(* Every step of solve. *)
LEMMA SolverFits ==
    ASSUME AnswerInv, Solver
    PROVE  SolverInv' /\ SideInv'
<1>1. UNCHANGED <<last, clientVars>> /\ given' = IF stage = "return" THEN Nothing ELSE given
  BY DEF Solver
<1>2. CASE AlreadySolved
  <2>1. stage # "idle" /\ stage' # "idle" /\ KeepsUserData /\ constraint' = constraint
    BY <1>2 DEF AlreadySolved, Finish, ToStage
  <2> QED
    BY <1>1, <1>2, <2>1, AlreadySolvedFits, StageSide
<1>3. CASE Preprocess
  <2>1. stage # "idle" /\ stage' # "idle" /\ KeepsUserData /\ constraint' = constraint
    BY <1>3 DEF Preprocess, Finish, ToStage
  <2> QED
    BY <1>1, <1>3, <2>1, PreprocessFits, StageSide
<1>4. ASSUME stage \in {"local_search", "lucky_phases", "search"}, KeepsUserData,
             AnswerSat(Query) \/ AnswerFailed \/ AnswerConstraint \/ AnswerUnsat
      PROVE  SolverInv' /\ SideInv'
  <2>1. Answers
    BY <1>4, AnswersAlike
  <2>2. SolverInv'
    BY <1>4, SearchAnswerFits
  <2> QED
    BY <1>1, <1>4, <2>1, <2>2, StageSide DEF Answers
<1>5. ASSUME stage \in {"local_search", "lucky_phases", "search"}, KeepsUserData,
             UNCHANGED <<root, trail, constraint>>,
             \/ stage' \in {"lucky_phases", "search"}
             \/ stage' = "reset" /\ result' = 0
      PROVE  SolverInv' /\ SideInv'
  BY <1>1, <1>5, NoAnswerFits, StageSide
<1>6. CASE LocalSearch
  BY <1>4, <1>5, <1>6 DEF LocalSearch, ToStage
<1>7. CASE LuckyPhases
  <2>1. assumptions = {} /\ constraint.lits = {} => Query = formula
    BY DEF Query, Units, Constraint
  <2> QED
    BY <1>4, <1>5, <1>7, <2>1 DEF LuckyPhases, ToStage
<1>8. CASE SearchAnswer
  BY <1>4, <1>8 DEF SearchAnswer
<1>9. CASE SearchLimit \/ SearchTerminated
  BY <1>5, <1>9 DEF SearchLimit, SearchTerminated, Finish, ToStage
<1>10. CASE ResetSolving \/ ClearForced
  <2>1. stage # "idle" /\ stage' # "idle" /\ KeepsUserData /\ constraint' = constraint
    BY <1>10 DEF ResetSolving, ClearForced, ToStage
  <2> QED
    BY <1>1, <1>10, <2>1, ResetSolvingFits, StageSide
<1>11. CASE Return
  BY <1>1, <1>11, ReturnFits DEF Return
<1> QED
  BY <1>2, <1>3, <1>6, <1>7, <1>8, <1>9, <1>10, <1>11 DEF Solver, SolverStep

-----------------------------------------------------------------------------
(* The steps of the clients.                                               *)

(* What the client gave is left alone with the ghosts.                     *)
LEMMA GhostsSame ==
    ASSUME UNCHANGED ghosts
    PROVE  SameGiven /\ last' = last
  BY DEF ghosts, SameGiven

(* A step that leaves the solver's data alone.                             *)
LEMMA StutterFits ==
    ASSUME AnswerInv, UNCHANGED <<core, job>>, SameGiven, client' = client, last' = last,
           HasGiven' => HasGiven, stage # "idle" \/ client = "user" => turn' = turn
    PROVE  SolverInv' /\ SideInv'
<1>1. SolverInv'
  BY QuietFits DEF core, job
<1>2. SideInv'
  BY QuietSide DEF core, job
<1> QED
  BY <1>1, <1>2

(* Solver::limit and Solver::melt; Solver::failed.                         *)
LEMMA ReadingFits ==
    ASSUME AnswerInv, SameGiven, CallSide, client = "user" => turn = "user",
           \/ QueryFailed
           \/ \E v \in FreezeVars : MeltVar(v)
           \/ \E c \in LimitCalls : SetLimit(c[1], c[2])
    PROVE  SolverInv' /\ SideInv'
<1>1. /\ failed' \in {failed, trail.core} /\ state \in VALID
      /\ UNCHANGED <<state, formula, original, assumptions, constraint, known, root, trail,
                     stage, result>>
  BY DEF QueryFailed, MeltVar, SetLimit, job, VALID, READY
<1>2. stage = "idle"
  BY <1>1, CallsIdle DEF AnswerInv
<1>3. SolverInv'
  BY <1>1, QuietFits
<1>4. SideInv'
  BY <1>1, <1>2, QuietSide DEF CallSide
<1> QED
  BY <1>3, <1>4

(* Solver::freeze, lookahead and generate_cubes before there is an answer. *)
LEMMA LookingFits ==
    ASSUME AnswerInv, SameGiven, CallSide, client = "user" => turn = "user", ~Answered,
           \/ \E v \in FreezeVars : FreezeVar(v)
           \/ Lookahead \/ \E depth \in {0, 1} : GenerateCubes(depth)
    PROVE  SolverInv' /\ SideInv'
<1>1. state \in VALID /\ UNCHANGED <<state, assumptions, constraint, stage>>
  BY DEF FreezeVar, Lookahead, GenerateCubes, job
<1>2. stage = "idle"
  BY <1>1, CallsIdle DEF AnswerInv
<1>3. SolverInv'
  BY FreezeFits, ProbingFits
<1>4. SideInv'
  BY <1>1, <1>2, QuietSide DEF CallSide
<1> QED
  BY <1>3, <1>4

(* The traces of mobical. *)
LEMMA TesterFits ==
    ASSUME AnswerInv, Tester
    PROVE  SolverInv' /\ SideInv'
<1>1. client = "tester" /\ client' = client /\ given \in Givens
  BY InvariantParts DEF Tester, TesterSkips, RunInv, AnswerInv
<1>2. AddLits \cup AssumeLits \cup ConstrainLits \subseteq Lits /\ FreezeVars \subseteq Vars
  BY ClientAssumption DEF Lits
<1>3. ASSUME last' = last, turn' \in BeforeProcess => turn \in BeforeProcess
      PROVE  CallSide
  BY <1>1, <1>3 DEF CallSide, HasGiven
<1>4. turn \in BeforeProcess => HasGiven /\ ~Answered
  BY <1>1 DEF HasGiven, AnswerInv, TurnFits
<1>5. CASE TesterAdd
  <2>1. turn' \notin BeforeProcess
    BY <1>5 DEF TesterAdd, KeepsTurn, BeforeProcess
  <2>2. CASE \E l \in AddLits : Quietly(AddLit(l))
    BY <1>2, <1>3, <2>1, <2>2, AddLitFits, GhostsSame DEF Quietly
  <2>3. CASE Quietly(AddZero)
    BY <1>3, <2>1, <2>3, AddZeroFits, GhostsSame DEF Quietly
  <2> QED
    BY <1>5, <2>2, <2>3 DEF TesterAdd
<1>6. CASE TesterConstrain /\ UNCHANGED <<client, phases, app>>
  <2>1. CASE KeepsTurn("constrain") /\ \E l \in ConstrainLits : CallConstrain(l)
    <3>1. PICK l \in ConstrainLits : CallConstrain(l)
      BY <2>1
    <3>2. ClientSide
      BY <1>1, <1>6, <2>1 DEF ClientSide, KeepsTurn
    <3> QED
      BY <1>2, <3>1, <3>2, ConstrainLitFits
  <2>2. CASE CallConstrainZero
    BY <1>1, <2>2, ConstrainZeroFits
  <2> QED
    BY <1>6, <2>1, <2>2 DEF TesterConstrain
<1>7. CASE TesterAssume
  <2>1. PICK l \in AssumeLits : CallAssume(l)
    BY <1>7 DEF TesterAssume
  <2>2. CallSide
    BY <1>3, <1>7, <2>1 DEF TesterAssume, KeepsTurn, CallAssume
  <2> QED
    BY <1>2, <2>1, <2>2, AssumeFits
<1>8. CASE TesterMelt \/ TesterQuery
  <2>1. UNCHANGED ghosts /\ turn' = turn
    BY <1>8 DEF TesterMelt, TesterQuery, Quietly, KeepsTurn
  <2>2. SameGiven /\ CallSide
    BY <1>3, <2>1, GhostsSame
  <2>3. QueryFailed \/ \E v \in FreezeVars : MeltVar(v)
    BY <1>8 DEF TesterMelt, TesterQuery, Quietly
  <2> QED
    BY <1>1, <2>2, <2>3, ReadingFits
<1>9. CASE TesterFreeze
  <2>1. UNCHANGED ghosts /\ turn \in BeforeProcess
    BY <1>9 DEF TesterFreeze, Quietly, Goes, BeforeProcess
  <2>2. SameGiven /\ CallSide
    BY <1>3, <2>1, GhostsSame
  <2>3. \E v \in FreezeVars : FreezeVar(v)
    BY <1>9 DEF TesterFreeze, Quietly
  <2> QED
    BY <1>1, <1>4, <2>1, <2>2, <2>3, LookingFits
<1>10. CASE TesterLimit
  <2>1. PICK c \in LimitCalls : CallLimit(c[1], c[2])
    BY <1>10 DEF TesterLimit
  <2>2. turn \in BeforeProcess
    BY <1>10 DEF TesterLimit, Goes, BeforeProcess
  <2>3. SameGiven /\ CallSide
    BY <1>1, <1>3, <2>1, <2>2 DEF CallLimit, SameGiven, Givens
  <2>4. SetLimit(c[1], c[2])
    BY <2>1 DEF CallLimit
  <2> QED
    BY <1>1, <2>3, <2>4, ReadingFits
<1>11. CASE TesterProcess
  <2>1. turn \in BeforeProcess /\ turn' = "query"
    BY <1>11 DEF TesterProcess, Goes, Turn, BeforeProcess
  <2>2. CASE \E pre \in BOOLEAN, n \in 0 .. 1 : CallSolve(pre, n)
    BY <1>1, <1>4, <2>1, <2>2, CallSolveFits
  <2>3. CASE CallLookahead \/ CallCubes(0)
    <3>1. SameGiven /\ CallSide
      BY <1>1, <1>3, <2>1, <2>3 DEF CallLookahead, CallCubes, SameGiven, Givens
    <3>2. Lookahead \/ \E depth \in {0, 1} : GenerateCubes(depth)
      BY <2>3 DEF CallLookahead, CallCubes
    <3> QED
      BY <1>1, <1>4, <2>1, <3>1, <3>2, LookingFits
  <2>4. CallSolve(FALSE, 0) => \E pre \in BOOLEAN, n \in 0 .. 1 : CallSolve(pre, n)
    <3>1. 0 \in 0 .. 1 /\ FALSE \in BOOLEAN
      OBVIOUS
    <3> QED
      BY <3>1, Zenon
  <2>5. (\E n \in 0 .. 1 : CallSolve(TRUE, n)) => \E pre \in BOOLEAN, n \in 0 .. 1 : CallSolve(pre, n)
    <3>1. TRUE \in BOOLEAN
      OBVIOUS
    <3> QED
      BY <3>1, Zenon
  <2> QED
    BY <1>11, <2>2, <2>3, <2>4, <2>5 DEF TesterProcess
<1>12. CASE TesterSkips
  <2>1. UNCHANGED <<core, job>> /\ UNCHANGED ghosts
    BY <1>12 DEF TesterSkips
  <2>2. turn' \in BeforeProcess => turn \in BeforeProcess
    BY <1>12 DEF TesterSkips, Goes, Turn, BeforeProcess
  <2>3. stage = "idle"
    <3>1. turn # "query" \/ state # "SOLVING"
      BY <1>12 DEF TesterSkips, Goes
    <3>2. stage # "idle" => turn = "query" /\ state = "SOLVING"
      BY <1>1, InvariantParts DEF AnswerInv, TurnFits, RunInv, OneCall
    <3> QED
      BY <3>1, <3>2
  <2> QED
    BY <1>1, <2>1, <2>2, <2>3, StutterFits, GhostsSame DEF HasGiven
<1> QED
  BY <1>5, <1>6, <1>7, <1>8, <1>9, <1>10, <1>11, <1>12 DEF Tester

(* The stand-alone solver. *)
LEMMA AppFits ==
    ASSUME AnswerInv, App
    PROVE  SolverInv' /\ SideInv'
<1>1. client = "app" /\ client' = client
  BY DEF App, AppStep, AppLimits, AppOpens, AppOpen, ReadAux, ReadHeader, ReadDimacs, ReadLit, ReadEnd,
         AppSolve, AppAssume, AppCubeLimit, AppSolved, AppAddFailed, AppVerdict
<1>2. HasGiven /\ HasGiven' /\ (last' = last => CallSide)
  BY <1>1 DEF HasGiven, CallSide
<1>3. given \in Givens /\ CubeInFile
  BY <1>1, InvariantParts DEF AnswerInv, RunInv, ClientInv
<1>4. stage # "idle" => turn = "solved" /\ state = "SOLVING"
  BY <1>1, InvariantParts DEF AnswerInv, TurnFits, RunInv, OneCall
<1>5. ASSUME UNCHANGED <<core, job, async, ghosts>>, turn # "solved" \/ state # "SOLVING"
      PROVE  SolverInv' /\ SideInv'
  <2>1. UNCHANGED <<core, job>> /\ UNCHANGED ghosts
    BY <1>5
  <2>2. SameGiven /\ last' = last
    BY <2>1, GhostsSame
  <2> QED
    BY <1>1, <1>2, <1>4, <1>5, <2>1, <2>2, StutterFits
<1>6. ASSUME NEW c \in LimitCalls, CallLimit(c[1], c[2])
      PROVE  SolverInv' /\ SideInv'
  <2>1. SetLimit(c[1], c[2]) /\ SameGiven /\ last' = last
    BY <1>3, <1>6 DEF CallLimit, SameGiven, Givens
  <2> QED
    BY <1>1, <1>2, <2>1, ReadingFits
<1>7. UNCHANGED ghosts => SameGiven /\ CallSide
  BY <1>2, GhostsSame
<1>8. CASE AppLimits
  <2>1. turn = "limits"
    BY <1>8 DEF AppLimits, AppStep
  <2>2. CASE Quietly(ConnectTerminator)
    <3>1. UNCHANGED <<core, job>> /\ UNCHANGED ghosts
      BY <2>2 DEF Quietly, ConnectTerminator
    <3>2. SameGiven /\ last' = last
      BY <3>1, GhostsSame
    <3> QED
      BY <1>1, <1>2, <1>4, <2>1, <3>1, <3>2, StutterFits
  <2> QED
    BY <1>5, <1>6, <1>8, <2>1, <2>2 DEF AppLimits
<1>9. CASE AppOpens \/ ReadAux \/ ReadEnd \/ AppVerdict
  BY <1>5, <1>9 DEF AppOpens, AppOpen, ReadAux, ReadEnd, AppVerdict, AppStep
<1>10. CASE ReadHeader
  <2>1. turn # "solved"
    BY <1>10 DEF ReadHeader, AppStep
  <2> QED
    BY <1>5, <1>7, <1>10, <2>1, ReserveFits DEF ReadHeader, Quietly
<1>11. CASE ReadLit
  <2> DEFINE lit == app.cnf.lits[app.pos]
  <2>1. lit \in Lits \cup {0}
    <3>1. app.cnf.lits \in Seq(Lits \cup {0}) /\ app.pos \in Nat \ {0}
      BY <1>3, ClientAssumption DEF CubeInFile, Lits
    <3>2. app.pos <= Len(app.cnf.lits)
      BY <1>11 DEF ReadLit
    <3> QED
      BY <3>1, <3>2
  <2>2. turn # "solved"
    BY <1>11 DEF ReadLit, AppStep
  <2>3. \/ UNCHANGED <<core, job, async, ghosts>>
        \/ Quietly(IF lit = 0 THEN AddZero ELSE AddLit(lit))
    BY <1>11 DEF ReadLit
  <2> HIDE DEF lit
  <2>4. CASE AddZero /\ UNCHANGED ghosts
    BY <1>7, <2>4, AddZeroFits
  <2>5. CASE lit \in Lits /\ AddLit(lit) /\ UNCHANGED ghosts
    BY <1>7, <2>5, AddLitFits
  <2> QED
    BY <1>5, <2>1, <2>2, <2>3, <2>4, <2>5 DEF Quietly
<1>12. CASE AppSolve
  <2>1. CallSolve(FALSE, 0) /\ turn' = "solved"
    BY <1>12 DEF AppSolve, Turn
  <2> QED
    BY <1>1, <1>2, <2>1, CallSolveFits
<1>13. CASE AppAssume
  <2> DEFINE todo == {i \in 1 .. Len(Cube) : Cube[i] \notin given.assumptions}
  <2>1. turn = "cube"
    BY <1>13 DEF AppAssume, AppStep
  <2>2. CASE todo # {} /\ CallAssume(Cube[Max(todo)])
    <3> HIDE DEF todo
    <3>1. todo = {i \in 1 .. Len(Cube) : Cube[i] \notin given.assumptions}
      BY DEF todo
    <3>2. Cube[Max(todo)] \in Lits
      BY <1>3, <2>1, <2>2, <3>1, NextOfCube
    <3>3. last' = last
      BY <2>2 DEF CallAssume
    <3> QED
      BY <1>2, <2>2, <3>2, <3>3, AssumeFits
  <2> QED
    BY <1>5, <1>13, <2>1, <2>2 DEF AppAssume
<1>14. CASE AppCubeLimit
  <2>1. turn # "solved"
    BY <1>14 DEF AppCubeLimit, AppStep
  <2>2. app.limit \subseteq LimitCalls
    BY <1>3 DEF CubeInFile
  <2> QED
    BY <1>5, <1>6, <1>14, <2>1, <2>2 DEF AppCubeLimit
<1>15. CASE AppSolved
  <2>1. state # "SOLVING"
    BY <1>15 DEF AppSolved
  <2>2. CASE Quietly(QueryFailed)
    BY <1>1, <1>7, <2>2, ReadingFits DEF Quietly
  <2> QED
    BY <1>5, <1>15, <2>1, <2>2 DEF AppSolved
<1>16. CASE AppAddFailed
  <2>1. UNCHANGED ghosts
    BY <1>16 DEF AppAddFailed
  <2> QED
    BY <1>7, <1>16, <2>1, AddFailedFits
<1> QED
  BY <1>8, <1>9, <1>10, <1>11, <1>12, <1>13, <1>14, <1>15, <1>16 DEF App, ReadDimacs

(* A constraint that a program keeps apart is complete or empty.           *)
LEMMA ApartOpen ==
    ASSUME AnswerInv, client = "user", ~adding.constraint, stage = "idle"
    PROVE  given.open = {}
<1>1. ~constraint.closed => constraint.all = {}
  BY InvariantParts DEF AnswerInv, DataInv, OpenConstraint, ConstraintSound, ConstraintSays
<1> QED
  BY <1>1 DEF AnswerInv, GivenHeld, KeptConstraint, NoConstraint

(* A program that keeps its calls apart. *)
LEMMA UserFits ==
    ASSUME AnswerInv, User
    PROVE  SolverInv' /\ SideInv'
<1>1. client = "user" /\ client' = client /\ given \in Givens /\ ApiInv
  BY InvariantParts DEF User, RunInv, AnswerInv
<1>2. /\ AddLits \cup AssumeLits \cup ConstrainLits \subseteq Lits
      /\ FreezeVars \subseteq Vars
  BY ClientAssumption DEF Lits
<1>3. turn = "user" /\ ~adding.constraint => HasGiven
  BY <1>1 DEF HasGiven
<1>4. turn' = "user" /\ HasGiven /\ last' = last => CallSide
  BY <1>1 DEF CallSide
<1>5. CASE UserAdd
  <2>1. turn' = "user" /\ HasGiven
    BY <1>3, <1>5 DEF UserAdd, KeepsTurn
  <2>2. CASE \E l \in AddLits : Quietly(AddLit(l))
    BY <1>2, <1>4, <2>1, <2>2, AddLitFits, GhostsSame DEF Quietly
  <2>3. CASE Quietly(AddZero)
    BY <1>4, <2>1, <2>3, AddZeroFits, GhostsSame DEF Quietly
  <2> QED
    BY <1>5, <2>2, <2>3 DEF UserAdd
<1>6. CASE UserConstrain
  <2>1. turn' = "user"
    BY <1>6 DEF UserConstrain, KeepsTurn
  <2>2. ClientSide
    BY <1>1, <2>1 DEF ClientSide
  <2>3. CASE \E l \in ConstrainLits : CallConstrain(l)
    BY <1>2, <2>2, <2>3, ConstrainLitFits
  <2>4. CASE CallConstrainZero
    BY <1>1, <2>1, <2>4, ConstrainZeroFits
  <2> QED
    BY <1>6, <2>3, <2>4 DEF UserConstrain
<1>7. CASE UserAssume
  <2>1. PICK l \in AssumeLits : CallAssume(l)
    BY <1>7 DEF UserAssume
  <2>2. turn' = "user" /\ HasGiven /\ last' = last
    BY <1>3, <1>7, <2>1 DEF UserAssume, Free, CallAssume
  <2> QED
    BY <1>2, <1>4, <2>1, <2>2, AssumeFits
<1>8. CASE UserReserve
  <2>1. PICK n \in Vars : Reserve(n) /\ UNCHANGED ghosts
    BY <1>8 DEF UserReserve, Quietly
  <2>2. turn' = "user" /\ HasGiven
    BY <1>3, <1>8 DEF UserReserve, Free
  <2>3. SameGiven /\ CallSide
    BY <1>4, <2>1, <2>2, GhostsSame
  <2> QED
    BY <2>1, <2>3, ReserveFits
<1>9. CASE UserResets
  <2>1. turn' = "user" /\ ~adding.constraint /\ HasGiven
    BY <1>3, <1>9 DEF UserResets, Free
  <2>2. stage = "idle" /\ state \in VALID
    BY <1>1, <1>9, CallsIdle DEF UserResets, ResetAssumptions, ResetConstraint
  <2>3. /\ given.assumptions = KeptAssumptions
        /\ given.open = IF KeptConstraint.closed THEN {} ELSE KeptConstraint.all
        /\ given.constraint = IF KeptConstraint.closed THEN {KeptConstraint.all} ELSE {}
    BY <2>1, <2>2, KeptClosed DEF AnswerInv, GivenHeld
  <2>4. CASE ResetAssumptions /\ given' = [given EXCEPT !.assumptions = {}]
    <3>1. /\ given'.assumptions = {} /\ given'.open = given.open
          /\ given'.constraint = given.constraint
      BY <1>1, <2>4 DEF Givens
    <3>2. /\ Become("UNKNOWN", {}, KeptConstraint, MeltAll(KeptCounters, KeptAssumptions))
          /\ UNCHANGED <<formula, original, known, root, trail, job>>
      BY <2>4 DEF ResetAssumptions
    <3> QED
      BY <1>1, <2>1, <2>2, <2>3, <3>1, <3>2, ResetFits
  <2>5. CASE ResetConstraint /\ given' = [given EXCEPT !.constraint = {}]
    <3>1. /\ given'.assumptions = given.assumptions /\ given'.open = {}
          /\ given'.constraint = {}
      BY <1>1, <2>1, <2>2, <2>5, ApartOpen DEF Givens
    <3>2. /\ Become("UNKNOWN", KeptAssumptions, NoConstraint,
                    MeltAll(KeptCounters, KeptConstraint.lits))
          /\ UNCHANGED <<formula, original, known, root, trail, job>>
      BY <2>5 DEF ResetConstraint
    <3>3. ~NoConstraint.closed /\ NoConstraint.all = {}
      BY DEF NoConstraint
    <3> QED
      BY <1>1, <2>1, <2>2, <2>3, <3>1, <3>2, <3>3, ResetFits
  <2> QED
    BY <1>9, <2>4, <2>5 DEF UserResets
<1>10. CASE UserTerminator
  <2>1. UNCHANGED <<core, job>> /\ UNCHANGED ghosts
    BY <1>10 DEF UserTerminator, Quietly, ConnectTerminator, DisconnectTerminator
  <2>2. turn' = turn /\ HasGiven
    BY <1>3, <1>10 DEF UserTerminator, Free
  <2>3. SameGiven /\ last' = last
    BY <2>1, GhostsSame
  <2> QED
    BY <1>1, <2>1, <2>2, <2>3, StutterFits
<1>11. CASE UserSolve
  <2>1. CallSolve(FALSE, 0) /\ turn' = "solved" /\ HasGiven
    BY <1>3, <1>11 DEF UserSolve, Turn, Free
  <2> QED
    BY <1>1, <2>1, CallSolveFits
<1>12. CASE UserSolved
  <2>1. /\ turn = "solved" /\ turn' = "user" /\ state # "SOLVING" /\ UNCHANGED ghosts
        /\ IF state = "UNKNOWN" THEN ResetConstraint ELSE UNCHANGED <<core, job, async>>
    BY <1>12 DEF UserSolved, Goes, Turn
  <2>2. SameGiven /\ last' = last
    BY <2>1, GhostsSame
  <2>3. stage = "idle" /\ ~adding.constraint
    BY <1>1, <2>1, InvariantParts DEF RunInv, OneCall, DataInv, OpenConstraint
  <2>4. /\ given.assumptions = KeptAssumptions /\ given.constraint = {} /\ given.open = {}
        /\ given.open = IF KeptConstraint.closed THEN {} ELSE KeptConstraint.all
    BY <1>1, <2>1, <2>3, ApartOpen DEF AnswerInv, GivenHeld
  <2>5. CASE state = "UNKNOWN"
    <3>1. /\ Become("UNKNOWN", KeptAssumptions, NoConstraint,
                    MeltAll(KeptCounters, KeptConstraint.lits))
          /\ UNCHANGED <<formula, original, known, root, trail, job>> /\ state \in VALID
      BY <2>1, <2>5 DEF ResetConstraint
    <3>2. ~NoConstraint.closed /\ NoConstraint.all = {}
      BY DEF NoConstraint
    <3> QED
      BY <1>1, <2>1, <2>2, <2>4, <3>1, <3>2, ResetFits DEF SameGiven
  <2>6. CASE state # "UNKNOWN"
    <3>1. Answered /\ UNCHANGED <<core, job>>
      BY <1>1, <2>1, <2>6 DEF AnswerInv, TurnFits, Answered
    <3>2. SolverInv'
      BY <3>1, QuietFits DEF core, job
    <3>3. /\ stage' = stage /\ state' = state /\ Answered' /\ constraint' = constraint
          /\ KeptAssumptions' = KeptAssumptions /\ KeptConstraint' = KeptConstraint
          /\ ClosedConstraint' = ClosedConstraint /\ assumptions' = assumptions
      BY <3>1 DEF core, job, Answered, KeptAssumptions, KeptConstraint, ClosedConstraint
    <3>4. TurnFits'
      BY <1>1, <2>1, <2>3, <3>3 DEF AnswerInv, TurnFits
    <3>5. GivenHeld'
      BY <2>1, <2>2, <2>4, <3>3 DEF GivenHeld, SameGiven
    <3>6. LastHeld'
      BY <2>2, <3>1, <3>3 DEF AnswerInv, LastHeld
    <3> QED
      BY <3>2, <3>4, <3>5, <3>6 DEF SideInv
  <2> QED
    BY <2>5, <2>6
<1>13. CASE UserQuery
  <2>1. QueryFailed /\ UNCHANGED ghosts /\ turn = "user" /\ turn' = turn /\ HasGiven
    BY <1>3, <1>13 DEF UserQuery, Quietly, Free
  <2>2. SameGiven /\ CallSide
    BY <1>4, <2>1, GhostsSame
  <2> QED
    BY <2>1, <2>2, ReadingFits
<1>14. CASE UserCubes
  <2>1. CallCubes(1) /\ turn = "user" /\ turn' = turn /\ HasGiven /\ ~Answered
    BY <1>3, <1>14 DEF UserCubes, Free
  <2>2. SameGiven /\ last' = last /\ \E depth \in {0, 1} : GenerateCubes(depth)
    BY <1>1, <2>1 DEF CallCubes, SameGiven, Givens
  <2> QED
    BY <1>4, <2>1, <2>2, LookingFits
<1> QED
  BY <1>5, <1>6, <1>7, <1>8, <1>9, <1>10, <1>11, <1>12, <1>13, <1>14 DEF User

-----------------------------------------------------------------------------
(* Nothing was given and nothing is known at the start.                    *)
LEMMA AnswerInitially ==
    ASSUME ClientInit
    PROVE  AnswerInv
<1>1. /\ state = "CONFIGURING" /\ adding.constraint = FALSE /\ stage = "idle"
      /\ formula = {} /\ original = {} /\ assumptions = {} /\ constraint = NoConstraint
      /\ known = {} /\ root = [units |-> {}, unsat |-> FALSE] /\ trail = NoTrail /\ failed = {}
  BY DEF ClientInit, Init
<1>2. /\ client \in Clients /\ given = Nothing
      /\ turn = CASE client = "tester" -> "add" [] client = "app" -> "limits" [] OTHER -> "user"
  BY DEF ClientInit
<1>3. client \in {"tester", "app", "user"}
  BY <1>2, ClientAssumption
<1>4. ~Answered /\ KeptAssumptions = {} /\ KeptConstraint = NoConstraint /\ ClosedConstraint = {}
  BY <1>1 DEF Answered, KeptAssumptions, KeptConstraint, ClosedConstraint, NoConstraint
<1>5. AnswerTypes
  BY <1>1 DEF AnswerTypes, NoConstraint, NoTrail
<1>6. RootSound
  BY <1>1 DEF RootSound
<1>7. ConstraintSound
  BY <1>1 DEF ConstraintSound, ConstraintSays, NoConstraint
<1>8. TrailFits
  BY <1>1 DEF TrailFits, NoConstraint
<1>9. TurnFits
  BY <1>1, <1>2, <1>3 DEF TurnFits, BeforeProcess, NoConstraint
<1>10. GivenHeld
  BY <1>1, <1>2, <1>4 DEF GivenHeld, Nothing, NoConstraint
<1>11. LastHeld
  BY <1>1, <1>4 DEF LastHeld
<1>12. ApiInv
  BY ClientInitially
<1> QED
  BY <1>5, <1>6, <1>7, <1>8, <1>9, <1>10, <1>11, <1>12 DEF AnswerInv

(* Every step, of the clients, of solve and of the thread next to it.      *)
LEMMA AnswerNextKeeps ==
    ASSUME AnswerInv, [ClientNext]_vars
    PROVE  AnswerInv'
<1>1. SUFFICES SolverInv' /\ SideInv'
  BY ClientNextKeeps, AnswerTogether DEF AnswerInv
<1>2. ASSUME UNCHANGED <<core, job, given, last, clientVars>>
      PROVE  SolverInv' /\ SideInv'
  <2>1. UNCHANGED <<core, job>> /\ SameGiven /\ client' = client /\ last' = last /\ turn' = turn
    BY <1>2 DEF SameGiven, clientVars
  <2>2. HasGiven' => HasGiven
    BY <2>1 DEF HasGiven, core
  <2> QED
    BY <2>1, <2>2, StutterFits
<1>3. CASE UNCHANGED vars
  BY <1>2, <1>3 DEF vars, ghosts
<1>4. CASE Thread
  BY <1>2, <1>4 DEF Thread, Terminate, TerminatorAsks, ghosts
<1> QED
  BY <1>3, <1>4, TesterFits, AppFits, UserFits, SolverFits DEF ClientNext, Done

(* What the solver has is what it was asked, and its answer is right.      *)
LEMMA AnswerIsRight ==
    ASSUME AnswerInv
    PROVE  AnswerForGiven
<1>1. SolverInv /\ state # "ABORTED"
  BY AnswerParts DEF AnswerInv, TurnFits
<1>2. Answered => TheQuestion = formula \cup Units(assumptions) \cup ClosedConstraint
                  /\ last.assumptions = assumptions /\ last.constraint = ClosedConstraint
  BY DEF AnswerInv, LastHeld, TheQuestion
<1>3. ASSUME state = "SATISFIED"
      PROVE  /\ VarsOf(trail.model) = known
             /\ \A c \in TheQuestion : Sat(trail.model, c)
  <2>1. ModelFits
    BY <1>1, <1>3 DEF SolverInv, TrailFits
  <2>2. VarsOf(trail.model) = known
    BY <1>1, <2>1, ModelChecked DEF CheckSatisfiable
  <2> QED
    BY <1>2, <1>3, <2>1, <2>2 DEF Answered, ModelFits, Models
<1>4. ASSUME state = "UNSATISFIED"
      PROVE  /\ failed \subseteq last.assumptions
             /\ Unsat(formula \cup Units(failed) \cup IF constraint.unsat THEN last.constraint ELSE {})
             /\ Unsat(TheQuestion)
  <2> DEFINE C == IF constraint.unsat THEN ClosedConstraint ELSE {}
             core0 == formula \cup Units(failed) \cup C
  <2>1. failed \subseteq assumptions /\ Unsat(core0)
    BY <1>1, <1>4 DEF SolverInv, TrailFits, TrailCoreFits
  <2>2. Units(failed) \subseteq Units(assumptions) /\ C \subseteq ClosedConstraint
    BY <2>1 DEF Units
  <2>3. formula \cup Units(assumptions) \cup ClosedConstraint \subseteq SUBSET Lits
    BY <1>1, QuestionOver DEF SolverInv, ClosedConstraint
  <2>4. core0 \subseteq formula \cup Units(assumptions) \cup ClosedConstraint
    BY <2>2
  <2>5. C = IF constraint.unsat THEN last.constraint ELSE {}
    BY <1>2, <1>4 DEF Answered
  <2> HIDE DEF C, core0
  <2>6. Models(Vars, core0) = {}
    BY <2>1, <2>3, <2>4, UnsatOver
  <2>7. Unsat(formula \cup Units(assumptions) \cup ClosedConstraint)
    BY <2>3, <2>4, <2>6, UnsatMore
  <2> QED
    BY <1>2, <1>4, <2>1, <2>5, <2>7 DEF Answered, core0
<1> QED
  BY <1>1, <1>3, <1>4 DEF AnswerForGiven, AnswerFits, CoreFits

(* Between any calls the solver's data are what the client gave it, what   *)
(* it knows on the root level follows from the clauses, and its answer is  *)
(* right for these data (transition_to_unknown_state, constrain, assume,   *)
(* the stages of solve).                                                   *)
THEOREM AnswerInvariant == ClientSpec => []AnswerInv
<1>1. ClientInit => AnswerInv
  BY AnswerInitially
<1>2. AnswerInv /\ [ClientNext]_vars => AnswerInv'
  BY AnswerNextKeeps
<1> QED
  BY <1>1, <1>2, PTL DEF ClientSpec

(* Every answer is one to what the client gave for this very call: a model *)
(* of it, or a core of it that contradicts the clauses, however calls,     *)
(* requests for termination and earlier answers were interleaved (solve,   *)
(* val, failed, constraint_failed).                                        *)
THEOREM AnswersRight == ClientSpec => []AnswerForGiven
<1>1. AnswerInv => AnswerForGiven
  BY AnswerIsRight
<1> QED
  BY <1>1, AnswerInvariant, PTL

-----------------------------------------------------------------------------
(* The stand-alone solver reads its file.                                  *)

(* The zero before a position. *)
LEMMA LastZeroIs ==
    ASSUME NEW n \in Nat \ {0}
    PROVE  /\ LastZero(n) \in 0 .. n - 1
           /\ \A j \in 1 .. n - 1 : app.cnf.lits[j] = 0 => j <= LastZero(n)
<1> DEFINE Z == {0} \cup {j \in 1 .. n - 1 : app.cnf.lits[j] = 0}
<1>1. Z \subseteq 0 .. n - 1 /\ Z # {} /\ n - 1 \in Nat
  OBVIOUS
<1>2. LastZero(n) = Max(Z)
  BY DEF LastZero
<1>3. \A j \in 1 .. n - 1 : app.cnf.lits[j] = 0 => j \in Z
  OBVIOUS
<1> HIDE DEF Z
<1>4. \E x \in Z : \A y \in Z : x >= y
  <2>1. \E x \in Z : \A y \in Z : y <= x
    BY <1>1, GreatestElement
  <2>2. \A x, y \in Z : y <= x => x >= y
    BY <1>1
  <2> QED
    BY <2>1, <2>2
<1>5. Max(Z) \in Z /\ \A y \in Z : Max(Z) >= y
  BY <1>4 DEF Max
<1>6. \A y \in Z : y <= Max(Z)
  BY <1>1, <1>5
<1> QED
  BY <1>1, <1>2, <1>3, <1>5, <1>6

(* Nothing was read before the first position. *)
LEMMA NothingRead == ClausesBefore(1) = {} /\ OpenClause(1) = {}
<1>1. LastZero(1) \in 0 .. 0
  BY LastZeroIs
<1> QED
  BY <1>1 DEF ClausesBefore, OpenClause

(* A literal belongs to the clause that is open. *)
LEMMA LiteralRead ==
    ASSUME NEW p \in Nat \ {0}, app.cnf.lits[p] # 0
    PROVE  /\ ClausesBefore(p + 1) = ClausesBefore(p)
           /\ OpenClause(p + 1) = OpenClause(p) \cup {app.cnf.lits[p]}
<1>1. {j \in 1 .. (p + 1) - 1 : app.cnf.lits[j] = 0} = {j \in 1 .. p - 1 : app.cnf.lits[j] = 0}
  OBVIOUS
<1>2. ClausesBefore(p + 1) = ClausesBefore(p) /\ LastZero(p + 1) = LastZero(p)
  BY <1>1 DEF ClausesBefore, LastZero
<1>3. LastZero(p) \in 0 .. p - 1
  BY LastZeroIs
<1>4. LastZero(p) + 1 .. (p + 1) - 1 = (LastZero(p) + 1 .. p - 1) \cup {p}
  BY <1>3
<1> QED
  BY <1>2, <1>4 DEF OpenClause

(* A zero ends it. *)
LEMMA ZeroRead ==
    ASSUME NEW p \in Nat \ {0}, app.cnf.lits[p] = 0
    PROVE  /\ ClausesBefore(p + 1) = ClausesBefore(p) \cup {OpenClause(p)}
           /\ OpenClause(p + 1) = {}
<1>1. {j \in 1 .. (p + 1) - 1 : app.cnf.lits[j] = 0}
          = {j \in 1 .. p - 1 : app.cnf.lits[j] = 0} \cup {p}
  OBVIOUS
<1>2. ClausesBefore(p + 1) = ClausesBefore(p) \cup {OpenClause(p)}
  BY <1>1 DEF ClausesBefore
<1>3. LastZero(p + 1) \in 0 .. (p + 1) - 1 /\ p <= LastZero(p + 1)
  <2>1. p + 1 \in Nat \ {0} /\ p \in 1 .. (p + 1) - 1
    OBVIOUS
  <2> QED
    BY <2>1, LastZeroIs
<1>4. LastZero(p + 1) + 1 .. (p + 1) - 1 = {}
  BY <1>3
<1> QED
  BY <1>2, <1>4 DEF OpenClause

-----------------------------------------------------------------------------
(* Models of what the solver has and of the file.                          *)

(* Tautologies are left out by Solver::add. *)
LEMMA TautologyTrue ==
    ASSUME NEW c \in SUBSET Lits, \E l \in c : -l \in c, NEW m \in Models(Vars, formula)
    PROVE  Sat(m, c)
<1>1. PICK l \in c : -l \in c
  OBVIOUS
<1>2. m \in Assignments(Vars) /\ l \in LitsOver(Vars) /\ Vars \subseteq Nat \ {0}
  BY ApiAssumption DEF Models, Lits
<1>3. l \in m <=> -l \notin m
  BY <1>2, TotalLits
<1> QED
  BY <1>1, <1>3 DEF Sat

(* The clauses of the file and those before a position after a zero. *)
LEMMA ZeroModels ==
    ASSUME NEW S, NEW c \in SUBSET Lits, Models(Vars, formula) = Models(Vars, S),
           NEW F, F = formula \cup IF \E l \in c : -l \in c THEN {} ELSE {c}
    PROVE  Models(Vars, F) = Models(Vars, S \cup {c})
<1>1. \A m : m \in Models(Vars, S \cup {c}) <=> m \in Models(Vars, S) /\ Sat(m, c)
  BY DEF Models
<1>2. CASE \E l \in c : -l \in c
  BY <1>1, <1>2, TautologyTrue
<1>3. CASE ~\E l \in c : -l \in c
  <2>1. \A m : m \in Models(Vars, F) <=> m \in Models(Vars, formula) /\ Sat(m, c)
    BY <1>3 DEF Models
  <2> QED
    BY <1>1, <2>1
<1> QED
  BY <1>2, <1>3

(* A model of what the solver has satisfies each clause of the file. *)
LEMMA ModelOfFile ==
    ASSUME AnswerTypes, NEW S, UNION S \subseteq LitsOver(known), Models(Vars, formula) = Models(Vars, S),
           NEW m \in Models(known, formula)
    PROVE  \A c \in S : Sat(m, c)
<1> DEFINE n == m \cup (Vars \ known)
<1>1. Vars \subseteq Nat \ {0} /\ known \in SUBSET Vars
  BY ApiAssumption DEF AnswerTypes
<1>2. n \in Models(Vars, formula)
  BY <1>1, Extended
<1>3. \A l \in LitsOver(known) : l \in n => l \in m
  BY <1>1, Extended
<1> HIDE DEF n
<1>4. \A c \in S : Sat(n, c)
  BY <1>2 DEF Models
<1> QED
  BY <1>3, <1>4 DEF Sat

(* Assumptions that contradict the clauses contradict them with more. *)
LEMMA RefutedMore ==
    ASSUME Models(Vars, formula) = Models(Vars, CnfClauses), NEW A, NEW B, A \subseteq B,
           Models(Vars, formula \cup Units(A)) = {}
    PROVE  Refuted(Units(B))
<1>1. ASSUME NEW m \in Models(Vars, CnfClauses \cup Units(B))
      PROVE  FALSE
  <2>1. m \in Models(Vars, formula) /\ \A c \in Units(B) : Sat(m, c)
    BY <1>1 DEF Models
  <2>2. Units(A) \subseteq Units(B)
    BY DEF Units
  <2>3. m \in Models(Vars, formula \cup Units(A))
    BY <2>1, <2>2 DEF Models
  <2> QED
    BY <2>3
<1> QED
  BY <1>1 DEF Refuted

(* The negation of a core follows from the clauses. *)
LEMMA CoreNegated ==
    ASSUME NEW A \in SUBSET Lits, Models(Vars, formula \cup Units(A)) = {}
    PROVE  Models(Vars, formula \cup {Neg(A)}) = Models(Vars, formula)
<1>1. ASSUME NEW m \in Models(Vars, formula)
      PROVE  Sat(m, Neg(A))
  <2>1. PICK c \in Units(A) : ~Sat(m, c)
    BY DEF Models
  <2>2. PICK l \in A : l \notin m
    BY <2>1 DEF Units, Sat
  <2>3. m \in Assignments(Vars) /\ l \in LitsOver(Vars) /\ Vars \subseteq Nat \ {0}
    BY ApiAssumption DEF Models, Lits
  <2>4. -l \in m
    BY <2>2, <2>3, TotalLits
  <2> QED
    BY <2>2, <2>4 DEF Sat, Neg
<1> QED
  BY <1>1 DEF Models

-----------------------------------------------------------------------------
(* The parts of AppFile after a step of the stand-alone solver.            *)

(* What is said about the file stays while the file does. *)
LEMMA SameFile ==
    ASSUME app'.cnf = app.cnf
    PROVE  /\ CnfClauses' = CnfClauses /\ (Incremental' <=> Incremental) /\ CubeSets' = CubeSets
           /\ \A i : CubeLits(i)' = CubeLits(i)
           /\ \A n : ClausesBefore(n)' = ClausesBefore(n) /\ OpenClause(n)' = OpenClause(n)
  BY DEF CnfClauses, Incremental, CubeSets, CubeLits, ClausesBefore, OpenClause, LastZero

(* Before the clauses are read. *)
LEMMA EarlyFits ==
    ASSUME AppTypes', AuxRead', turn' \in Reading \ {"read_dimacs"},
           formula' = {}, original' = {}, assumptions' = {},
           turn' \in {"open_dimacs", "read_header"} => app'.pos = 1
    PROVE  AppFile'
<1>1. CnfRead'
  BY DEF CnfRead, Reading
<1>2. FileSolved' /\ VerdictFits'
  BY DEF FileSolved, VerdictFits, Solving, Reading
<1> QED
  BY <1>1, <1>2 DEF AppFile

(* After an error nothing is said. *)
LEMMA ErrorFits ==
    ASSUME AppTypes', turn' = "error"
    PROVE  AppFile'
  BY DEF AppFile, AuxRead, CnfRead, FileSolved, VerdictFits, Solving, Reading

(* The auxiliary file after it was read. *)
LEMMA AuxStays ==
    ASSUME AuxRead, app'.aux = app.aux, app'.file = app.file,
           turn \notin {"limits", "open_aux", "read_aux", "error"},
           turn' \notin {"limits", "open_aux", "read_aux"}
    PROVE  AuxRead'
  BY DEF AuxRead, AuxBefore

(* While a program solves what it has read. *)
LEMMA SolvedFits ==
    ASSUME FileSolved, turn \in Solving, turn' \in Solving, app'.cnf = app.cnf,
           LitsOver(known) \subseteq LitsOver(known'),
           Models(Vars, formula') = Models(Vars, formula),
           turn' \notin {"verdict", "done"} =>
               IF Incremental
               THEN /\ app'.cube <= Len(app.cnf.cubes)
                    /\ assumptions' \subseteq CubeLits(app'.cube)
               ELSE assumptions' = {} /\ turn' \in {"solve", "solved"},
           Incremental /\ ~app'.inconclusive =>
               \A i \in 1 .. Len(app.cnf.cubes) : i < app'.cube => Refuted(Units(CubeLits(i)))
    PROVE  FileSolved'
<1>1. /\ CnfClauses' = CnfClauses /\ (Incremental' <=> Incremental)
      /\ \A i : CubeLits(i)' = CubeLits(i)
  BY SameFile
<1>2. UNION CnfClauses' \subseteq LitsOver(known') /\ Models(Vars, formula') = Models(Vars, CnfClauses')
  BY <1>1 DEF FileSolved
<1>3. turn' \notin {"verdict", "done"} =>
          IF Incremental'
          THEN /\ app'.cube <= Len(app'.cnf.cubes)
               /\ assumptions' \subseteq CubeLits(app'.cube)
          ELSE assumptions' = {} /\ turn' \in {"solve", "solved"}
  BY <1>1
<1>4. assumptions' \subseteq CubeLits(app'.cube) <=> (assumptions \subseteq CubeLits(app.cube))'
  BY <1>1 DEF CubeLits
<1>5. \A i : Refuted(Units(CubeLits(i)))' <=> Refuted(Units(CubeLits(i)))
  BY <1>1 DEF Refuted, CubeLits
<1>6. Incremental' /\ ~app'.inconclusive =>
          (\A i \in 1 .. Len(app.cnf.cubes) : i < app.cube => Refuted(Units(CubeLits(i))))'
  BY <1>1, <1>5
<1> QED
  BY <1>2, <1>3, <1>4, <1>6 DEF FileSolved

(* A step after reading, from its parts. *)
LEMMA LaterFits ==
    ASSUME AppTypes', AuxRead', turn' \in Solving, FileSolved', VerdictFits'
    PROVE  AppFile'
  BY DEF AppFile, CnfRead, Solving, Reading

(* The failed assumptions contradict the clauses: there is no constraint. *)
LEMMA CoreOfApp ==
    ASSUME AnswerInv, client = "app", state = "UNSATISFIED"
    PROVE  /\ failed \subseteq assumptions /\ failed \subseteq Lits
           /\ Models(Vars, formula \cup Units(failed)) = {}
<1>1. SolverInv /\ AnswerTypes /\ ~constraint.closed
  BY AnswerParts DEF SolverInv, AnswerInv, TurnFits
<1>2. ~constraint.unsat
  BY <1>1 DEF SolverInv, ConstraintSound, ConstraintSays
<1>3. failed \subseteq assumptions /\ Unsat(formula \cup Units(failed) \cup {})
  BY <1>1, <1>2 DEF SolverInv, TrailFits, TrailCoreFits
<1>4. formula \cup Units(failed) \subseteq SUBSET Lits /\ failed \subseteq Lits
  BY <1>1, <1>3, QuestionOver, OverVars
<1>5. formula \cup Units(failed) \cup {} = formula \cup Units(failed)
  OBVIOUS
<1> QED
  BY <1>3, <1>4, <1>5, UnsatOver

-----------------------------------------------------------------------------
(* The steps of the stand-alone solver.                                    *)

(* The parts of app that a step leaves alone. *)
LEMMA SameTypes ==
    ASSUME AppTypes, DOMAIN app' = DOMAIN app, app'.file = app.file,
           app'.res \in {0, 10, 20}, app'.inconclusive \in BOOLEAN
    PROVE  AppTypes'
  BY DEF AppTypes

(* The options, before any file is read. *)
LEMMA LimitsFile ==
    ASSUME AppFile, CubeInFile, AppLimits
    PROVE  AppFile'
<1>1. turn = "limits" /\ turn' \in {"limits", "open_aux"}
  BY DEF AppLimits, AppStep, Turn
<1>2. UNCHANGED <<formula, original, assumptions>>
  BY DEF AppLimits, Quietly, ConnectTerminator, CallLimit, SetLimit, core
<1>3. app' = app \/ \E c \in LimitCalls : app' = [app EXCEPT !.limit = @ \cup {c}]
  BY DEF AppLimits
<1>4. /\ DOMAIN app' = DOMAIN app /\ app'.file = app.file /\ app'.aux = app.aux /\ app'.pos = app.pos
      /\ app'.res = app.res /\ app'.inconclusive = app.inconclusive
  BY <1>3 DEF AppFile, AppTypes, CubeInFile
<1>5. AppTypes'
  BY <1>4, SameTypes DEF AppFile, AppTypes
<1>6. AuxRead'
  BY <1>1, <1>4 DEF AppFile, AuxRead
<1>7. formula' = {} /\ original' = {} /\ assumptions' = {}
  BY <1>1, <1>2 DEF AppFile, CnfRead, Reading
<1>8. turn' \in Reading \ {"read_dimacs"} /\ turn' \notin {"open_dimacs", "read_header"}
  BY <1>1 DEF Reading
<1> QED
  BY <1>5, <1>6, <1>7, <1>8, EarlyFits

(* The files are opened. *)
LEMMA OpensFile ==
    ASSUME AppFile, CubeInFile, AppOpens
    PROVE  AppFile'
<1>1. /\ <<turn, turn'>> \in {<<"open_aux", "read_aux">>, <<"open_aux", "error">>,
                              <<"open_dimacs", "read_header">>, <<"open_dimacs", "error">>}
      /\ app' = app /\ UNCHANGED <<formula, original, assumptions>>
  BY DEF AppOpens, AppOpen, AppStep, core
<1>2. AppTypes'
  BY <1>1 DEF AppFile, AppTypes
<1>3. CASE turn' = "error"
  BY <1>2, <1>3, ErrorFits
<1>4. CASE turn' # "error"
  <2>1. turn' \in Reading \ {"read_dimacs"}
    BY <1>1, <1>4 DEF Reading
  <2>2. formula' = {} /\ original' = {} /\ assumptions' = {}
    BY <1>1 DEF AppFile, CnfRead, Reading
  <2>3. turn' \in {"open_dimacs", "read_header"} => app'.pos = 1
    BY <1>1 DEF AppFile, CnfRead
  <2>4. AuxRead'
    <3>1. CASE turn = "open_aux"
      <4>1. app'.aux = {} /\ app'.pos = 1 /\ AuxBefore(app.pos)' = {}
        BY <1>1, <3>1 DEF AppFile, AuxRead, AuxBefore
      <4>2. Len(app.file) \in Nat
        BY ClientAssumption DEF AppFile, AppTypes
      <4> QED
        BY <1>1, <1>4, <3>1, <4>1, <4>2 DEF AuxRead
    <3>2. CASE turn = "open_dimacs"
      BY <1>1, <1>4, <3>2, AuxStays DEF AppFile
    <3> QED
      BY <1>1, <3>1, <3>2
  <2> QED
    BY <1>2, <2>1, <2>2, <2>3, <2>4, EarlyFits
<1> QED
  BY <1>3, <1>4

(* The auxiliary file. *)
LEMMA ReadAuxFile ==
    ASSUME AppFile, CubeInFile, ReadAux
    PROVE  AppFile'
<1>1. turn = "read_aux" /\ UNCHANGED <<formula, original, assumptions>>
  BY DEF ReadAux, AppStep, core
<1>2. /\ app.pos \in Nat \ {0} /\ Len(app.file) \in Nat /\ app.pos <= Len(app.file) + 1
      /\ app.aux = AuxBefore(app.pos)
  BY <1>1, ClientAssumption DEF AppFile, AppTypes, CubeInFile, AuxRead
<1>3. formula' = {} /\ original' = {} /\ assumptions' = {}
  BY <1>1 DEF AppFile, CnfRead, Reading
<1>4. CASE app.pos > Len(app.file)
  <2>1. turn' = "open_dimacs" /\ app' = [app EXCEPT !.pos = 1]
    BY <1>4 DEF ReadAux, Turn
  <2>2. /\ DOMAIN app' = DOMAIN app /\ app'.file = app.file /\ app'.aux = app.aux /\ app'.pos = 1
        /\ app'.res = app.res /\ app'.inconclusive = app.inconclusive
    BY <2>1 DEF AppFile, AppTypes, CubeInFile
  <2>3. AppTypes'
    BY <2>2, SameTypes DEF AppFile, AppTypes
  <2>4. app.pos = Len(app.file) + 1
    BY <1>2, <1>4
  <2>5. AuxRead'
    BY <1>2, <2>1, <2>2, <2>4 DEF AuxRead, AuxBefore
  <2>6. turn' \in Reading \ {"read_dimacs"}
    BY <2>1 DEF Reading
  <2> QED
    BY <1>3, <2>2, <2>3, <2>5, <2>6, EarlyFits
<1>5. CASE ~(app.pos > Len(app.file))
  <2>1. /\ turn' \in {"read_aux", "error"}
        /\ app' = [app EXCEPT !.aux = @ \cup {app.file[app.pos][1]}, !.pos = @ + 1]
    BY <1>5 DEF ReadAux, Turn
  <2>2. /\ DOMAIN app' = DOMAIN app /\ app'.file = app.file
        /\ app'.aux = app.aux \cup {app.file[app.pos][1]} /\ app'.pos = app.pos + 1
        /\ app'.res = app.res /\ app'.inconclusive = app.inconclusive
    BY <2>1 DEF AppFile, AppTypes, CubeInFile
  <2>3. AppTypes'
    BY <2>2, SameTypes DEF AppFile, AppTypes
  <2>4. CASE turn' = "error"
    BY <2>3, <2>4, ErrorFits
  <2>5. CASE turn' = "read_aux"
    <3>1. app'.aux = AuxBefore(app.pos + 1)
      <4>1. 1 .. (app.pos + 1) - 1 = (1 .. app.pos - 1) \cup {app.pos}
        BY <1>2
      <4> QED
        BY <1>2, <2>2, <4>1 DEF AuxBefore
    <3>2. app'.pos <= Len(app'.file) + 1
      BY <1>2, <1>5, <2>2
    <3>3. AuxRead'
      BY <2>2, <2>5, <3>1, <3>2 DEF AuxRead, AuxBefore
    <3>4. turn' \in Reading \ {"read_dimacs"} /\ turn' \notin {"open_dimacs", "read_header"}
      BY <2>5 DEF Reading
    <3> QED
      BY <1>3, <2>3, <3>3, <3>4, EarlyFits
  <2> QED
    BY <2>1, <2>4, <2>5
<1> QED
  BY <1>4, <1>5

(* The header of the DIMACS file. *)
LEMMA ReadHeaderFile ==
    ASSUME AppFile, CubeInFile, ReadHeader
    PROVE  AppFile'
<1>1. turn = "read_header" /\ turn' = "read_dimacs" /\ app' = app
  BY DEF ReadHeader, AppStep, Turn
<1>2. UNCHANGED <<formula, original>> /\ assumptions' \in {assumptions, KeptAssumptions}
  BY DEF ReadHeader, Quietly, Reserve, Become, core
<1>3. formula' = {} /\ original' = {} /\ assumptions' = {} /\ app'.pos = 1
  BY <1>1, <1>2 DEF AppFile, CnfRead, Reading, KeptAssumptions
<1>4. AppTypes'
  BY <1>1 DEF AppFile, AppTypes
<1>5. AuxRead'
  BY <1>1, AuxStays DEF AppFile
<1>6. ClausesBefore(1)' = {} /\ OpenClause(1)' = {}
  BY <1>1, SameFile, NothingRead
<1>7. CnfRead'
  <2>1. Len(app'.cnf.lits) \in Nat
    BY <1>1, ClientAssumption DEF CubeInFile
  <2>2. \A x : x = 1 => ClausesBefore(x)' = {} /\ OpenClause(x)' = {}
    BY <1>6
  <2>3. ClausesBefore(app.pos)' = {} /\ OpenClause(app.pos)' = {}
    BY <1>1, <1>3, <1>6 DEF ClausesBefore, OpenClause, LastZero
  <2>4. app'.pos <= Len(app'.cnf.lits) + 1
    BY <1>3, <2>1
  <2> QED
    BY <1>1, <1>3, <2>3, <2>4 DEF CnfRead, Reading
<1>8. FileSolved' /\ VerdictFits'
  BY <1>1 DEF FileSolved, VerdictFits, Solving
<1> QED
  BY <1>4, <1>5, <1>7, <1>8 DEF AppFile

(* What is left to show after a literal or a zero. *)
LEMMA CnfFits ==
    ASSUME AppFile, CubeInFile, turn = "read_dimacs", turn' = "read_dimacs",
           app' = [app EXCEPT !.pos = @ + 1], app.pos <= Len(app.cnf.lits), assumptions' = {},
           original' = OpenClause(app.pos + 1),
           UNION ClausesBefore(app.pos + 1) \subseteq LitsOver(known'),
           Models(Vars, formula') = Models(Vars, ClausesBefore(app.pos + 1))
    PROVE  AppFile'
<1>1. /\ DOMAIN app' = DOMAIN app /\ app'.file = app.file /\ app'.aux = app.aux
      /\ app'.cnf = app.cnf /\ app'.pos = app.pos + 1
      /\ app'.res = app.res /\ app'.inconclusive = app.inconclusive
  BY DEF AppFile, AppTypes, CubeInFile
<1>2. AppTypes'
  BY <1>1, SameTypes DEF AppFile, AppTypes
<1>3. AuxRead'
  BY <1>1, AuxStays DEF AppFile
<1>4. app.pos \in Nat /\ Len(app.cnf.lits) \in Nat
  BY ClientAssumption DEF CubeInFile
<1>5. ClausesBefore(app.pos)' = ClausesBefore(app.pos + 1) /\ OpenClause(app.pos)' = OpenClause(app.pos + 1)
  BY <1>1 DEF ClausesBefore, OpenClause, LastZero
<1>6. CnfRead'
  <2>1. app'.pos <= Len(app'.cnf.lits) + 1
    BY <1>1, <1>4
  <2> QED
    BY <1>5, <2>1 DEF CnfRead, Reading
<1>7. FileSolved' /\ VerdictFits'
  BY DEF FileSolved, VerdictFits, Solving
<1> QED
  BY <1>2, <1>3, <1>6, <1>7 DEF AppFile

(* A literal or a zero. *)
LEMMA ReadLitFile ==
    ASSUME AnswerInv, AppFile, CubeInFile, ReadLit
    PROVE  AppFile'
<1> DEFINE p == app.pos
           lit == app.cnf.lits[p]
<1>1. turn = "read_dimacs" /\ p <= Len(app.cnf.lits) /\ p \in Nat \ {0}
  BY DEF ReadLit, AppStep, CubeInFile
<1>2. lit \in Lits \cup {0}
  <2>1. app.cnf.lits \in Seq(Lits \cup {0})
    BY ClientAssumption DEF CubeInFile, Lits
  <2> QED
    BY <1>1, <2>1
<1>3. \/ turn' = "error" /\ UNCHANGED app
      \/ /\ IF lit = 0 THEN AddZero ELSE AddLit(lit)
         /\ app' = [app EXCEPT !.pos = @ + 1]
         /\ turn' \in {"error", "read_dimacs"}
  BY DEF ReadLit, Turn, Quietly
<1>4. /\ original = OpenClause(p) /\ UNION ClausesBefore(p) \subseteq LitsOver(known)
      /\ Models(Vars, formula) = Models(Vars, ClausesBefore(p)) /\ assumptions = {}
  BY <1>1 DEF AppFile, CnfRead, Reading
<1>5. AnswerTypes
  BY DEF AnswerInv
<1>6. AppTypes'
  <2>1. /\ DOMAIN app' = DOMAIN app /\ app'.file = app.file
        /\ app'.res = app.res /\ app'.inconclusive = app.inconclusive
    BY <1>3 DEF AppFile, AppTypes, CubeInFile
  <2> QED
    BY <2>1, SameTypes DEF AppFile, AppTypes
<1>7. CASE turn' = "error"
  BY <1>6, <1>7, ErrorFits
<1>8. CASE turn' # "error"
  <2>1. /\ turn' = "read_dimacs" /\ app' = [app EXCEPT !.pos = @ + 1]
        /\ IF lit = 0 THEN AddZero ELSE AddLit(lit)
    BY <1>3, <1>8
  <2>2. assumptions' = {}
    BY <1>4, <2>1 DEF AddZero, AddLit, Become, KeptAssumptions
  <2>3. CASE lit = 0
    <3>1. ClausesBefore(p + 1) = ClausesBefore(p) \cup {original} /\ OpenClause(p + 1) = {}
      BY <1>1, <1>4, <2>3, ZeroRead
    <3>2. /\ original' = {} /\ known' = known
          /\ formula' = formula \cup IF \E l \in original : -l \in original THEN {} ELSE {original}
      BY <2>1, <2>3 DEF AddZero
    <3>3. original \subseteq LitsOver(known) /\ original \in SUBSET Lits
      BY <1>5, OverVars DEF AnswerTypes
    <3>4. Models(Vars, formula') = Models(Vars, ClausesBefore(p) \cup {original})
      BY <1>4, <3>2, <3>3, ZeroModels
    <3>5. Models(Vars, formula') = Models(Vars, ClausesBefore(p + 1))
      BY <3>1, <3>4
    <3>6. UNION ClausesBefore(p + 1) \subseteq LitsOver(known')
      BY <1>4, <3>1, <3>2, <3>3
    <3>7. original' = OpenClause(p + 1)
      BY <3>1, <3>2
    <3> QED
      BY <1>1, <2>1, <2>2, <3>5, <3>6, <3>7, CnfFits
  <2>4. CASE lit # 0
    <3>1. ClausesBefore(p + 1) = ClausesBefore(p) /\ OpenClause(p + 1) = OpenClause(p) \cup {lit}
      BY <1>1, <2>4, LiteralRead
    <3>2. original' = original \cup {lit} /\ formula' = formula
      BY <2>1, <2>4 DEF AddLit
    <3>3. LitsOver(known) \subseteq LitsOver(known')
      BY <1>5, <2>1, <2>4, Internalized DEF AddLit
    <3>4. UNION ClausesBefore(p + 1) \subseteq LitsOver(known')
      BY <1>4, <3>1, <3>3
    <3>5. original' = OpenClause(p + 1)
      BY <1>4, <3>1, <3>2
    <3>6. Models(Vars, formula') = Models(Vars, ClausesBefore(p + 1))
      BY <1>4, <3>1, <3>2
    <3> QED
      BY <1>1, <2>1, <2>2, <3>4, <3>5, <3>6, CnfFits
  <2> QED
    BY <2>3, <2>4
<1> QED
  BY <1>7, <1>8

(* The end of the DIMACS file. *)
LEMMA ReadEndFile ==
    ASSUME AppFile, CubeInFile, ReadEnd
    PROVE  AppFile'
<1>1. /\ turn = "read_dimacs" /\ app.pos > Len(app.cnf.lits)
      /\ app' = app /\ UNCHANGED <<formula, known, assumptions, stage, state>>
      /\ turn' \in {"error", IF Incremental THEN "cube" ELSE "solve"}
  BY DEF ReadEnd, AppStep, Turn, Incremental, core, job
<1>2. AppTypes'
  BY <1>1 DEF AppFile, AppTypes
<1>3. CASE turn' = "error"
  BY <1>2, <1>3, ErrorFits
<1>4. CASE turn' # "error"
  <2>1. turn' = IF Incremental THEN "cube" ELSE "solve"
    BY <1>1, <1>4
  <2>2. app.pos = Len(app.cnf.lits) + 1 /\ app.cube = 1
    <3>1. app.pos \in Nat /\ Len(app.cnf.lits) \in Nat
      BY ClientAssumption DEF CubeInFile
    <3> QED
      BY <1>1, <3>1 DEF AppFile, CnfRead, CubeInFile, Reading
  <2>3. UNION CnfClauses \subseteq LitsOver(known) /\ Models(Vars, formula) = Models(Vars, CnfClauses)
    BY <1>1, <2>2 DEF AppFile, CnfRead, CnfClauses
  <2>4. CnfClauses' = CnfClauses /\ (Incremental' <=> Incremental)
    BY <1>1, SameFile
  <2>5. assumptions' = {} /\ app'.cube = 1
    BY <1>1, <2>2 DEF AppFile, CnfRead, Reading
  <2>6. Len(app'.cnf.cubes) \in Nat /\ (Incremental' => 1 <= Len(app'.cnf.cubes))
    BY <1>1, ClientAssumption DEF CubeInFile, Incremental
  <2>7. ~\E i \in 1 .. Len(app'.cnf.cubes) : i < app'.cube
    BY <2>5, <2>6
  <2>8. FileSolved'
    <3>1. UNION CnfClauses' \subseteq LitsOver(known') /\ Models(Vars, formula') = Models(Vars, CnfClauses')
      BY <1>1, <2>3, <2>4
    <3>2. IF Incremental'
          THEN /\ app'.cube <= Len(app'.cnf.cubes)
               /\ assumptions' = {}
          ELSE assumptions' = {} /\ turn' \in {"solve", "solved"}
      BY <2>1, <2>4, <2>5, <2>6
    <3> QED
      BY <2>7, <3>1, <3>2 DEF FileSolved
  <2>9. VerdictFits'
    BY <2>1 DEF VerdictFits
  <2>10. turn' \in Solving
    BY <2>1 DEF Solving
  <2>11. AuxRead'
    BY <1>1, <2>10, AuxStays DEF AppFile, Solving
  <2> QED
    BY <1>2, <2>8, <2>9, <2>10, <2>11, LaterFits
<1> QED
  BY <1>3, <1>4

(* A step in solving that leaves app alone, and the clauses. *)
LEMMA SolvingFits ==
    ASSUME AppFile, turn \in Solving, turn' \in Solving, app' = app, formula' = formula,
           LitsOver(known) \subseteq LitsOver(known'),
           turn' \notin {"verdict", "done"} =>
               IF Incremental
               THEN /\ app.cube <= Len(app.cnf.cubes)
                    /\ assumptions' \subseteq CubeLits(app.cube)
               ELSE assumptions' = {} /\ turn' \in {"solve", "solved"},
           VerdictFits'
    PROVE  AppFile'
<1>1. AppTypes'
  BY DEF AppFile, AppTypes
<1>2. AuxRead'
  BY AuxStays DEF AppFile, Solving
<1>3. Incremental /\ ~app.inconclusive =>
          \A i \in 1 .. Len(app.cnf.cubes) : i < app.cube => Refuted(Units(CubeLits(i)))
  BY DEF AppFile, FileSolved
<1>4. FileSolved'
  BY <1>3, SolvedFits DEF AppFile
<1> QED
  BY <1>1, <1>2, <1>4, LaterFits

(* A call of solve, and what is assumed and limited before it. *)
LEMMA QuestionFile ==
    ASSUME AnswerInv, AppFile, CubeInFile, AppSolve \/ AppAssume \/ AppCubeLimit
    PROVE  AppFile'
<1>1. AnswerTypes
  BY DEF AnswerInv
<1>2. CASE AppSolve
  <2>1. /\ turn = "solve" /\ turn' = "solved" /\ app' = app /\ formula' = formula /\ known' = known
        /\ assumptions' = KeptAssumptions /\ stage' = "already_solved"
    BY <1>2 DEF AppSolve, AppStep, Turn, CallSolve, StartSolve, Become
  <2>2. turn \in Solving /\ turn' \in Solving /\ turn \notin {"verdict", "done"}
    BY <2>1 DEF Solving
  <2>3. assumptions' \subseteq assumptions
    BY <2>1 DEF KeptAssumptions
  <2>4. VerdictFits'
    BY <2>1 DEF VerdictFits
  <2>5. IF Incremental
        THEN /\ app.cube <= Len(app.cnf.cubes)
             /\ assumptions' \subseteq CubeLits(app.cube)
        ELSE assumptions' = {} /\ turn' \in {"solve", "solved"}
    BY <2>1, <2>2, <2>3 DEF AppFile, FileSolved
  <2> QED
    BY <2>1, <2>2, <2>4, <2>5, SolvingFits
<1>3. CASE AppAssume
  <2> DEFINE todo == {i \in 1 .. Len(Cube) : Cube[i] \notin given.assumptions}
  <2>1. turn = "cube" /\ turn' \in {"cube", "cube_limit"} /\ app' = app
    BY <1>3 DEF AppAssume, AppStep, Turn
  <2>2. turn \in Solving /\ turn' \in Solving /\ turn' \notin {"solve", "solved"}
    BY <2>1 DEF Solving
  <2>3. Incremental /\ app.cube <= Len(app.cnf.cubes) /\ assumptions \subseteq CubeLits(app.cube)
    BY <2>1, <2>2 DEF AppFile, FileSolved
  <2>4. VerdictFits'
    BY <2>1 DEF VerdictFits
  <2>5. /\ formula' = formula /\ assumptions' \subseteq CubeLits(app.cube)
        /\ LitsOver(known) \subseteq LitsOver(known')
    <3>1. CASE todo # {} /\ CallAssume(Cube[Max(todo)])
      <4> HIDE DEF todo
      <4>1. todo = {i \in 1 .. Len(Cube) : Cube[i] \notin given.assumptions}
        BY DEF todo
      <4>2. Cube[Max(todo)] \in CubeLits(app.cube)
        BY <2>1, <3>1, <4>1, NextOfCube
      <4>3. PICK l \in CubeLits(app.cube) : Assume(l)
        BY <3>1, <4>2 DEF CallAssume
      <4>4. formula' = formula /\ assumptions' = KeptAssumptions \cup {l} /\ Internalize(Var(l))
        BY <4>3 DEF Assume, Become
      <4>5. LitsOver(known) \subseteq LitsOver(known')
        BY <1>1, <4>4, Internalized
      <4> QED
        BY <2>3, <4>4, <4>5 DEF KeptAssumptions
    <3>2. CASE UNCHANGED <<core, job, async, ghosts>>
      BY <2>3, <3>2 DEF core
    <3> QED
      BY <1>3, <3>1, <3>2 DEF AppAssume
  <2> QED
    BY <2>1, <2>2, <2>3, <2>4, <2>5, SolvingFits
<1>4. CASE AppCubeLimit
  <2>1. turn = "cube_limit" /\ turn' = "solve" /\ app' = app
    BY <1>4 DEF AppCubeLimit, AppStep, Turn
  <2>2. UNCHANGED <<formula, known, assumptions>>
    BY <1>4 DEF AppCubeLimit, CallLimit, SetLimit, core
  <2>3. turn \in Solving /\ turn' \in Solving
    BY <2>1 DEF Solving
  <2>4. VerdictFits'
    BY <2>1 DEF VerdictFits
  <2>5. Incremental /\ app.cube <= Len(app.cnf.cubes) /\ assumptions \subseteq CubeLits(app.cube)
    BY <2>1, <2>3 DEF AppFile, FileSolved
  <2> QED
    BY <2>1, <2>2, <2>3, <2>4, <2>5, SolvingFits
<1> QED
  BY <1>2, <1>3, <1>4

(* After a call of solve. *)
LEMMA SolvedFile ==
    ASSUME AnswerInv, AppFile, CubeInFile, client = "app", AppSolved
    PROVE  AppFile'
<1>1. turn = "solved" /\ state # "SOLVING" /\ turn \in Solving
  BY DEF AppSolved, AppStep, Solving
<1>2. stage = "idle" /\ result \in {0, 10, 20}
  BY <1>1, InvariantParts DEF AnswerInv, RunInv, OneCall
<1>3. /\ result = 0 => assumptions = {}
      /\ result = 10 => state = "SATISFIED"
      /\ result = 20 => state = "UNSATISFIED"
  BY <1>1, <1>2 DEF AppFile, VerdictFits
<1>4. UNCHANGED <<formula, known, assumptions, state>>
  BY DEF AppSolved, Quietly, QueryFailed, core
<1>5. /\ app.cube \in Nat /\ app.cube <= app.cube + 1 /\ Len(app.cnf.cubes) \in Nat
      /\ IF Incremental
         THEN app.cube <= Len(app.cnf.cubes) /\ assumptions \subseteq CubeLits(app.cube)
         ELSE assumptions = {}
  BY <1>1, ClientAssumption DEF AppFile, FileSolved, CubeInFile
<1>6. Incremental /\ ~app.inconclusive =>
          \A i \in 1 .. Len(app.cnf.cubes) : i < app.cube => Refuted(Units(CubeLits(i)))
  BY <1>1 DEF AppFile, FileSolved
<1>7. Models(Vars, formula) = Models(Vars, CnfClauses)
  BY <1>1 DEF AppFile, FileSolved
<1>8. CASE /\ ~Incremental \/ result = 10
           /\ turn' = "verdict" /\ app' = [app EXCEPT !.res = result]
  <2>1. /\ DOMAIN app' = DOMAIN app /\ app'.file = app.file /\ app'.aux = app.aux /\ app'.cnf = app.cnf
        /\ app'.cube = app.cube /\ app'.res = result /\ app'.inconclusive = app.inconclusive
    BY <1>8 DEF AppFile, AppTypes, CubeInFile
  <2>2. AppTypes'
    BY <1>2, <2>1, SameTypes DEF AppFile, AppTypes
  <2>3. turn' \in Solving
    BY <1>8 DEF Solving
  <2>4. AuxRead'
    BY <1>1, <1>8, <2>1, AuxStays DEF AppFile
  <2>5. FileSolved'
    BY <1>1, <1>4, <1>6, <1>8, <2>1, <2>3, SolvedFits DEF AppFile
  <2>6. ASSUME ~Incremental, result = 20
        PROVE  Refuted({})
    <3>1. failed \subseteq {} /\ Models(Vars, formula \cup Units(failed)) = {}
      BY <1>3, <1>5, <2>6, CoreOfApp
    <3>2. {} \subseteq {} /\ Units({}) = {}
      BY DEF Units
    <3>3. Refuted(Units({}))
      BY <1>7, <3>1, RefutedMore
    <3> QED
      BY <3>2, <3>3
  <2>7. (Incremental' <=> Incremental) /\ (Refuted({})' <=> Refuted({}))
    BY <2>1, SameFile DEF Refuted
  <2>8. VerdictFits'
    BY <1>3, <1>4, <1>8, <2>1, <2>6, <2>7 DEF VerdictFits
  <2> QED
    BY <2>2, <2>3, <2>4, <2>5, <2>8, LaterFits
<1>9. CASE /\ Incremental /\ result = 20
           /\ turn' = "add_failed" /\ app' = [app EXCEPT !.res = 20]
  <2>1. /\ DOMAIN app' = DOMAIN app /\ app'.file = app.file /\ app'.aux = app.aux /\ app'.cnf = app.cnf
        /\ app'.cube = app.cube /\ app'.res = 20 /\ app'.inconclusive = app.inconclusive
    BY <1>9 DEF AppFile, AppTypes, CubeInFile
  <2>2. AppTypes'
    BY <2>1, SameTypes DEF AppFile, AppTypes
  <2>3. turn' \in Solving
    BY <1>9 DEF Solving
  <2>4. AuxRead'
    BY <1>1, <1>9, <2>1, AuxStays DEF AppFile
  <2>5. FileSolved'
    BY <1>1, <1>4, <1>5, <1>6, <1>9, <2>1, <2>3, SolvedFits DEF AppFile
  <2>6. VerdictFits'
    BY <1>3, <1>4, <1>9, <2>1 DEF VerdictFits
  <2> QED
    BY <2>2, <2>3, <2>4, <2>5, <2>6, LaterFits
<1>10. CASE /\ Incremental /\ result = 0
            /\ turn' \in {"verdict", NextCube}
            /\ app' = [app EXCEPT !.res = 0, !.inconclusive = TRUE, !.cube = @ + 1]
  <2>1. /\ DOMAIN app' = DOMAIN app /\ app'.file = app.file /\ app'.aux = app.aux /\ app'.cnf = app.cnf
        /\ app'.cube = app.cube + 1 /\ app'.res = 0 /\ app'.inconclusive = TRUE
    BY <1>10 DEF AppFile, AppTypes, CubeInFile
  <2>2. AppTypes'
    BY <2>1, SameTypes DEF AppFile, AppTypes
  <2>3. turn' \in {"verdict", "cube"} /\ (turn' = "cube" => app.cube < Len(app.cnf.cubes))
    BY <1>5, <1>10 DEF NextCube, LastCube
  <2>4. turn' \in Solving
    BY <2>3 DEF Solving
  <2>5. AuxRead'
    BY <1>1, <2>1, <2>3, AuxStays DEF AppFile
  <2>6. turn' \notin {"verdict", "done"} =>
            app'.cube <= Len(app.cnf.cubes) /\ assumptions' \subseteq CubeLits(app'.cube)
    BY <1>3, <1>4, <1>5, <1>10, <2>1, <2>3
  <2>7. FileSolved'
    BY <1>1, <1>4, <1>10, <2>1, <2>4, <2>6, SolvedFits DEF AppFile
  <2>8. VerdictFits'
    BY <2>1, <2>3 DEF VerdictFits
  <2> QED
    BY <2>2, <2>4, <2>5, <2>7, <2>8, LaterFits
<1> QED
  BY <1>8, <1>9, <1>10 DEF AppSolved, Turn

(* The clause over the failed assumptions follows from the others, and the *)
(* cube is refuted.                                                        *)
LEMMA AddFailedFile ==
    ASSUME AnswerInv, AppFile, CubeInFile, client = "app", AppAddFailed
    PROVE  AppFile'
<1>1. /\ turn = "add_failed" /\ turn' = NextCube /\ app' = [app EXCEPT !.cube = @ + 1]
      /\ formula' = formula \cup {Neg(failed)} /\ known' = known /\ assumptions' = KeptAssumptions
  BY DEF AppAddFailed, AppStep, Turn, Become
<1>2. state = "UNSATISFIED" /\ app.res = 20 /\ turn \in Solving
  BY <1>1 DEF AppFile, VerdictFits, Solving
<1>3. assumptions' = {}
  BY <1>1, <1>2 DEF KeptAssumptions, Answered
<1>4. /\ Incremental /\ app.cube <= Len(app.cnf.cubes) /\ assumptions \subseteq CubeLits(app.cube)
      /\ Models(Vars, formula) = Models(Vars, CnfClauses)
      /\ (~app.inconclusive =>
             \A i \in 1 .. Len(app.cnf.cubes) : i < app.cube => Refuted(Units(CubeLits(i))))
  BY <1>1, <1>2 DEF AppFile, FileSolved
<1>5. failed \subseteq assumptions /\ failed \in SUBSET Lits /\ Models(Vars, formula \cup Units(failed)) = {}
  BY <1>2, CoreOfApp
<1>6. Models(Vars, formula') = Models(Vars, formula)
  BY <1>1, <1>5, CoreNegated
<1>7. Refuted(Units(CubeLits(app.cube)))
  <2>1. failed \subseteq CubeLits(app.cube)
    BY <1>4, <1>5
  <2> QED
    BY <1>4, <1>5, <2>1, RefutedMore
<1>8. /\ DOMAIN app' = DOMAIN app /\ app'.file = app.file /\ app'.aux = app.aux /\ app'.cnf = app.cnf
      /\ app'.cube = app.cube + 1 /\ app'.res = app.res /\ app'.inconclusive = app.inconclusive
  BY <1>1 DEF AppFile, AppTypes, CubeInFile
<1>9. AppTypes'
  BY <1>8, SameTypes DEF AppFile, AppTypes
<1>10. app.cube \in Nat /\ Len(app.cnf.cubes) \in Nat
  BY ClientAssumption DEF CubeInFile
<1>11. /\ turn' \in {"verdict", "cube"} /\ (turn' = "cube" => app.cube < Len(app.cnf.cubes))
       /\ (turn' = "verdict" => app.cube >= Len(app.cnf.cubes))
  BY <1>1, <1>10 DEF NextCube, LastCube
<1>12. turn' \in Solving
  BY <1>11 DEF Solving
<1>13. AuxRead'
  BY <1>1, <1>8, <1>11, AuxStays DEF AppFile
<1>14. turn' \notin {"verdict", "done"} =>
           app'.cube <= Len(app.cnf.cubes) /\ assumptions' \subseteq CubeLits(app'.cube)
  BY <1>3, <1>8, <1>10, <1>11
<1>15. ~app'.inconclusive =>
           \A i \in 1 .. Len(app.cnf.cubes) : i < app'.cube => Refuted(Units(CubeLits(i)))
  <2>1. \A i \in 1 .. Len(app.cnf.cubes) : i < app.cube + 1 => i < app.cube \/ i = app.cube
    BY <1>10
  <2> QED
    BY <1>4, <1>7, <1>8, <2>1
<1>16. FileSolved'
  BY <1>1, <1>2, <1>4, <1>6, <1>8, <1>12, <1>14, <1>15, SolvedFits DEF AppFile
<1>17. VerdictFits'
  <2>1. Incremental' /\ (turn' = "verdict" => app'.cube > Len(app'.cnf.cubes))
    BY <1>4, <1>8, <1>10, <1>11, SameFile
  <2> QED
    BY <1>2, <1>8, <1>11, <2>1 DEF VerdictFits
<1> QED
  BY <1>9, <1>12, <1>13, <1>16, <1>17, LaterFits

(* The verdict, and the model that is printed. *)
LEMMA VerdictFile ==
    ASSUME AnswerInv, AppFile, CubeInFile, AppVerdict
    PROVE  AppFile'
<1>1. /\ turn = "verdict" /\ turn' = "done" /\ UNCHANGED <<formula, known>>
      /\ app' = [app EXCEPT !.res = IF @ = 20 /\ app.inconclusive THEN 0 ELSE @,
                            !.witness = Witness]
  BY DEF AppVerdict, AppStep, Turn, core
<1>2. turn \in Solving /\ turn' \in Solving
  BY <1>1 DEF Solving
<1>3. /\ DOMAIN app' = DOMAIN app /\ app'.file = app.file /\ app'.aux = app.aux /\ app'.cnf = app.cnf
      /\ app'.cube = app.cube /\ app'.inconclusive = app.inconclusive
      /\ app'.res = (IF app.res = 20 /\ app.inconclusive THEN 0 ELSE app.res)
      /\ app'.witness = Witness
  BY <1>1 DEF AppFile, AppTypes, CubeInFile
<1>4. AppTypes'
  BY <1>3, SameTypes DEF AppFile, AppTypes
<1>5. AuxRead'
  BY <1>1, <1>3, AuxStays DEF AppFile
<1>6. /\ UNION CnfClauses \subseteq LitsOver(known) /\ Models(Vars, formula) = Models(Vars, CnfClauses)
      /\ (Incremental /\ ~app.inconclusive =>
             \A i \in 1 .. Len(app.cnf.cubes) : i < app.cube => Refuted(Units(CubeLits(i))))
  BY <1>2 DEF AppFile, FileSolved
<1>7. FileSolved'
  BY <1>1, <1>2, <1>3, <1>6, SolvedFits DEF AppFile
<1>8. /\ app.res = 10 => state = "SATISFIED"
      /\ app.res = 20 => IF Incremental THEN app.inconclusive \/ app.cube > Len(app.cnf.cubes)
                         ELSE Refuted({})
  BY <1>1 DEF AppFile, VerdictFits
<1>9. /\ CnfClauses' = CnfClauses /\ (Incremental' <=> Incremental) /\ CubeSets' = CubeSets
      /\ \A S : Refuted(S)' <=> Refuted(S)
  BY <1>3, SameFile DEF Refuted
<1>10. ASSUME app'.res = 10
       PROVE  \A c \in CnfClauses : Sat(app'.witness, c)
  <2>1. app.res = 10 /\ app'.witness = trail.model
    BY <1>3, <1>10 DEF Witness
  <2>2. AnswerTypes /\ ModelFits
    BY <1>8, <2>1 DEF AnswerInv, TrailFits
  <2>3. trail.model \in Models(known, formula)
    BY <2>2 DEF ModelFits, Models
  <2> QED
    BY <1>6, <2>1, <2>2, <2>3, ModelOfFile
<1>11. ASSUME app'.res = 20, Incremental, NEW c \in CubeSets
       PROVE  Refuted(Units(c))
  <2>1. app.res = 20 /\ ~app.inconclusive
    BY <1>3, <1>11
  <2>2. app.cube \in Nat /\ Len(app.cnf.cubes) \in Nat /\ app.cube > Len(app.cnf.cubes)
    BY <1>8, <1>11, <2>1, ClientAssumption DEF CubeInFile
  <2>3. PICK i \in 1 .. Len(app.cnf.cubes) : c = CubeLits(i)
    BY DEF CubeSets
  <2> QED
    BY <1>6, <1>11, <2>1, <2>2, <2>3
<1>12. app'.res = 20 /\ ~Incremental => Refuted({})
  BY <1>3, <1>8
<1>13. \A c : Refuted(Units(c))' <=> Refuted(Units(c))
  BY <1>9 DEF Refuted
<1>14. VerdictFits'
  BY <1>1, <1>9, <1>10, <1>11, <1>12, <1>13 DEF VerdictFits
<1> QED
  BY <1>2, <1>4, <1>5, <1>7, <1>14, LaterFits

(* While solve runs the stand-alone solver waits. *)
LEMMA SolveFile ==
    ASSUME AnswerInv, AppFile, client = "app", Solver
    PROVE  AppFile'
<1>1. /\ app' = app /\ turn' = turn /\ UNCHANGED <<formula, known>>
      /\ assumptions' \subseteq assumptions
  BY DEF Solver, SolverStep, clientVars, KeepsUserData, AlreadySolved, Preprocess, LocalSearch,
         LuckyPhases, SearchAnswer, SearchLimit, SearchTerminated, ResetSolving, ClearForced, Return
<1>2. stage # "idle"
  BY DEF Solver, SolverStep, AlreadySolved, Preprocess, LocalSearch, LuckyPhases, SearchAnswer,
         SearchLimit, SearchTerminated, ResetSolving, ClearForced, Return
<1>3. turn = "solved" /\ turn \in Solving
  BY <1>2 DEF AnswerInv, TurnFits, Solving
<1>4. VerdictFits'
  <2>1. ASSUME stage' = "idle"
        PROVE  /\ result' = 0 => assumptions' = {}
               /\ result' = 10 => state' = "SATISFIED"
               /\ result' = 20 => state' = "UNSATISFIED"
    <3>1. Return
      BY <2>1 DEF Solver, SolverStep, AlreadySolved, Preprocess, LocalSearch, LuckyPhases,
                  SearchAnswer, AnswerSat, AnswerFailed, AnswerConstraint, AnswerUnsat,
                  SearchLimit, SearchTerminated, ResetSolving, ClearForced, Finish, ToStage
    <3>2. stage = "return" /\ result' = result /\ assumptions' = IF result = 0 THEN {} ELSE assumptions
      BY <3>1 DEF Return
    <3>3. CheckSolveResult
      BY <3>2, ChecksPass
    <3>4. state' = CASE result = 10 -> "SATISFIED"
                     [] result = 20 -> "UNSATISFIED"
                     [] OTHER -> "UNKNOWN"
      BY <3>1, <3>3 DEF Return
    <3> QED
      BY <3>2, <3>4
  <2> QED
    BY <1>1, <1>3, <2>1 DEF VerdictFits
<1>5. IF Incremental
      THEN /\ app.cube <= Len(app.cnf.cubes)
           /\ assumptions' \subseteq CubeLits(app.cube)
      ELSE assumptions' = {} /\ turn' \in {"solve", "solved"}
  BY <1>1, <1>3 DEF AppFile, FileSolved
<1> QED
  BY <1>1, <1>3, <1>4, <1>5, SolvingFits

(* Each step of the stand-alone solver. *)
LEMMA AppStepFile ==
    ASSUME AnswerInv, AppFile, App
    PROVE  AppFile'
<1>1. client = "app"
  BY DEF App, AppStep, AppLimits, AppOpens, AppOpen, ReadAux, ReadHeader, ReadDimacs, ReadLit, ReadEnd,
         AppSolve, AppAssume, AppCubeLimit, AppSolved, AppAddFailed, AppVerdict
<1>2. CubeInFile
  BY <1>1, InvariantParts DEF AnswerInv, ClientInv
<1> QED
  BY <1>1, <1>2, LimitsFile, OpensFile, ReadAuxFile, ReadHeaderFile, ReadLitFile, ReadEndFile,
     QuestionFile, SolvedFile, AddFailedFile, VerdictFile DEF App, ReadDimacs

(* Nothing is read at the start. *)
LEMMA AppInitially ==
    ASSUME ClientInit
    PROVE  AppInv
<1>1. AnswerInv
  BY AnswerInitially
<1>2. ASSUME client = "app"
      PROVE  AppFile
  <2>1. /\ app \in [aux : {{}}, file : AuxFiles, cnf : CnfFiles, pos : {1}, limit : {{}}, cube : {1},
                    res : {0}, inconclusive : {FALSE}, witness : {{}}]
        /\ turn = "limits" /\ formula = {} /\ original = {} /\ assumptions = {}
    BY <1>2 DEF ClientInit, Init
  <2>2. AppTypes /\ AuxRead
    BY <2>1 DEF AppTypes, AuxRead
  <2>3. CnfRead /\ FileSolved /\ VerdictFits
    BY <2>1 DEF CnfRead, FileSolved, VerdictFits, Solving, Reading
  <2> QED
    BY <2>2, <2>3 DEF AppFile
<1> QED
  BY <1>1, <1>2 DEF AppInv

(* Every step, of any client. *)
LEMMA AppNextKeeps ==
    ASSUME AppInv, [ClientNext]_vars
    PROVE  AppInv'
<1>1. AnswerInv /\ AnswerInv'
  BY AnswerNextKeeps DEF AppInv
<1>2. ASSUME client' = "app"
      PROVE  AppFile'
  <2>1. client = "app"
    BY <1>2 DEF ClientNext, Tester, User, App, AppStep, AppLimits, AppOpens, AppOpen, ReadAux,
                ReadHeader, ReadDimacs, ReadLit, ReadEnd, AppSolve, AppAssume, AppCubeLimit,
                AppSolved, AppAddFailed, AppVerdict, Solver, Thread, Done, vars, clientVars,
                TesterSkips
  <2>2. AppFile
    BY <2>1 DEF AppInv
  <2>3. ASSUME UNCHANGED <<core, job, clientVars>>
        PROVE  AppFile'
    <3>1. /\ app' = app /\ turn' = turn
          /\ UNCHANGED <<formula, original, assumptions, known, state, stage, result>>
      BY <2>3 DEF core, job, clientVars
    <3>2. AppTypes' /\ AuxRead'
      BY <2>2, <3>1 DEF AppFile, AppTypes, AuxRead, AuxBefore
    <3>3. CnfRead'
      <4>1. /\ ClausesBefore(app.pos)' = ClausesBefore(app.pos)
            /\ OpenClause(app.pos)' = OpenClause(app.pos)
        BY <3>1 DEF ClausesBefore, OpenClause, LastZero
      <4> QED
        BY <2>2, <3>1, <4>1 DEF AppFile, CnfRead
    <3>4. VerdictFits'
      <4>1. /\ CnfClauses' = CnfClauses /\ (Incremental' <=> Incremental) /\ CubeSets' = CubeSets
            /\ \A c : Refuted(Units(c))' <=> Refuted(Units(c))
            /\ Refuted({})' <=> Refuted({})
        BY <3>1, SameFile DEF Refuted
      <4> QED
        BY <2>2, <3>1, <4>1 DEF AppFile, VerdictFits
    <3>5. CASE turn \in Solving
      <4>1. turn' \notin {"verdict", "done"} =>
               IF Incremental
               THEN /\ app.cube <= Len(app.cnf.cubes)
                    /\ assumptions' \subseteq CubeLits(app.cube)
               ELSE assumptions' = {} /\ turn' \in {"solve", "solved"}
        BY <2>2, <3>1, <3>5 DEF AppFile, FileSolved
      <4> QED
        BY <2>2, <3>1, <3>4, <3>5, <4>1, SolvingFits
    <3>6. CASE turn \notin Solving
      BY <3>1, <3>2, <3>3, <3>4, <3>6 DEF AppFile, FileSolved
    <3> QED
      BY <3>5, <3>6
  <2>4. CASE Thread
    BY <2>3, <2>4 DEF Thread, Terminate, TerminatorAsks
  <2>5. CASE UNCHANGED vars
    BY <2>3, <2>5 DEF vars
  <2>6. ~Tester /\ ~User
    BY <2>1 DEF Tester, User
  <2> QED
    BY <1>1, <2>1, <2>2, <2>4, <2>5, <2>6, AppStepFile, SolveFile DEF ClientNext, Done
<1> QED
  BY <1>1, <1>2 DEF AppInv

(* The verdict of the program is one on its file. *)
LEMMA AppIsRight ==
    ASSUME AppInv
    PROVE  AppRight
<1>1. SUFFICES ASSUME client = "app"
               PROVE  AppRight
  BY DEF AppRight
<1>2. AppFile /\ AnswerTypes /\ CubeInFile
  BY <1>1, InvariantParts DEF AppInv, AnswerInv, ClientInv
<1>3. ASSUME turn = "done"
      PROVE  /\ app.res = 10 => \A c \in CnfClauses : Sat(app.witness, c)
             /\ app.res = 20 => IF ~Incremental THEN Unsat(CnfClauses)
                                ELSE \A c \in CubeSets : Unsat(CnfClauses \cup Units(c))
  <2>1. CnfClauses \subseteq SUBSET Lits
    <3>1. UNION CnfClauses \subseteq LitsOver(known)
      BY <1>2, <1>3 DEF AppFile, FileSolved, Solving
    <3> QED
      BY <1>2, <3>1, OverVars
  <2>2. \A c \in CubeSets : CnfClauses \cup Units(c) \subseteq SUBSET Lits
    <3>1. app.cnf.cubes \in Seq(Seq(Lits))
      BY <1>2, ClientAssumption DEF CubeInFile, Lits
    <3>2. \A c \in CubeSets : c \subseteq Lits
      BY <3>1 DEF CubeSets, CubeLits
    <3> QED
      BY <2>1, <3>2 DEF Units
  <2>3. /\ app.res = 10 => \A c \in CnfClauses : Sat(app.witness, c)
        /\ app.res = 20 => IF Incremental THEN \A c \in CubeSets : Refuted(Units(c)) ELSE Refuted({})
    BY <1>2, <1>3 DEF AppFile, VerdictFits
  <2>4. Refuted({}) => Unsat(CnfClauses)
    <3>1. CnfClauses \cup {} = CnfClauses
      OBVIOUS
    <3> QED
      BY <2>1, <3>1, UnsatOver DEF Refuted
  <2>5. \A c \in CubeSets : Refuted(Units(c)) => Unsat(CnfClauses \cup Units(c))
    BY <2>2, UnsatOver DEF Refuted
  <2> QED
    BY <2>3, <2>4, <2>5
<1>4. turn \notin {"limits", "open_aux", "read_aux", "error"} =>
          app.aux = {app.file[i][1] : i \in 1 .. Len(app.file)}
  <2>1. Len(app.file) \in Nat
    BY <1>2, ClientAssumption DEF AppFile, AppTypes
  <2>2. 1 .. (Len(app.file) + 1) - 1 = 1 .. Len(app.file)
    BY <2>1
  <2> QED
    BY <1>2, <2>2 DEF AppFile, AuxRead, AuxBefore
<1> QED
  BY <1>1, <1>3, <1>4 DEF AppRight

(* The stand-alone solver works on the file it read: the clauses in the    *)
(* solver have the models of those that were read so far, also after the   *)
(* clauses over failed assumptions were added, and the cubes that were     *)
(* answered are refuted by the file (parse_dimacs, App::main).             *)
THEOREM AppInvariant == ClientSpec => []AppInv
<1>1. ClientInit => AppInv
  BY AppInitially
<1>2. AppInv /\ [ClientNext]_vars => AppInv'
  BY AppNextKeeps
<1> QED
  BY <1>1, <1>2, PTL DEF ClientSpec

(* The exit code of the stand-alone solver is right for its file, and the  *)
(* model that it prints satisfies each of its clauses, for every file,     *)
(* with and without cubes, limits and terminators (App::main,              *)
(* print_witness).                                                         *)
THEOREM ExitCodeRight == ClientSpec => []AppRight
<1>1. AppInv => AppRight
  BY AppIsRight
<1> QED
  BY <1>1, AppInvariant, PTL
=============================================================================
