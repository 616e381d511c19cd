---------------------------- MODULE MeteringProofs ----------------------------
(***************************************************************************)
(* That a client may forget a batch once it has been told 202; that the    *)
(* meter counts no entry twice and, unless something failed, none too few; *)
(* and how often Stripe can be told of a day again.  For any               *)
(* number of requests, batches, sources, projects, days and hours,         *)
(* whatever fails and whatever is deleted.                                 *)
(*                                                                         *)
(* The meter is a sum, so the first part is about sums over finite sets.   *)
(* There, induction is the well-foundedness of strict inclusion: a claim   *)
(* that fails has a smallest set it fails for.                             *)
(***************************************************************************)
EXTENDS Metering, FiniteSetTheorems, WellFoundedInduction, TLAPS

(* Finite sums. *)

Pick(s) == CHOOSE x \in s : TRUE

\* g holds the sums of f over the subsets of S, as SumFunctionOnSet takes them.
Sums(g, f, S) ==
    g = [s \in SUBSET S |-> IF s = {} THEN 0 ELSE f[Pick(s)] + g[s \ {Pick(s)}]]

\* A nonempty collection of finite sets has one that contains no other of them.
LEMMA Least ==
    ASSUME NEW S, IsFiniteSet(S), NEW C \in SUBSET SUBSET S, C # {}
    PROVE  \E T \in C : \A U \in C : U \subseteq T => U = T
<1>1. C \subseteq FiniteSubsetsOf(S)
  BY FS_FiniteSubsetsOfFinite
<1>2. PICK T \in C : \A U \in C : <<U, T>> \notin StrictSubsetOrdering(S)
  BY <1>1, FS_StrictSubsetOrderingWellFounded, WFMin
<1> QED
  BY <1>2 DEF StrictSubsetOrdering

\* Two such functions agree wherever both are defined.
LEMMA SumsAgree ==
    ASSUME NEW f, NEW S, NEW T, NEW g, NEW h, IsFiniteSet(S),
           Sums(g, f, S), Sums(h, f, T)
    PROVE  \A s \in SUBSET (S \cap T) : g[s] = h[s]
<1> DEFINE C == {s \in SUBSET (S \cap T) : g[s] # h[s]}
<1> SUFFICES ASSUME C # {} PROVE FALSE
  OBVIOUS
<1>1. IsFiniteSet(S \cap T)
  BY FS_Intersection
<1>2. PICK s \in C : \A u \in C : u \subseteq s => u = s
  <2>1. C \in SUBSET SUBSET (S \cap T)
    OBVIOUS
  <2> HIDE DEF C
  <2> QED
    BY <1>1, <2>1, Least
<1>3. s # {}
  BY <1>2 DEF Sums
<1>4. Pick(s) \in s
  BY <1>3 DEF Pick
<1>5. g[s \ {Pick(s)}] = h[s \ {Pick(s)}]
  BY <1>2, <1>4
<1>6. g[s] = f[Pick(s)] + g[s \ {Pick(s)}]
  BY <1>3 DEF Sums
<1>7. h[s] = f[Pick(s)] + h[s \ {Pick(s)}]
  BY <1>3 DEF Sums
<1> QED
  BY <1>2, <1>5, <1>6, <1>7

\* There is one, so the CHOOSE in the recursive definition finds it.
LEMMA SumsExist ==
    ASSUME NEW f, NEW S, IsFiniteSet(S)
    PROVE  \E g : Sums(g, f, S)
<1> DEFINE C == {T \in SUBSET S : ~ \E g : Sums(g, f, T)}
<1> SUFFICES ASSUME C # {} PROVE FALSE
  OBVIOUS
<1>1. PICK T \in C : \A U \in C : U \subseteq T => U = T
  <2>1. C \in SUBSET SUBSET S
    OBVIOUS
  <2> HIDE DEF C
  <2> QED
    BY <2>1, Least
<1>2. IsFiniteSet(T)
  BY FS_Subset
<1> DEFINE part(U) == CHOOSE g : Sums(g, f, U)
           value(s) == IF s = {} THEN 0 ELSE f[Pick(s)] + part(s \ {Pick(s)})[s \ {Pick(s)}]
           whole == [s \in SUBSET T |-> value(s)]
<1>3. \A U \in SUBSET T : U # T => Sums(part(U), f, U)
  BY <1>1
<1>4. ASSUME NEW s \in SUBSET T, s # {}
      PROVE  whole[s \ {Pick(s)}] = part(s \ {Pick(s)})[s \ {Pick(s)}]
  <2> DEFINE u == s \ {Pick(s)}
  <2>1. Pick(s) \in s /\ u \in SUBSET T /\ u # T
    BY <1>4 DEF Pick
  <2>2. Sums(part(u), f, u)
    BY <1>3, <2>1
  <2>3. part(u)[u] = IF u = {} THEN 0 ELSE f[Pick(u)] + part(u)[u \ {Pick(u)}]
    BY <2>2 DEF Sums
  <2>4. CASE u = {}
    BY <2>1, <2>3, <2>4
  <2>5. CASE u # {}
    <3> DEFINE v == u \ {Pick(u)}
    <3>1. v \in SUBSET T /\ v # T /\ v \subseteq u
      BY <2>1
    <3>2. Sums(part(v), f, v)
      BY <1>3, <3>1
    <3>3. IsFiniteSet(u)
      BY <1>2, <2>1, FS_Subset
    <3>4. \A x \in SUBSET (u \cap v) : part(u)[x] = part(v)[x]
      <4> HIDE DEF u, v, part
      <4> QED
        BY <2>2, <3>2, <3>3, SumsAgree
    <3>5. part(u)[v] = part(v)[v]
      BY <3>1, <3>4
    <3>6. whole[u] = f[Pick(u)] + part(v)[v]
      BY <2>1, <2>5
    <3> QED
      BY <2>3, <2>5, <3>5, <3>6
  <2> QED
    BY <2>4, <2>5
<1>5. ASSUME NEW s \in SUBSET T
      PROVE  value(s) = IF s = {} THEN 0 ELSE f[Pick(s)] + whole[s \ {Pick(s)}]
  <2>1. CASE s = {}
    BY <2>1
  <2>2. CASE s # {}
    <3>1. value(s) = f[Pick(s)] + part(s \ {Pick(s)})[s \ {Pick(s)}]
      BY <2>2
    <3> HIDE DEF value, part, whole
    <3> QED
      BY <1>4, <2>2, <3>1
  <2> QED
    BY <2>1, <2>2
<1>6. Sums(whole, f, T)
  <2> DEFINE again == [s \in SUBSET T |-> IF s = {} THEN 0 ELSE f[Pick(s)] + whole[s \ {Pick(s)}]]
  <2>1. whole = again
    <3> HIDE DEF value
    <3> QED
      BY <1>5
  <2> QED
    BY <2>1 DEF Sums
<1> QED
  BY <1>1, <1>6

\* What the library's sum unfolds to, for every finite set.
LEMMA SumUnfolds ==
    ASSUME NEW f, NEW S, IsFiniteSet(S)
    PROVE  SumFunctionOnSet(f, S) =
              IF S = {} THEN 0 ELSE f[Pick(S)] + SumFunctionOnSet(f, S \ {Pick(S)})
<1> DEFINE g == CHOOSE h : Sums(h, f, S)
           R == S \ {Pick(S)}
           r == CHOOSE h : Sums(h, f, R)
<1>1. SumFunctionOnSet(f, S) = g[S] /\ SumFunctionOnSet(f, R) = r[R]
  BY DEF SumFunctionOnSet, FoldFunctionOnSet, MapThenFoldSet, Sums, Pick
<1>2. Sums(g, f, S)
  BY SumsExist
<1>3. IsFiniteSet(R)
  BY FS_Subset
<1>4. Sums(r, f, R)
  <2> HIDE DEF R
  <2> QED
    BY <1>3, SumsExist
<1>5. \A s \in SUBSET (S \cap R) : g[s] = r[s]
  <2> HIDE DEF g, r, R
  <2> QED
    BY <1>2, <1>4, SumsAgree
<1>6. g[S] = IF S = {} THEN 0 ELSE f[Pick(S)] + g[R]
  <2> HIDE DEF g
  <2> QED
    BY <1>2 DEF Sums
<1> QED
  BY <1>1, <1>5, <1>6

\* A sum of naturals is one.
LEMMA SumType ==
    ASSUME NEW f, NEW S, IsFiniteSet(S), \A x \in S : f[x] \in Nat
    PROVE  SumFunctionOnSet(f, S) \in Nat
<1> DEFINE C == {T \in SUBSET S : SumFunctionOnSet(f, T) \notin Nat}
<1> SUFFICES ASSUME C # {} PROVE FALSE
  OBVIOUS
<1>1. PICK T \in C : \A U \in C : U \subseteq T => U = T
  <2>1. C \in SUBSET SUBSET S
    OBVIOUS
  <2> HIDE DEF C
  <2> QED
    BY <2>1, Least
<1>2. IsFiniteSet(T)
  BY FS_Subset
<1>3. T # {}
  <2>1. SumFunctionOnSet(f, {}) = 0
    BY FS_EmptySet, SumUnfolds
  <2>2. SumFunctionOnSet(f, T) \notin Nat
    BY <1>1
  <2> HIDE DEF C
  <2> QED
    BY <2>1, <2>2
<1>4. Pick(T) \in T
  BY <1>3 DEF Pick
<1>5. SumFunctionOnSet(f, T \ {Pick(T)}) \in Nat
  BY <1>1, <1>4
<1>6. SumFunctionOnSet(f, T) = f[Pick(T)] + SumFunctionOnSet(f, T \ {Pick(T)})
  BY <1>2, <1>3, SumUnfolds
<1> QED
  BY <1>1, <1>4, <1>5, <1>6

\* Any element can be taken out of a sum, not only the one that is picked.
LEMMA SumTakes ==
    ASSUME NEW f, NEW S, IsFiniteSet(S), \A x \in S : f[x] \in Nat, NEW e \in S
    PROVE  SumFunctionOnSet(f, S) = f[e] + SumFunctionOnSet(f, S \ {e})
<1> DEFINE takes(T, x) == SumFunctionOnSet(f, T) = f[x] + SumFunctionOnSet(f, T \ {x})
           C == {T \in SUBSET S : \E x \in T : ~ takes(T, x)}
<1> SUFFICES ASSUME C # {} PROVE FALSE
  OBVIOUS
<1>1. PICK T \in C : \A U \in C : U \subseteq T => U = T
  <2>1. C \in SUBSET SUBSET S
    OBVIOUS
  <2> HIDE DEF C
  <2> QED
    BY <2>1, Least
<1>2. PICK x \in T : ~ takes(T, x)
  BY <1>1
<1> DEFINE c == Pick(T)
           R == (T \ {c}) \ {x}
<1>3. c \in T
  BY DEF Pick
<1>4. IsFiniteSet(T) /\ IsFiniteSet(R)
  BY FS_Subset
<1>5. SumFunctionOnSet(f, T) = f[c] + SumFunctionOnSet(f, T \ {c})
  BY <1>2, <1>4, SumUnfolds
<1>6. c # x
  BY <1>2, <1>5
<1>a. ASSUME NEW U \in SUBSET T, U # T, NEW y \in U
      PROVE  takes(U, y)
  BY <1>1, <1>a
<1>7. SumFunctionOnSet(f, T \ {c}) = f[x] + SumFunctionOnSet(f, R)
  <2>1. T \ {c} \in SUBSET T /\ T \ {c} # T /\ x \in T \ {c}
    BY <1>2, <1>3, <1>6
  <2> HIDE DEF c, C
  <2> QED
    BY <1>a, <2>1
<1>8. SumFunctionOnSet(f, T \ {x}) = f[c] + SumFunctionOnSet(f, (T \ {x}) \ {c})
  <2>1. T \ {x} \in SUBSET T /\ T \ {x} # T /\ c \in T \ {x}
    BY <1>2, <1>3, <1>6
  <2> HIDE DEF c, C
  <2> QED
    BY <1>a, <2>1
<1>9. (T \ {x}) \ {c} = R
  OBVIOUS
<1>10. SumFunctionOnSet(f, R) \in Nat /\ f[c] \in Nat /\ f[x] \in Nat
  BY <1>2, <1>3, <1>4, SumType
<1> HIDE DEF c, R
<1> QED
  BY <1>2, <1>5, <1>7, <1>8, <1>9, <1>10

\* Of nothing it is zero.
LEMMA SumEmpty == ASSUME NEW f PROVE SumFunctionOnSet(f, {}) = 0
BY FS_EmptySet, SumUnfolds

\* A sum depends on the values it adds up, and grows with them.
LEMMA SumAgrees ==
    ASSUME NEW f, NEW g, NEW S, IsFiniteSet(S), \A x \in S : f[x] = g[x]
    PROVE  SumFunctionOnSet(f, S) = SumFunctionOnSet(g, S)
<1> DEFINE C == {T \in SUBSET S : SumFunctionOnSet(f, T) # SumFunctionOnSet(g, T)}
<1> SUFFICES ASSUME C # {} PROVE FALSE
  OBVIOUS
<1>1. PICK T \in C : \A U \in C : U \subseteq T => U = T
  <2>1. C \in SUBSET SUBSET S
    OBVIOUS
  <2> HIDE DEF C
  <2> QED
    BY <2>1, Least
<1>2. IsFiniteSet(T)
  BY FS_Subset
<1>3. T # {}
  BY <1>1, SumEmpty
<1>4. Pick(T) \in T
  BY <1>3 DEF Pick
<1>5. SumFunctionOnSet(f, T \ {Pick(T)}) = SumFunctionOnSet(g, T \ {Pick(T)})
  BY <1>1, <1>4
<1>6. /\ SumFunctionOnSet(f, T) = f[Pick(T)] + SumFunctionOnSet(f, T \ {Pick(T)})
      /\ SumFunctionOnSet(g, T) = g[Pick(T)] + SumFunctionOnSet(g, T \ {Pick(T)})
  BY <1>2, <1>3, SumUnfolds
<1>7. f[Pick(T)] = g[Pick(T)]
  BY <1>4
<1> HIDE DEF C
<1>8. SumFunctionOnSet(f, T) = SumFunctionOnSet(g, T)
  BY <1>5, <1>6, <1>7
<1> QED
  BY <1>1, <1>8 DEF C

LEMMA SumGrows ==
    ASSUME NEW f, NEW g, NEW S, IsFiniteSet(S),
           \A x \in S : f[x] \in Nat /\ g[x] \in Nat /\ f[x] <= g[x]
    PROVE  SumFunctionOnSet(f, S) <= SumFunctionOnSet(g, S)
<1> DEFINE C == {T \in SUBSET S : ~ (SumFunctionOnSet(f, T) <= SumFunctionOnSet(g, T))}
<1> SUFFICES ASSUME C # {} PROVE FALSE
  OBVIOUS
<1>1. PICK T \in C : \A U \in C : U \subseteq T => U = T
  <2>1. C \in SUBSET SUBSET S
    OBVIOUS
  <2> HIDE DEF C
  <2> QED
    BY <2>1, Least
<1>2. IsFiniteSet(T)
  BY FS_Subset
<1>3. T # {}
  <2>1. ~ (SumFunctionOnSet(f, T) <= SumFunctionOnSet(g, T))
    BY <1>1
  <2>2. SumFunctionOnSet(f, {}) = 0 /\ SumFunctionOnSet(g, {}) = 0
    BY SumEmpty
  <2> HIDE DEF C
  <2> QED
    BY <2>1, <2>2
<1> DEFINE R == T \ {Pick(T)}
<1>4. Pick(T) \in T /\ IsFiniteSet(R) /\ R \subseteq S
  BY <1>2, <1>3, FS_Subset DEF Pick
<1>5. SumFunctionOnSet(f, R) <= SumFunctionOnSet(g, R)
  BY <1>1, <1>4
<1>6. /\ SumFunctionOnSet(f, T) = f[Pick(T)] + SumFunctionOnSet(f, R)
      /\ SumFunctionOnSet(g, T) = g[Pick(T)] + SumFunctionOnSet(g, R)
  BY <1>2, <1>3, SumUnfolds
<1>7. SumFunctionOnSet(f, R) \in Nat /\ SumFunctionOnSet(g, R) \in Nat
  <2> HIDE DEF R
  <2> QED
    BY <1>4, SumType
<1>8. f[Pick(T)] \in Nat /\ g[Pick(T)] \in Nat /\ f[Pick(T)] <= g[Pick(T)]
  BY <1>4
<1>9. SumFunctionOnSet(f, T) <= SumFunctionOnSet(g, T)
  <2> HIDE DEF R
  <2> QED
    BY <1>5, <1>6, <1>7, <1>8
<1> QED
  BY <1>1, <1>9
-------------------------------------------------------------------------------
KeysOf(r) == Keys(Target(r), request[r].batch.kept)

Vouched(r) == request[r].at = "meter" \/ request[r].status = 202

\* What a request has stored and not metered is vouched for before it is
\* answered; this makes AnsweredIsStored inductive.
VouchedIsStored ==
    \A r \in Request :
        Vouched(r) /\ request[r].batch.kept # <<>> /\ Target(r) \in projects
            => KeysOf(r) \subseteq rows

RequestsOK == request \in [Request -> RequestRecord]

SInv == RequestsOK /\ VouchedIsStored

-------------------------------------------------------------------------------
\* The shape of a step of one request: it becomes something else with the batch
\* it has, and no other request changes.
LEMMA BecomesChanges ==
    ASSUME RequestsOK, NEW r \in Request, NEW at, NEW accepted, NEW status,
           at \in {"free", "lookup", "insert", "meter", "done"}, accepted \in Nat,
           status \in {0, 202, 400, 404, 500}, Becomes(r, at, accepted, status)
    PROVE  /\ RequestsOK'
           /\ \A x \in Request :
                request'[x].batch = request[x].batch /\ Target(x)' = Target(x)
           /\ \A x \in Request : x # r => request'[x] = request[x]
           /\ request'[r].at = at /\ request'[r].status = status
<1>1. request[r] \in RequestRecord /\ request[r].batch \in BatchRecord
  BY DEF RequestsOK, RequestRecord
<1>2. [at |-> at, batch |-> request[r].batch, accepted |-> accepted, status |-> status]
        \in RequestRecord
  BY <1>1 DEF RequestRecord
<1>3. request' = [request EXCEPT ![r] = [at |-> at, batch |-> request[r].batch,
                                          accepted |-> accepted, status |-> status]]
  BY DEF Becomes
<1>4. RequestsOK'
  BY <1>2, <1>3 DEF RequestsOK
<1>5. \A x \in Request : x # r => request'[x] = request[x]
  BY <1>3 DEF RequestsOK
<1>6. request'[r] = [at |-> at, batch |-> request[r].batch,
                     accepted |-> accepted, status |-> status]
  BY <1>3 DEF RequestsOK
<1>7. \A x \in Request : request'[x].batch = request[x].batch
  BY <1>5, <1>6
<1>8. \A x \in Request : Target(x)' = Target(x)
  BY <1>7 DEF Target
<1> QED
  BY <1>4, <1>5, <1>6, <1>7, <1>8

\* A step that vouches for no more requests, and deletes no row of a project
\* that still exists.
LEMMA NothingVouched ==
    ASSUME VouchedIsStored, projects' \subseteq projects,
           \A x \in Request :
              /\ request'[x].batch = request[x].batch /\ Target(x)' = Target(x)
              /\ Vouched(x)' => Vouched(x)
              /\ Target(x) \in projects' => rows \cap KeysOf(x) \subseteq rows'
    PROVE  VouchedIsStored'
BY DEF VouchedIsStored, KeysOf

\* A step of a request that is not thereby vouched for, and keeps the tables.
LEMMA Unvouched ==
    ASSUME SInv, NEW r \in Request, NEW at, NEW accepted, NEW status,
           at \in {"lookup", "insert", "done"}, accepted \in Nat,
           status \in {0, 400, 404, 500}, Becomes(r, at, accepted, status),
           rows \subseteq rows', projects' = projects
    PROVE  SInv'
<1>1. /\ RequestsOK'
      /\ \A x \in Request : request'[x].batch = request[x].batch /\ Target(x)' = Target(x)
      /\ \A x \in Request : x # r => request'[x] = request[x]
      /\ request'[r].at = at /\ request'[r].status = status
  BY BecomesChanges DEF SInv
<1>2. \A x \in Request : Vouched(x)' => Vouched(x)
  BY <1>1 DEF Vouched
<1> QED
  BY <1>1, <1>2, NothingVouched DEF SInv

\* A step of a request that is vouched for: its keys are there.
LEMMA NewlyVouched ==
    ASSUME SInv, NEW r \in Request, NEW at, NEW accepted, NEW status,
           at \in {"meter", "done"}, accepted \in Nat, status \in {0, 202},
           Becomes(r, at, accepted, status),
           request[r].batch.kept = <<>> \/ Target(r) \notin projects \/ KeysOf(r) \subseteq rows',
           rows \subseteq rows', projects' = projects
    PROVE  SInv'
<1>1. /\ RequestsOK'
      /\ \A x \in Request : request'[x].batch = request[x].batch /\ Target(x)' = Target(x)
      /\ \A x \in Request : x # r => request'[x] = request[x]
  BY BecomesChanges DEF SInv
<1>2. \A x \in Request : KeysOf(x)' = KeysOf(x)
  BY <1>1 DEF KeysOf
<1>3. ASSUME NEW x \in Request, Vouched(x)', request'[x].batch.kept # <<>>,
             Target(x)' \in projects'
      PROVE  KeysOf(x)' \subseteq rows'
  <2>1. CASE x = r
    BY <1>1, <1>2, <1>3, <2>1
  <2>2. CASE x # r
    BY <1>1, <1>2, <1>3, <2>2 DEF SInv, VouchedIsStored, Vouched
  <2> QED
    BY <2>1, <2>2
<1> QED
  BY <1>1, <1>3 DEF SInv, VouchedIsStored

-------------------------------------------------------------------------------
\* insertLogEntries leaves every key of the batch in the table.
LEMMA StoreStores ==
    ASSUME NEW r \in Request, Store(r)
    PROVE  KeysOf(r) \subseteq rows' /\ rows \subseteq rows'
BY DEF Store, Fresh, KeysOf

\* What a request accepted is a number.
LEMMA AcceptedNat ==
    ASSUME NEW r \in Request, RequestsOK
    PROVE  request[r].accepted \in Nat
BY DEF RequestsOK, RequestRecord

LEMMA ArriveKeeps ==
    ASSUME SInv, IngestAssumption, NEW r \in Request, NEW b \in Batch, Arrive(r, b)
    PROVE  SInv'
<1> DEFINE new == [at |-> IF b.readable THEN "lookup" ELSE "done", batch |-> b,
                   accepted |-> 0, status |-> IF b.readable THEN 0 ELSE 400]
<1>1. b \in BatchRecord
  BY DEF IngestAssumption
<1>2. new \in RequestRecord
  BY <1>1 DEF RequestRecord
<1>3. request' = [request EXCEPT ![r] = new]
  BY DEF Arrive
<1>4. RequestsOK'
  BY <1>2, <1>3 DEF SInv, RequestsOK
<1>5. \A x \in Request : x # r => request'[x] = request[x]
  BY <1>3 DEF SInv, RequestsOK
<1>6. request'[r] = new
  BY <1>3 DEF SInv, RequestsOK
<1>7. ~Vouched(r)'
  BY <1>6 DEF Vouched
<1>8. rows' = rows /\ projects' = projects
  BY DEF Arrive, tableVars, adminVars
<1>9. ASSUME NEW x \in Request, Vouched(x)', request'[x].batch.kept # <<>>,
             Target(x)' \in projects'
      PROVE  KeysOf(x)' \subseteq rows'
  <2>1. x # r /\ request'[x] = request[x]
    BY <1>5, <1>7, <1>9
  <2> QED
    BY <1>8, <1>9, <2>1 DEF SInv, VouchedIsStored, Vouched, KeysOf, Target
<1> QED
  BY <1>4, <1>9 DEF SInv, VouchedIsStored

LEMMA LookupKeeps ==
    ASSUME SInv, NEW r \in Request, Lookup(r)
    PROVE  SInv'
<1> DEFINE status == Checked(request[r].batch)
<1>1. rows' = rows /\ projects' = projects
  BY DEF Lookup, tableVars, adminVars
<1>2. request[r].accepted \in Nat
  BY AcceptedNat DEF SInv
<1>3. CASE status = 0
  <2>1. Becomes(r, "insert", 0, 0)
    BY <1>3 DEF Lookup
  <2> QED
    BY <1>1, <2>1, Unvouched
<1>4. CASE status # 0
  <2>1. Becomes(r, "done", request[r].accepted, status)
    BY <1>4 DEF Lookup, Answer
  <2>2. status \in {404, 400} \/ (status = 202 /\ request[r].batch.kept = <<>>)
    BY <1>4 DEF Checked
  <2>3. CASE status = 202 /\ request[r].batch.kept = <<>>
    BY <1>1, <1>2, <2>1, <2>3, NewlyVouched
  <2>4. CASE status \in {404, 400}
    BY <1>1, <1>2, <2>1, <2>4, Unvouched
  <2> QED
    BY <2>2, <2>3, <2>4
<1> QED
  BY <1>3, <1>4

LEMMA InsertKeeps ==
    ASSUME SInv, IngestAssumption, NEW r \in Request, Insert(r)
    PROVE  SInv'
<1>1. KeysOf(r) \subseteq rows' /\ rows \subseteq rows' /\ projects' = projects
  BY StoreStores DEF Insert, adminVars
<1>2. Fresh(r) # {} => Accepted(r) \in Nat
  <2>1. IsFiniteSet({Target(r)} \X Entry)
    BY FS_Singleton, FS_Product DEF IngestAssumption
  <2>2. Keys(Target(r), request[r].batch.kept) \subseteq {Target(r)} \X Entry
    BY DEF Keys, SInv, RequestsOK, RequestRecord, BatchRecord
  <2>3. IsFiniteSet(Fresh(r))
    BY <2>1, <2>2, FS_Subset DEF Fresh
  <2> QED
    BY <2>3, FS_CardinalityType DEF Accepted
<1>3. CASE Fresh(r) = {}
  BY <1>1, <1>3, NewlyVouched DEF Insert
<1>4. CASE Fresh(r) # {}
  BY <1>1, <1>2, <1>4, NewlyVouched DEF Insert
<1> QED
  BY <1>3, <1>4

LEMMA MeterKeeps ==
    ASSUME SInv, NEW r \in Request, Meter(r) \/ MeterFails(r)
    PROVE  SInv'
<1>1. rows' = rows /\ projects' = projects /\ request[r].at = "meter" /\ Answer(r, 202)
  BY DEF Meter, MeterFails, adminVars
<1>2. request[r].batch.kept = <<>> \/ Target(r) \notin projects \/ KeysOf(r) \subseteq rows'
  BY <1>1 DEF SInv, VouchedIsStored, Vouched
<1>3. request[r].accepted \in Nat
  BY AcceptedNat DEF SInv
<1> QED
  BY <1>1, <1>2, <1>3, NewlyVouched DEF Answer

LEMMA FailKeeps ==
    ASSUME SInv, NEW r \in Request, Fails(r) \/ InsertLost(r)
    PROVE  SInv'
<1>1. rows \subseteq rows' /\ projects' = projects /\ Answer(r, 500)
  BY StoreStores DEF Fails, InsertLost, tableVars, adminVars
<1>2. request[r].accepted \in Nat
  BY AcceptedNat DEF SInv
<1> QED
  BY <1>1, <1>2, Unvouched DEF Answer

LEMMA DieKeeps ==
    ASSUME SInv, ServerDies
    PROVE  SInv'
<1>1. rows' = rows /\ projects' = projects
  BY DEF ServerDies, tableVars, adminVars
<1>2. ASSUME NEW x \in Request
      PROVE  /\ request'[x] \in RequestRecord
             /\ request'[x].batch = request[x].batch
             /\ request'[x].status = request[x].status
             /\ request'[x].at = "meter" => request[x].at = "meter"
  <2>1. CASE InProgress(x)
    <3>1. request'[x] = [at |-> "done", batch |-> request[x].batch,
                         accepted |-> request[x].accepted, status |-> request[x].status]
      BY <2>1 DEF ServerDies
    <3> QED
      BY <3>1 DEF SInv, RequestsOK, RequestRecord
  <2>2. CASE ~InProgress(x)
    <3>1. request'[x] = request[x]
      BY <2>2 DEF ServerDies
    <3> QED
      BY <3>1 DEF SInv, RequestsOK
  <2> QED
    BY <2>1, <2>2
<1>3. RequestsOK'
  <2>1. request' = [x \in Request |-> request'[x]]
    BY DEF ServerDies
  <2> QED
    BY <1>2, <2>1 DEF RequestsOK
<1>4. \A x \in Request : Target(x)' = Target(x) /\ (Vouched(x)' => Vouched(x))
  BY <1>2 DEF Target, Vouched
<1>5. VouchedIsStored'
  BY <1>1, <1>2, <1>4, NothingVouched DEF SInv
<1> QED
  BY <1>3, <1>5 DEF SInv

\* A deletion spares the rows of every project that still exists.
LEMMA AdministerKeeps ==
    ASSUME SInv, Administer
    PROVE  SInv'
<1>1. UNCHANGED request
  BY DEF Administer, DeleteSource, DeleteEntries, DeleteProject, RollBack
<1>2. projects' \subseteq projects
  BY DEF Administer, DeleteSource, DeleteEntries, DeleteProject, RollBack
<1>3. ASSUME NEW x \in Request, Target(x) \in projects'
      PROVE  rows \cap KeysOf(x) \subseteq rows'
  <2>1. CASE \E p \in Project : DeleteProject(p)
    <3>1. PICK p \in Project : DeleteProject(p)
      BY <2>1
    <3>2. Target(x) # p
      BY <1>3, <3>1 DEF DeleteProject
    <3>3. \A k \in KeysOf(x) : k[1] = Target(x)
      BY DEF KeysOf, Keys
    <3> QED
      BY <3>1, <3>2, <3>3 DEF DeleteProject, RowsOf
  <2>2. CASE ~\E p \in Project : DeleteProject(p)
    <3>1. rows' = rows
      BY <2>2 DEF Administer, DeleteSource, DeleteEntries, RollBack, tableVars
    <3> QED
      BY <3>1
  <2> QED
    BY <2>1, <2>2
<1>4. VouchedIsStored'
  <2>1. \A x \in Request : request'[x].batch = request[x].batch /\ Target(x)' = Target(x)
                            /\ (Vouched(x)' => Vouched(x))
    BY <1>1 DEF Target, Vouched
  <2>2. \A x \in Request : Target(x) \in projects' => rows \cap KeysOf(x) \subseteq rows'
    BY <1>3
  <2> QED
    BY <1>2, <2>1, <2>2, NothingVouched DEF SInv
<1> QED
  BY <1>1, <1>4 DEF SInv, RequestsOK

LEMMA UnchangedKeeps ==
    ASSUME SInv, UNCHANGED <<request, rows, projects>>
    PROVE  SInv'
BY DEF SInv, RequestsOK, VouchedIsStored, Vouched, KeysOf, Target

-------------------------------------------------------------------------------
LEMMA StartsStored == Init => SInv
<1> SUFFICES ASSUME Init PROVE SInv
  OBVIOUS
<1>1. request = [r \in Request |-> Idle]
  BY DEF Init, IngestInit
<1>2. Idle \in RequestRecord
  BY DEF Idle, NoBatch, RequestRecord, BatchRecord
<1>3. RequestsOK
  BY <1>1, <1>2 DEF RequestsOK
<1>4. \A r \in Request : ~Vouched(r)
  BY <1>1 DEF Vouched, Idle
<1> QED
  BY <1>3, <1>4 DEF SInv, VouchedIsStored

LEMMA StepKeepsStored == IngestAssumption /\ SInv /\ [Next]_vars => SInv'
<1> SUFFICES ASSUME IngestAssumption, SInv, [Next]_vars PROVE SInv'
  OBVIOUS
<1>1. CASE Serve
  BY <1>1, ArriveKeeps, LookupKeeps, InsertKeeps, MeterKeeps DEF Serve
<1>2. CASE Fail
  BY <1>2, FailKeeps, MeterKeeps DEF Fail
<1>3. CASE Administer
  BY <1>3, AdministerKeeps
<1>4. CASE Die
  BY <1>4, DieKeeps DEF Die
<1>5. CASE Tick \/ PushStart \/ PushRead \/ PushPost \/ PushFails
  <2>1. UNCHANGED <<request, rows, projects>>
    BY <1>5 DEF Tick, PushStart, PushRead, PushPost, PushFails, ingestVars, tableVars, adminVars
  <2> QED
    BY <2>1, UnchangedKeeps
<1>6. CASE UNCHANGED vars
  <2>1. UNCHANGED <<request, rows, projects>>
    BY <1>6 DEF vars, ingestVars, tableVars, adminVars
  <2> QED
    BY <2>1, UnchangedKeeps
<1> QED
  BY <1>1, <1>2, <1>3, <1>4, <1>5, <1>6 DEF Next

\* A client that is told 202 may forget its batch (AnsweredIsStored): what it
\* sent is in log_entries, or the project it belonged to is gone.
THEOREM AnsweredIsStoredHolds == Spec => []AnsweredIsStored
<1>1. IngestAssumption
  BY IngestAssumption
<1>2. SInv => AnsweredIsStored
  BY DEF SInv, VouchedIsStored, AnsweredIsStored, Vouched, KeysOf
<1>3. SInv /\ [Next]_vars => SInv'
  BY <1>1, StepKeepsStored
<1> QED
  BY StartsStored, <1>2, <1>3, PTL DEF Spec

-------------------------------------------------------------------------------
(* Type correctness.                                                       *)

\* A request past the lookup has a key that names a source and a batch of
\* admissible size; the clock's day is the day of its hour.
Located ==
    \A r \in Request : request[r].at \in {"insert", "meter"} =>
        /\ request[r].batch.key \in Source
        /\ Len(request[r].batch.kept) <= MaxBatchEntries

Assumed == IngestAssumption /\ MeteringAssumption

MInv ==
    /\ TypeOK /\ RequestsOK /\ Located
    /\ day = DayOf(hour)
    /\ posting > 0 => job # <<>>

\* The part of it that speaks of requests.
Served ==
    /\ RequestsOK /\ Located
    /\ \A r \in Request :
          /\ request[r].batch \in Batch \cup {NoBatch}
          /\ request[r].accepted <= MaxBatchEntries

\* The request of a step stays well typed and, past the lookup, located.
LEMMA BecomesServed ==
    ASSUME Served, NEW r \in Request, NEW at, NEW accepted, NEW status,
           at \in {"free", "lookup", "insert", "meter", "done"}, accepted \in Nat,
           status \in {0, 202, 400, 404, 500}, accepted <= MaxBatchEntries,
           at \in {"insert", "meter"} =>
               /\ request[r].batch.key \in Source
               /\ Len(request[r].batch.kept) <= MaxBatchEntries,
           Becomes(r, at, accepted, status)
    PROVE  Served'
<1>1. /\ RequestsOK'
      /\ \A x \in Request : request'[x].batch = request[x].batch
      /\ \A x \in Request : x # r => request'[x] = request[x]
      /\ request'[r].at = at
  BY BecomesChanges DEF Served
<1>2. request'[r].accepted = accepted
  BY DEF Becomes, Served, RequestsOK
<1>3. Located'
  BY <1>1 DEF Located, Served
<1> QED
  BY <1>1, <1>2, <1>3 DEF Served

\* The keys a batch adds are no more than its entries.
LEMMA FreshIsFew ==
    ASSUME IngestAssumption, RequestsOK, NEW r \in Request,
           Len(request[r].batch.kept) <= MaxBatchEntries
    PROVE  /\ IsFiniteSet(Fresh(r)) /\ Accepted(r) \in Nat
           /\ Accepted(r) <= MaxBatchEntries
           /\ (Fresh(r) = {} => Accepted(r) = 0)
<1> DEFINE kept == request[r].batch.kept
           keys == Keys(Target(r), kept)
           f == [i \in 1..Len(kept) |-> <<Target(r), kept[i]>>]
<1>1. kept \in Seq(Entry)
  BY DEF RequestsOK, RequestRecord, BatchRecord
<1>2. Len(kept) \in Nat
  BY <1>1
<1>3. f \in Surjection(1..Len(kept), keys)
  <2>1. f \in [1..Len(kept) -> keys]
    BY DEF Keys
  <2>2. \A k \in keys : \E i \in 1..Len(kept) : f[i] = k
    BY DEF Keys
  <2> HIDE DEF f, keys
  <2> QED
    BY <2>1, <2>2 DEF Surjection
<1>4. IsFiniteSet(1..Len(kept)) /\ Cardinality(1..Len(kept)) = Len(kept)
  <2> DEFINE n == Len(kept)
  <2>1. n \in Nat
    BY <1>2
  <2> HIDE DEF n, kept, keys, f
  <2>2. IsFiniteSet(1..n) /\ Cardinality(1..n) = IF 1 > n THEN 0 ELSE n - 1 + 1
    BY <2>1, FS_Interval
  <2>3. IsFiniteSet(1..n) /\ Cardinality(1..n) = n
    BY <2>1, <2>2
  <2> QED
    BY <2>3 DEF n
<1>5. IsFiniteSet(keys) /\ Cardinality(keys) <= Len(kept)
  <2> HIDE DEF f, keys, kept
  <2> QED
    BY <1>3, <1>4, FS_Surjection
<1>6. Fresh(r) \in SUBSET keys
  BY DEF Fresh
<1>7. IsFiniteSet(Fresh(r)) /\ Cardinality(Fresh(r)) <= Cardinality(keys)
  <2> HIDE DEF keys
  <2> QED
    BY <1>5, <1>6, FS_Subset
<1>8. Cardinality(Fresh(r)) \in Nat /\ Cardinality(keys) \in Nat
  <2> HIDE DEF keys
  <2> QED
    BY <1>5, <1>7, FS_CardinalityType
<1>9. MaxBatchEntries \in Nat
  BY DEF IngestAssumption
<1>10. Fresh(r) = {} => Cardinality(Fresh(r)) = 0
  BY FS_EmptySet
<1> HIDE DEF keys, f
<1> QED
  BY <1>2, <1>5, <1>7, <1>8, <1>9, <1>10 DEF Accepted

LEMMA ServedOfType == TypeOK /\ RequestsOK /\ Located => Served
BY DEF TypeOK, IngestTypeOK, Served

\* insertLogEntries keeps the tables well typed.
LEMMA StoreTypes ==
    ASSUME IngestAssumption, TypeOK, RequestsOK, NEW r \in Request,
           request[r].batch.key \in Source,
           Len(request[r].batch.kept) <= MaxBatchEntries, Store(r)
    PROVE  /\ rows' \subseteq Key /\ rows \subseteq rows'
           /\ inserted' \in [Project -> Nat]
           /\ Target(r) \in Project
           /\ inserted' = [inserted EXCEPT ![Target(r)] = @ + Accepted(r)]
<1>1. Target(r) \in Project
  BY DEF Target, IngestAssumption
<1>2. request[r].batch.kept \in Seq(Entry)
  BY DEF RequestsOK, RequestRecord, BatchRecord
<1>3. Keys(Target(r), request[r].batch.kept) \subseteq Key
  BY <1>1, <1>2 DEF Keys, Key
<1>4. Accepted(r) \in Nat
  BY FreshIsFew
<1>5. inserted' = [inserted EXCEPT ![Target(r)] = @ + Accepted(r)]
  BY DEF Store, Accepted
<1>6. inserted \in [Project -> Nat] /\ rows \subseteq Key
  BY DEF TypeOK, IngestTypeOK
<1>7. inserted' \in [Project -> Nat]
  <2>1. inserted[Target(r)] + Accepted(r) \in Nat
    BY <1>1, <1>4, <1>6
  <2> QED
    BY <1>5, <1>6, <2>1
<1> QED
  BY <1>1, <1>3, <1>5, <1>6, <1>7 DEF Store, Fresh

\* recordUsage keeps them so too.
LEMMA MeteredTypes ==
    ASSUME TypeOK, RequestsOK, NEW r \in Request, Metered(r)
    PROVE  usage' \in [Project -> [Day -> Nat]]
<1>1. usage \in [Project -> [Day -> Nat]] /\ day \in Day /\ projects \subseteq Project
  BY DEF TypeOK, IngestTypeOK
<1>2. request[r].accepted \in Nat
  BY AcceptedNat
<1>3. CASE Target(r) \notin projects
  BY <1>1, <1>3 DEF Metered
<1>4. CASE Target(r) \in projects
  <2>1. usage' = [usage EXCEPT ![Target(r)] =
                    [usage[Target(r)] EXCEPT ![day] = usage[Target(r)][day] + request[r].accepted]]
    BY <1>4 DEF Metered
  <2>2. usage[Target(r)] \in [Day -> Nat]
    BY <1>1, <1>4
  <2>3. usage[Target(r)][day] + request[r].accepted \in Nat
    BY <1>1, <1>2, <2>2
  <2>4. [usage[Target(r)] EXCEPT ![day] = usage[Target(r)][day] + request[r].accepted]
            \in [Day -> Nat]
    BY <2>2, <2>3
  <2> QED
    BY <1>1, <1>4, <2>1, <2>4
<1> QED
  BY <1>3, <1>4

\* The types of the push and of everything a request does not touch.
LEMMA RestTyped ==
    ASSUME TypeOK, RequestsOK', Located', Served',
           rows' \subseteq Key, rows \subseteq rows',
           usage' \in [Project -> [Day -> Nat]], inserted' \in [Project -> Nat],
           fault' \in BOOLEAN, UNCHANGED <<adminVars, day, pushVars>>
    PROVE  TypeOK'
<1>1. IngestTypeOK'
  <2>1. DOMAIN request' = Request /\ \A r \in Request : request'[r] \in RequestRecord
    BY DEF RequestsOK
  <2>2. \A r \in Request : /\ request'[r].batch \in Batch \cup {NoBatch}
                           /\ request'[r].accepted <= MaxBatchEntries
    BY DEF Served
  <2>3. UNCHANGED <<projects, sources, deleting, doomed, day>>
    BY DEF adminVars
  <2>4. IngestTypeOK
    BY DEF TypeOK
  <2> QED
    BY <2>1, <2>2, <2>3, <2>4 DEF IngestTypeOK
<1> QED
  BY <1>1 DEF TypeOK, pushVars

LEMMA RequestTyped ==
    ASSUME Assumed, MInv, NEW r \in Request,
           \/ \E b \in Batch : Arrive(r, b)
           \/ Lookup(r) \/ Insert(r) \/ Meter(r)
           \/ Fails(r) \/ InsertLost(r) \/ MeterFails(r),
           UNCHANGED pushVars
    PROVE  MInv'
<1>1. TypeOK /\ RequestsOK /\ Located /\ Served
  BY ServedOfType DEF MInv
<1>2. MaxBatchEntries \in Nat \ {0}
  BY DEF Assumed, IngestAssumption
<1>3. request[r].accepted \in Nat /\ request[r].accepted <= MaxBatchEntries
  BY <1>1, AcceptedNat DEF Served
<1>4. UNCHANGED <<adminVars, day>>
  BY DEF Arrive, Lookup, Insert, Meter, Fails, InsertLost, MeterFails
<1>5. fault' \in BOOLEAN
  BY <1>1 DEF TypeOK, IngestTypeOK, Arrive, Lookup, Insert, Meter, Fails, InsertLost, MeterFails
<1>6. request[r].at = "insert" =>
          /\ request[r].batch.key \in Source
          /\ Len(request[r].batch.kept) <= MaxBatchEntries
  BY <1>1 DEF Located
<1>7. /\ rows' \subseteq Key /\ rows \subseteq rows'
      /\ inserted' \in [Project -> Nat]
  <2>1. CASE Insert(r) \/ InsertLost(r)
    <3>1. request[r].at = "insert" /\ Store(r)
      BY <2>1 DEF Insert, InsertLost
    <3> QED
      BY <1>1, <1>6, <3>1, StoreTypes DEF Assumed
  <2>2. CASE ~(Insert(r) \/ InsertLost(r))
    <3>1. rows' = rows /\ inserted' = inserted
      BY <2>2 DEF Arrive, Lookup, Meter, Fails, MeterFails, tableVars
    <3> QED
      BY <1>1, <3>1 DEF TypeOK, IngestTypeOK
  <2> QED
    BY <2>1, <2>2
<1>8. usage' \in [Project -> [Day -> Nat]]
  <2>1. usage' = usage \/ Metered(r)
    BY DEF Arrive, Lookup, Insert, Meter, Fails, InsertLost, MeterFails, tableVars
  <2>2. usage \in [Project -> [Day -> Nat]]
    BY <1>1 DEF TypeOK, IngestTypeOK
  <2> QED
    BY <1>1, <2>1, <2>2, MeteredTypes
<1>9. Served'
  <2>1. CASE \E b \in Batch : Arrive(r, b)
    <3>1. PICK b \in Batch : Arrive(r, b)
      BY <2>1
    <3> DEFINE new == [at |-> IF b.readable THEN "lookup" ELSE "done", batch |-> b,
                       accepted |-> 0, status |-> IF b.readable THEN 0 ELSE 400]
    <3>2. new \in RequestRecord /\ new.batch = b /\ new.accepted = 0
          /\ new.at \notin {"insert", "meter"}
      BY DEF Assumed, IngestAssumption, RequestRecord
    <3>3. request' = [request EXCEPT ![r] = new]
      BY <3>1 DEF Arrive
    <3> HIDE DEF new
    <3> QED
      BY <1>1, <1>2, <3>2, <3>3 DEF Served, RequestsOK, Located
  <2>2. CASE Lookup(r)
    <3> DEFINE status == Checked(request[r].batch)
    <3>1. CASE status = 0
      <4>1. Becomes(r, "insert", 0, 0)
        BY <2>2, <3>1 DEF Lookup
      <4>2. /\ request[r].batch.key \in Source
            /\ Len(request[r].batch.kept) <= MaxBatchEntries
        <5>1. request[r].batch.key \in sources /\ ~(Len(request[r].batch.kept) > MaxBatchEntries)
          BY <3>1 DEF Checked
        <5>2. request[r].batch.kept \in Seq(Entry)
          BY <1>1 DEF RequestsOK, RequestRecord, BatchRecord
        <5> QED
          BY <1>1, <1>2, <5>1, <5>2 DEF TypeOK, IngestTypeOK
      <4> QED
        BY <1>1, <1>2, <4>1, <4>2, BecomesServed
    <3>2. CASE status # 0
      <4>1. Becomes(r, "done", request[r].accepted, status)
        BY <2>2, <3>2 DEF Lookup, Answer
      <4>2. status \in {0, 202, 400, 404, 500}
        BY DEF Checked
      <4> HIDE DEF status
      <4> QED
        BY <1>1, <1>3, <4>1, <4>2, BecomesServed
    <3> QED
      BY <3>1, <3>2
  <2>3. CASE Insert(r)
    <3>1. Accepted(r) \in Nat /\ Accepted(r) <= MaxBatchEntries
      BY <1>1, <1>6, <2>3, FreshIsFew DEF Insert, Assumed
    <3>2. Becomes(r, "done", 0, 202) \/ Becomes(r, "meter", Accepted(r), 0)
      BY <2>3 DEF Insert
    <3> QED
      BY <1>1, <1>2, <1>6, <2>3, <3>1, <3>2, BecomesServed DEF Insert
  <2>4. CASE Meter(r) \/ MeterFails(r) \/ Fails(r) \/ InsertLost(r)
    <3>1. Answer(r, 202) \/ Answer(r, 500)
      BY <2>4 DEF Meter, MeterFails, Fails, InsertLost
    <3> QED
      BY <1>1, <1>3, <3>1, BecomesServed DEF Answer
  <2> QED
    BY <2>1, <2>2, <2>3, <2>4
<1>10. RequestsOK' /\ Located'
  BY <1>9 DEF Served
<1>11. TypeOK'
  BY <1>1, <1>4, <1>5, <1>7, <1>8, <1>9, <1>10, RestTyped
<1> QED
  BY <1>4, <1>10, <1>11 DEF MInv, pushVars, DayOf

LEMMA DieTyped ==
    ASSUME MInv, Die
    PROVE  MInv'
<1>1. TypeOK /\ RequestsOK /\ Located /\ Served
  BY ServedOfType DEF MInv
<1>2. ASSUME NEW x \in Request
      PROVE  /\ request'[x] \in RequestRecord
             /\ request'[x].batch = request[x].batch
             /\ request'[x].accepted = request[x].accepted
             /\ request'[x].at \notin {"insert", "meter"}
  <2>1. request[x] \in RequestRecord
    BY <1>1 DEF RequestsOK
  <2>2. CASE InProgress(x)
    <3>1. request'[x] = [at |-> "done", batch |-> request[x].batch,
                         accepted |-> request[x].accepted, status |-> request[x].status]
      BY <2>2 DEF Die, ServerDies
    <3> QED
      BY <2>1, <3>1 DEF RequestRecord
  <2>3. CASE ~InProgress(x)
    <3>1. request'[x] = request[x]
      BY <2>3 DEF Die, ServerDies
    <3> QED
      BY <2>1, <2>3, <3>1 DEF InProgress
  <2> QED
    BY <2>2, <2>3
<1>3. request' = [x \in Request |-> request'[x]]
  BY DEF Die, ServerDies
<1>4. RequestsOK' /\ Located'
  BY <1>2, <1>3 DEF RequestsOK, Located
<1>5. DOMAIN request' = Request
  BY <1>3
<1>6. \A x \in Request : /\ request'[x].batch \in Batch \cup {NoBatch}
                         /\ request'[x].accepted <= MaxBatchEntries
  BY <1>1, <1>2 DEF Served
<1>7. UNCHANGED <<rows, usage, inserted, projects, sources, deleting, doomed, day, hour,
                  billed, seen>>
  BY DEF Die, ServerDies, tableVars, adminVars
<1>8. fault' \in BOOLEAN /\ job' = <<>> /\ posting' = 0 /\ due' \in BOOLEAN
  BY DEF Die, ServerDies
<1>9. IngestTypeOK'
  <2>1. IngestTypeOK
    BY <1>1 DEF TypeOK
  <2> QED
    BY <1>2, <1>5, <1>6, <1>7, <1>8, <2>1 DEF IngestTypeOK
<1>10. TypeOK'
  <2>1. <<>> \in Seq(Day) /\ Len(<<>>) <= 2
    OBVIOUS
  <2> QED
    BY <1>1, <1>7, <1>8, <1>9, <2>1 DEF TypeOK
<1> QED
  BY <1>4, <1>7, <1>8, <1>10 DEF MInv, DayOf

LEMMA AdministerTyped ==
    ASSUME MInv, Administer, UNCHANGED pushVars
    PROVE  MInv'
<1>1. UNCHANGED <<request, usage, inserted, day, fault>>
  BY DEF Administer, DeleteSource, DeleteEntries, DeleteProject, RollBack, tableVars
<1>2. IngestTypeOK
  BY DEF MInv, TypeOK
<1> DEFINE tables == /\ rows \subseteq Key
                     /\ projects \subseteq Project /\ sources \subseteq Source
                     /\ deleting \subseteq projects /\ doomed \subseteq rows
<1>3. tables'
  <2>1. CASE \E s \in Source : DeleteSource(s)
    BY <1>2, <2>1 DEF DeleteSource, IngestTypeOK, tableVars
  <2>2. ASSUME NEW p \in Project, DeleteEntries(p)
        PROVE  tables'
    BY <1>2, <2>2 DEF DeleteEntries, IngestTypeOK, tableVars, RowsOf
  <2>3. ASSUME NEW p \in Project, DeleteProject(p)
        PROVE  tables'
    BY <1>2, <2>3 DEF DeleteProject, IngestTypeOK, RowsOf, Ended
  <2>4. ASSUME NEW p \in Project, RollBack(p)
        PROVE  tables'
    BY <1>2, <2>4 DEF RollBack, IngestTypeOK, RowsOf, Ended, tableVars
  <2> QED
    BY <2>1, <2>2, <2>3, <2>4 DEF Administer
<1>4. RequestsOK' /\ Located'
  BY <1>1 DEF MInv, RequestsOK, Located
<1>5. IngestTypeOK'
  BY <1>1, <1>2, <1>3 DEF IngestTypeOK
<1>6. TypeOK'
  BY <1>5 DEF MInv, TypeOK, pushVars
<1> QED
  BY <1>1, <1>4, <1>6 DEF MInv, pushVars, DayOf

\* The day of an hour, and when a day starts and ends.
LEMMA DayBounds ==
    ASSUME MeteringAssumption, NEW h \in Nat
    PROVE  /\ DayOf(h) \in Nat \ {0}
           /\ HoursPerDay * (DayOf(h) - 1) <= h
           /\ h < HoursPerDay * DayOf(h)
<1>1. HoursPerDay \in Nat \ {0}
  BY DEF MeteringAssumption
<1>2. /\ (h \div HoursPerDay) \in Nat
      /\ HoursPerDay * (h \div HoursPerDay) <= h
      /\ h < HoursPerDay * ((h \div HoursPerDay) + 1)
  BY <1>1
<1> DEFINE q == h \div HoursPerDay
<1>3. DayOf(h) = q + 1 /\ q \in Nat
  BY <1>2 DEF DayOf
<1> HIDE DEF q
<1>4. DayOf(h) - 1 = q
  BY <1>3
<1> QED
  BY <1>2, <1>3, <1>4 DEF q

\* The little multiplication that days and hours need.
LEMMA Times ==
    ASSUME NEW n \in Nat, NEW a \in Int, NEW b \in Int, a <= b
    PROVE  n * a <= n * b
OBVIOUS

LEMMA TimesInt ==
    ASSUME NEW n \in Nat, NEW a \in Int
    PROVE  n * a \in Int
OBVIOUS

LEMMA TimesLess ==
    ASSUME NEW n \in Nat \ {0}, NEW a \in Int, NEW b \in Int, n * a < n * b
    PROVE  a < b
OBVIOUS

\* The day of an hour within bounds is within bounds.
LEMMA DayInRange ==
    ASSUME Assumed, NEW h \in 0..MaxHour
    PROVE  DayOf(h) \in Day
<1>1. HoursPerDay \in Nat \ {0} /\ MaxDay \in Nat \ {0}
  BY DEF Assumed, IngestAssumption, MeteringAssumption
<1>2. h \in Nat /\ h <= HoursPerDay * MaxDay - 1
  BY <1>1, TimesInt DEF MaxHour
<1>3. DayOf(h) \in Nat \ {0} /\ HoursPerDay * (DayOf(h) - 1) <= h
  BY <1>2, DayBounds DEF Assumed
<1>4. HoursPerDay * (DayOf(h) - 1) < HoursPerDay * MaxDay
  <2>1. HoursPerDay * (DayOf(h) - 1) \in Int /\ HoursPerDay * MaxDay \in Int
    BY <1>1, <1>3, TimesInt
  <2> DEFINE a == HoursPerDay * (DayOf(h) - 1)
             b == HoursPerDay * MaxDay
  <2>2. a <= h /\ h <= b - 1
    BY <1>2, <1>3
  <2> HIDE DEF a, b
  <2>3. a < b
    BY <1>2, <2>1, <2>2 DEF a, b
  <2> QED
    BY <2>3 DEF a, b
<1>5. DayOf(h) - 1 < MaxDay
  BY <1>1, <1>3, <1>4, TimesLess
<1> QED
  BY <1>1, <1>3, <1>5 DEF Day

LEMMA PushTyped ==
    ASSUME Assumed, MInv, Tick \/ PushStart \/ PushRead \/ PushPost \/ PushFails
    PROVE  MInv'
<1>1. UNCHANGED <<rows, usage, inserted, projects, sources, deleting, doomed, request>>
  BY DEF Tick, PushStart, PushRead, PushPost, PushFails, ingestVars, tableVars, adminVars
<1>2. fault' \in BOOLEAN
  BY DEF MInv, TypeOK, IngestTypeOK, Tick, PushStart, PushRead, PushPost, PushFails, ingestVars
<1>3. day \in Day /\ hour \in 0..MaxHour /\ day = DayOf(hour) /\ MaxHour \in Int
  <2>1. MaxHour \in Int
    BY TimesInt DEF MaxHour, Assumed, IngestAssumption, MeteringAssumption
  <2> QED
    BY <2>1 DEF MInv, TypeOK, IngestTypeOK
<1>4. hour' \in 0..MaxHour /\ day' \in Day /\ day' = DayOf(hour')
  <2>1. CASE Tick
    <3>1. hour' \in 0..MaxHour /\ day' = DayOf(hour')
      BY <1>3, <2>1 DEF Tick
    <3> QED
      BY <3>1, DayInRange
  <2>2. CASE ~Tick
    <3>1. hour' = hour /\ day' = day
      BY <2>2 DEF PushStart, PushRead, PushPost, PushFails, ingestVars
    <3> QED
      BY <1>3, <3>1 DEF DayOf
  <2> QED
    BY <2>1, <2>2
<1>5. RequestsOK' /\ Located'
  BY <1>1 DEF MInv, RequestsOK, Located
<1>6. IngestTypeOK'
  BY <1>1, <1>2, <1>4 DEF MInv, TypeOK, IngestTypeOK
<1>7. /\ TypeOK /\ job \in Seq(Day) /\ Len(job) <= 2 /\ posting \in Nat
      /\ \A d \in Day : Total(d) \in Nat
  <2>1. \A d \in Day : Total(d) \in Nat
    <3>1. IsFiniteSet(Project)
      BY DEF Assumed, IngestAssumption
    <3> TAKE d \in Day
    <3> DEFINE f == [p \in Project |-> usage[p][d]]
    <3>2. \A p \in Project : f[p] \in Nat
      BY DEF MInv, TypeOK, IngestTypeOK
    <3> HIDE DEF f
    <3>3. SumFunctionOnSet(f, Project) \in Nat
      BY <3>1, <3>2, SumType
    <3> QED
      BY <3>3 DEF Total, f
  <2> QED
    BY <2>1 DEF MInv, TypeOK
<1>8. job # <<>> => /\ Head(job) \in Day /\ Tail(job) \in Seq(Day)
                    /\ Len(Tail(job)) <= 2
  BY <1>7
<1>9. due' \in BOOLEAN /\ job' \in Seq(Day) /\ Len(job') <= 2
  <2>1. CASE PushStart
    <3>1. day > 1 => day - 1 \in Day
      BY <1>3 DEF Day, Assumed, IngestAssumption
    <3>2. due' \in BOOLEAN
      BY <2>1 DEF PushStart
    <3>3. CASE day > 1
      <4>1. job' = <<day - 1, day>>
        BY <2>1, <3>3 DEF PushStart
      <4> QED
        BY <1>3, <3>1, <3>2, <3>3, <4>1
    <3>4. CASE ~(day > 1)
      <4>1. job' = <<day>>
        BY <2>1, <3>4 DEF PushStart
      <4> QED
        BY <1>3, <3>2, <4>1
    <3> QED
      BY <3>3, <3>4
  <2>2. CASE ~PushStart
    <3>1. job' = job \/ (job' = Tail(job) /\ job # <<>>)
      BY <2>2 DEF MInv, Tick, PushRead, PushPost, PushFails, Posted
    <3>2. due' \in BOOLEAN
      BY <1>7, <2>2 DEF TypeOK, Tick, PushRead, PushPost, PushFails
    <3> QED
      BY <1>7, <1>8, <3>1, <3>2
  <2> QED
    BY <2>1, <2>2
<1>10. posting' \in Nat /\ (posting' > 0 => job' # <<>>)
  <2>1. CASE Tick \/ PushStart
    <3>1. posting' = posting
      BY <2>1 DEF Tick, PushStart
    <3>2. posting > 0 => job' # <<>>
      BY <2>1 DEF MInv, Tick, PushStart
    <3> QED
      BY <1>7, <3>1, <3>2
  <2>2. CASE PushRead
    <3>1. posting' = Total(Head(job)) /\ job # <<>> /\ (posting' # 0 => job' = job)
      BY <2>2 DEF PushRead
    <3> QED
      BY <1>7, <1>8, <3>1
  <2>3. CASE PushPost \/ PushFails
    BY <2>3 DEF PushPost, PushFails, Posted
  <2> QED
    BY <2>1, <2>2, <2>3
<1>11. billed' \in [Day -> Nat] /\ seen' \in [Day -> Never..MaxHour]
  <2>1. billed \in [Day -> Nat] /\ seen \in [Day -> Never..MaxHour]
    BY <1>7 DEF TypeOK
  <2>2. CASE PushPost
    <3>1. job # <<>>
      BY <2>2 DEF MInv, PushPost
    <3>2. CASE Known(Head(job))
      BY <2>1, <2>2, <3>2 DEF PushPost, Taken
    <3>3. CASE ~Known(Head(job))
      <4>1. /\ billed' = [billed EXCEPT ![Head(job)] = billed[Head(job)] + posting]
            /\ seen' = [seen EXCEPT ![Head(job)] = hour]
        BY <2>2, <3>3 DEF PushPost, Taken
      <4>2. hour \in Never..MaxHour
        BY <1>3 DEF Never
      <4>3. billed[Head(job)] + posting \in Nat
        BY <1>7, <1>8, <2>1, <3>1
      <4> QED
        BY <1>8, <2>1, <3>1, <4>1, <4>2, <4>3
    <3> QED
      BY <3>2, <3>3
  <2>3. CASE ~PushPost
    BY <2>1, <2>3 DEF Tick, PushStart, PushRead, PushFails
  <2> QED
    BY <2>2, <2>3
<1> QED
  BY <1>4, <1>5, <1>6, <1>9, <1>10, <1>11 DEF MInv, TypeOK

LEMMA StartsTyped == Assumed /\ Init => MInv
<1> SUFFICES ASSUME Assumed, Init PROVE MInv
  OBVIOUS
<1>1. MaxDay \in Nat \ {0} /\ HoursPerDay \in Nat \ {0} /\ MaxBatchEntries \in Nat \ {0}
  BY DEF Assumed, IngestAssumption, MeteringAssumption
<1>2. Idle \in RequestRecord
  BY DEF Idle, NoBatch, RequestRecord, BatchRecord
<1>3. RequestsOK /\ Located
  BY <1>2 DEF Init, IngestInit, RequestsOK, Located, Idle
<1>4. 1 \in Day
  BY <1>1 DEF Day
<1>5. IngestTypeOK
  <2>1. /\ rows = {} /\ projects = Project /\ sources = Source /\ deleting = {} /\ doomed = {}
        /\ day = 1 /\ fault = FALSE /\ DOMAIN request = Request
    BY DEF Init, IngestInit
  <2>2. usage \in [Project -> [Day -> Nat]] /\ inserted \in [Project -> Nat]
    BY DEF Init, IngestInit
  <2>3. \A r \in Request : request[r] = Idle
    BY DEF Init, IngestInit
  <2>4. Idle.batch = NoBatch /\ Idle.accepted = 0
    BY DEF Idle
  <2>5. 0 <= MaxBatchEntries
    BY <1>1
  <2> QED
    BY <1>2, <1>4, <2>1, <2>2, <2>3, <2>4, <2>5 DEF IngestTypeOK
<1>6. 0 \in 0..MaxHour /\ Never \in Never..MaxHour
  <2>1. HoursPerDay * MaxDay >= 1
    BY <1>1
  <2>2. HoursPerDay * MaxDay \in Int
    BY <1>1
  <2> DEFINE n == HoursPerDay * MaxDay
  <2> HIDE DEF n
  <2>3. n \in Int /\ n >= 1 /\ MaxHour = n - 1
    BY <2>1, <2>2 DEF n, MaxHour
  <2> QED
    BY <2>3 DEF Never
<1>7. TypeOK
  <2>1. billed \in [Day -> Nat] /\ seen \in [Day -> Never..MaxHour]
    BY <1>6 DEF Init
  <2>2. <<>> \in Seq(Day) /\ Len(<<>>) <= 2
    OBVIOUS
  <2>3. hour = 0 /\ due = FALSE /\ job = <<>> /\ posting = 0
    BY DEF Init
  <2> QED
    BY <1>5, <1>6, <2>1, <2>2, <2>3 DEF TypeOK
<1>8. DayOf(0) = 1
  BY <1>1 DEF DayOf
<1> QED
  BY <1>3, <1>7, <1>8 DEF MInv, Init, IngestInit

LEMMA StutterTyped ==
    ASSUME MInv, UNCHANGED vars
    PROVE  MInv'
<1>1. UNCHANGED <<rows, usage, inserted, projects, sources, deleting, doomed, day, request,
                  fault, hour, due, job, posting, billed, seen>>
  BY DEF vars, ingestVars, pushVars, tableVars, adminVars
<1> QED
  BY <1>1 DEF MInv, TypeOK, IngestTypeOK, RequestsOK, Located, DayOf

LEMMA StepTyped == Assumed /\ MInv /\ [Next]_vars => MInv'
<1> SUFFICES ASSUME Assumed, MInv, [Next]_vars PROVE MInv'
  OBVIOUS
<1>1. CASE (Serve \/ Fail) /\ UNCHANGED pushVars
  BY <1>1, RequestTyped DEF Serve, Fail
<1>2. CASE Administer /\ UNCHANGED pushVars
  BY <1>2, AdministerTyped
<1>3. CASE Die
  BY <1>3, DieTyped
<1>4. CASE Tick \/ PushStart \/ PushRead \/ PushPost \/ PushFails
  BY <1>4, PushTyped
<1>5. CASE UNCHANGED vars
  BY <1>5, StutterTyped
<1> QED
  BY <1>1, <1>2, <1>3, <1>4, <1>5 DEF Next

-------------------------------------------------------------------------------
(* The meter against the rows.                                             *)

\* A sum of which one term has changed.
LEMMA SumChanges ==
    ASSUME NEW f, NEW g, NEW S, IsFiniteSet(S), NEW e \in S,
           \A x \in S : f[x] \in Nat /\ g[x] \in Nat,
           \A x \in S : x # e => f[x] = g[x]
    PROVE  SumFunctionOnSet(g, S) + f[e] = SumFunctionOnSet(f, S) + g[e]
<1> DEFINE R == S \ {e}
<1>1. IsFiniteSet(R)
  BY FS_Subset
<1>2. SumFunctionOnSet(f, R) = SumFunctionOnSet(g, R)
  <2>1. \A x \in R : f[x] = g[x]
    OBVIOUS
  <2> HIDE DEF R
  <2> QED
    BY <1>1, <2>1, SumAgrees
<1>3. SumFunctionOnSet(f, S) = f[e] + SumFunctionOnSet(f, R)
  BY SumTakes
<1>4. SumFunctionOnSet(g, S) = g[e] + SumFunctionOnSet(g, R)
  BY SumTakes
<1>5. SumFunctionOnSet(f, R) \in Nat
  <2>1. \A x \in R : f[x] \in Nat
    OBVIOUS
  <2> HIDE DEF R
  <2> QED
    BY <1>1, <2>1, SumType
<1>6. f[e] \in Nat /\ g[e] \in Nat
  OBVIOUS
<1> HIDE DEF R
<1> QED
  BY <1>2, <1>3, <1>4, <1>5, <1>6

Due(p) == MeterOf(p) + Owed(p)

\* What is metered and what is still owed are numbers.
LEMMA MeterTypes ==
    ASSUME Assumed, MInv, NEW p \in Project
    PROVE  /\ MeterOf(p) \in Nat /\ Owed(p) \in Nat /\ inserted[p] \in Nat
           /\ Due(p) = MeterOf(p) + Owed(p)
           /\ IsFiniteSet(Day) /\ IsFiniteSet(Waiting(p))
<1>1. IsFiniteSet(Day)
  BY FS_Interval DEF Day, Assumed, IngestAssumption
<1>2. IsFiniteSet(Waiting(p))
  <2>1. Waiting(p) \in SUBSET Request
    BY DEF Waiting
  <2> QED
    BY <2>1, FS_Subset DEF Assumed, IngestAssumption
<1>3. MeterOf(p) \in Nat
  <2>1. \A d \in Day : usage[p][d] \in Nat
    BY DEF MInv, TypeOK, IngestTypeOK
  <2> QED
    BY <1>1, <2>1, SumType DEF MeterOf
<1>4. Owed(p) \in Nat
  <2>1. \A r \in Waiting(p) : Stored[r] \in Nat
    BY AcceptedNat DEF MInv, Waiting, Stored
  <2> QED
    BY <1>2, <2>1, SumType DEF Owed
<1> QED
  BY <1>1, <1>2, <1>3, <1>4 DEF Due, MInv, TypeOK, IngestTypeOK

\* Requests that wait before and after with the same counts owe the same.
LEMMA OwedSame ==
    ASSUME Assumed, MInv, NEW p \in Project, Waiting(p)' = Waiting(p),
           \A x \in Waiting(p) : request'[x].accepted = request[x].accepted
    PROVE  Owed(p)' = Owed(p)
<1>1. IsFiniteSet(Waiting(p))
  BY MeterTypes
<1>2. \A x \in Waiting(p) : Stored[x] = Stored'[x]
  BY DEF Stored, Waiting
<1>3. SumFunctionOnSet(Stored, Waiting(p)) = SumFunctionOnSet(Stored', Waiting(p))
  BY <1>1, <1>2, SumAgrees
<1> QED
  BY <1>3 DEF Owed

\* A request joins those that wait, or leaves them.
LEMMA OwedJoins ==
    ASSUME Assumed, MInv, MInv', NEW p \in Project, NEW r \in Request, r \notin Waiting(p),
           Waiting(p)' = Waiting(p) \cup {r},
           \A x \in Waiting(p) : request'[x].accepted = request[x].accepted
    PROVE  Owed(p)' = Owed(p) + request'[r].accepted
<1>1. IsFiniteSet(Waiting(p)) /\ IsFiniteSet(Waiting(p)') /\ Owed(p) \in Nat
  <2>1. IsFiniteSet(Waiting(p)) /\ Owed(p) \in Nat
    BY MeterTypes
  <2> QED
    BY <2>1, FS_AddElement
<1>2. \A x \in Waiting(p) : Stored[x] = Stored'[x]
  BY DEF Stored, Waiting
<1>3. SumFunctionOnSet(Stored, Waiting(p)) = SumFunctionOnSet(Stored', Waiting(p))
  BY <1>1, <1>2, SumAgrees
<1>4. \A x \in Waiting(p)' : Stored'[x] \in Nat
  BY DEF Stored, Waiting, MInv, RequestsOK, RequestRecord
<1>5. SumFunctionOnSet(Stored', Waiting(p)') =
          Stored'[r] + SumFunctionOnSet(Stored', Waiting(p)' \ {r})
  BY <1>1, <1>4, SumTakes
<1>6. Waiting(p)' \ {r} = Waiting(p) /\ Stored'[r] = request'[r].accepted
  BY DEF Stored
<1>7. request'[r].accepted \in Nat
  BY DEF MInv, RequestsOK, RequestRecord
<1>8. SumFunctionOnSet(Stored', Waiting(p)' \ {r}) = SumFunctionOnSet(Stored', Waiting(p))
  BY <1>6
<1>9. Owed(p)' = SumFunctionOnSet(Stored', Waiting(p)')
      /\ Owed(p) = SumFunctionOnSet(Stored, Waiting(p))
  BY DEF Owed
<1>10. Owed(p)' = request'[r].accepted + Owed(p)
  BY <1>3, <1>5, <1>6, <1>8, <1>9
<1> QED
  BY <1>1, <1>7, <1>10

LEMMA OwedLeaves ==
    ASSUME Assumed, MInv, MInv', NEW p \in Project, NEW r \in Waiting(p),
           Waiting(p)' = Waiting(p) \ {r},
           \A x \in Waiting(p)' : request'[x].accepted = request[x].accepted
    PROVE  Owed(p) = Owed(p)' + request[r].accepted
<1>1. IsFiniteSet(Waiting(p)) /\ IsFiniteSet(Waiting(p)')
  <2>1. IsFiniteSet(Waiting(p))
    BY MeterTypes
  <2> QED
    BY <2>1, FS_RemoveElement
<1>2. \A x \in Waiting(p)' : Stored[x] = Stored'[x]
  BY DEF Stored, Waiting
<1>3. SumFunctionOnSet(Stored, Waiting(p)') = SumFunctionOnSet(Stored', Waiting(p)')
  BY <1>1, <1>2, SumAgrees
<1>4. \A x \in Waiting(p) : Stored[x] \in Nat
  BY DEF Stored, Waiting, MInv, RequestsOK, RequestRecord
<1>5. SumFunctionOnSet(Stored, Waiting(p)) =
          Stored[r] + SumFunctionOnSet(Stored, Waiting(p) \ {r})
  BY <1>1, <1>4, SumTakes
<1>6. r \in Request /\ Stored[r] = request[r].accepted
  BY DEF Stored, Waiting
<1>7. SumFunctionOnSet(Stored, Waiting(p)') \in Nat /\ Stored[r] \in Nat
  <2>1. \A x \in Waiting(p)' : Stored[x] \in Nat
    BY <1>4
  <2> QED
    BY <1>1, <1>4, <2>1, SumType
<1> QED
  BY <1>3, <1>5, <1>6, <1>7 DEF Owed

\* recordUsage adds to the project and to no other.
LEMMA MeterAdds ==
    ASSUME Assumed, MInv, MInv', NEW r \in Request, Metered(r), Target(r) \in projects
    PROVE  \A p \in Project :
              MeterOf(p)' = MeterOf(p) + (IF p = Target(r) THEN request[r].accepted ELSE 0)
<1>1. /\ usage \in [Project -> [Day -> Nat]] /\ usage' \in [Project -> [Day -> Nat]]
      /\ day \in Day /\ projects \subseteq Project
  BY DEF MInv, TypeOK, IngestTypeOK
<1>2. request[r].accepted \in Nat
  BY AcceptedNat DEF MInv
<1>3. usage' = [usage EXCEPT ![Target(r)] =
                  [usage[Target(r)] EXCEPT ![day] = usage[Target(r)][day] + request[r].accepted]]
  BY DEF Metered
<1>4. ASSUME NEW p \in Project
      PROVE  MeterOf(p)' = MeterOf(p) + (IF p = Target(r) THEN request[r].accepted ELSE 0)
  <2>1. IsFiniteSet(Day) /\ MeterOf(p) \in Nat /\ MeterOf(p)' \in Nat
    <3>1. IsFiniteSet(Day) /\ MeterOf(p) \in Nat
      BY MeterTypes
    <3>2. \A d \in Day : usage'[p][d] \in Nat
      BY <1>1
    <3>3. SumFunctionOnSet(usage'[p], Day) \in Nat
      BY <3>1, <3>2, SumType
    <3> QED
      BY <3>1, <3>3 DEF MeterOf
  <2>2. CASE p # Target(r)
    <3>1. usage'[p] = usage[p]
      BY <1>1, <1>3, <2>2
    <3> QED
      BY <2>1, <2>2, <3>1 DEF MeterOf
  <2>3. CASE p = Target(r)
    <3> DEFINE f == usage[p]
               g == usage'[p]
    <3>1. /\ \A d \in Day : f[d] \in Nat /\ g[d] \in Nat
          /\ \A d \in Day : d # day => f[d] = g[d]
          /\ g[day] = f[day] + request[r].accepted
      BY <1>1, <1>3, <2>3
    <3>2. MeterOf(p) = SumFunctionOnSet(f, Day) /\ MeterOf(p)' = SumFunctionOnSet(g, Day)
      BY DEF MeterOf
    <3> HIDE DEF f, g
    <3>3. SumFunctionOnSet(g, Day) + f[day] = SumFunctionOnSet(f, Day) + g[day]
      BY <1>1, <2>1, <3>1, SumChanges
    <3>4. f[day] \in Nat
      BY <1>1, <3>1
    <3> QED
      BY <1>2, <2>1, <2>3, <3>1, <3>2, <3>3, <3>4
  <2> QED
    BY <2>2, <2>3
<1> QED
  BY <1>4

\* What a step may do to the books: no project's meter and debts outgrow what
\* was inserted by more than before; and, unless something failed, those of a
\* project that exists grow by exactly that.
Sound == \A p \in Project : Due(p)' + inserted[p] <= Due(p) + inserted'[p]
Exact == \A p \in projects' : Due(p)' + inserted[p] = Due(p) + inserted'[p]

\* A step in which no request joins or leaves those that wait.
LEMMA Waits ==
    ASSUME Assumed, MInv,
           \A x \in Request :
              /\ request'[x].at = "meter" <=> request[x].at = "meter"
              /\ request[x].at = "meter" => request'[x] = request[x]
    PROVE  \A p \in Project : Owed(p)' = Owed(p)
<1> TAKE p \in Project
<1>1. \A x \in Request : request[x].at = "meter" => Target(x)' = Target(x)
  BY DEF Target
<1>2. Waiting(p)' = Waiting(p)
  BY <1>1 DEF Waiting
<1>3. \A x \in Waiting(p) : request'[x].accepted = request[x].accepted
  BY DEF Waiting
<1> QED
  BY <1>2, <1>3, OwedSame

\* A step of a request that neither waited nor will, with meter and rows alone.
LEMMA Quiet ==
    ASSUME Assumed, MInv, UNCHANGED usage,
           \A p \in Project : Owed(p)' = Owed(p),
           \A p \in Project : inserted'[p] \in Nat /\ inserted[p] <= inserted'[p]
    PROVE  Sound /\ (UNCHANGED inserted /\ projects' \subseteq Project => Exact)
<1>1. ASSUME NEW p \in Project
      PROVE  /\ Due(p)' = Due(p) /\ Due(p) \in Nat /\ inserted[p] \in Nat
  <2>1. MeterOf(p)' = MeterOf(p)
    BY DEF MeterOf
  <2> QED
    BY <2>1, MeterTypes DEF Due
<1>2. Sound
  BY <1>1 DEF Sound
<1>3. UNCHANGED inserted /\ projects' \subseteq Project => Exact
  BY <1>1 DEF Exact
<1> QED
  BY <1>2, <1>3

LEMMA OnlyOne ==
    ASSUME RequestsOK, NEW r \in Request, NEW at, NEW accepted, NEW status,
           at \in {"free", "lookup", "insert", "meter", "done"}, accepted \in Nat,
           status \in {0, 202, 400, 404, 500}, Becomes(r, at, accepted, status)
    PROVE  /\ \A x \in Request : x # r => request'[x] = request[x]
           /\ request'[r].at = at /\ request'[r].accepted = accepted
           /\ \A x \in Request : Target(x)' = Target(x)
<1>1. /\ \A x \in Request : Target(x)' = Target(x)
      /\ \A x \in Request : x # r => request'[x] = request[x]
      /\ request'[r].at = at
  BY BecomesChanges
<1>2. request'[r].accepted = accepted
  BY DEF Becomes, RequestsOK
<1> QED
  BY <1>1, <1>2

\* Arrive, Lookup, Fails, InsertLost, and an Insert with nothing fresh.
LEMMA AsideBalances ==
    ASSUME Assumed, MInv, MInv', NEW r \in Request,
           request[r].at # "meter", request'[r].at # "meter",
           \A x \in Request : x # r => request'[x] = request[x],
           UNCHANGED usage,
           \A p \in Project : inserted[p] <= inserted'[p]
    PROVE  Sound /\ (UNCHANGED inserted => Exact)
<1>1. \A p \in Project : Owed(p)' = Owed(p)
  BY Waits
<1>2. projects' \subseteq Project /\ \A p \in Project : inserted'[p] \in Nat
  BY DEF MInv, TypeOK, IngestTypeOK
<1> QED
  BY <1>1, <1>2, Quiet

LEMMA ArriveLookupBalance ==
    ASSUME Assumed, MInv, MInv', NEW r \in Request,
           (\E b \in Batch : Arrive(r, b)) \/ Lookup(r) \/ Fails(r)
    PROVE  Sound /\ Exact
<1>1. UNCHANGED <<usage, inserted>>
  BY DEF Arrive, Lookup, Fails, tableVars
<1>2. \A p \in Project : inserted[p] <= inserted'[p]
  BY <1>1 DEF MInv, TypeOK, IngestTypeOK
<1>3. request[r].at # "meter"
  BY DEF Arrive, Lookup, Fails
<1>4. /\ request'[r].at # "meter"
      /\ \A x \in Request : x # r => request'[x] = request[x]
  <2>1. RequestsOK /\ request[r].accepted \in Nat
    BY AcceptedNat DEF MInv
  <2>2. CASE \E b \in Batch : Arrive(r, b)
    BY <2>1, <2>2 DEF Arrive, RequestsOK
  <2>3. CASE Lookup(r)
    <3>1. Checked(request[r].batch) \in {0, 202, 400, 404}
      BY DEF Checked
    <3> QED
      BY <2>1, <2>3, <3>1, OnlyOne DEF Lookup, Answer
  <2>4. CASE Fails(r)
    BY <2>1, <2>4, OnlyOne DEF Fails, Answer
  <2> QED
    BY <2>2, <2>3, <2>4
<1> QED
  BY <1>1, <1>2, <1>3, <1>4, AsideBalances

\* What an insert adds to the rows it adds to what is owed.
LEMMA InsertBalances ==
    ASSUME Assumed, MInv, MInv', NEW r \in Request, Insert(r)
    PROVE  Sound /\ Exact
<1>1. /\ RequestsOK /\ request[r].at = "insert" /\ request[r].batch.key \in Source
      /\ Len(request[r].batch.kept) <= MaxBatchEntries /\ TypeOK /\ Store(r)
  BY DEF Insert, MInv, Located
<1>2. /\ Target(r) \in Project
      /\ inserted' = [inserted EXCEPT ![Target(r)] = @ + Accepted(r)]
  BY <1>1, StoreTypes DEF Assumed
<1>3. Accepted(r) \in Nat /\ (Fresh(r) = {} => Accepted(r) = 0)
  BY <1>1, FreshIsFew DEF Assumed
<1>4. inserted \in [Project -> Nat] /\ projects' \subseteq Project /\ UNCHANGED usage
  BY DEF MInv, TypeOK, IngestTypeOK, Insert
<1>5. CASE Fresh(r) = {}
  <2>1. inserted' = inserted
    BY <1>2, <1>3, <1>4, <1>5
  <2>2. Becomes(r, "done", 0, 202)
    BY <1>5 DEF Insert
  <2>3. request'[r].at = "done" /\ \A x \in Request : x # r => request'[x] = request[x]
    BY <1>1, <2>2, OnlyOne
  <2>4. \A p \in Project : inserted[p] <= inserted'[p]
    BY <1>4, <2>1
  <2> QED
    BY <1>1, <1>4, <2>1, <2>3, <2>4, AsideBalances
<1>6. CASE Fresh(r) # {}
  <2>1. Becomes(r, "meter", Accepted(r), 0)
    BY <1>6 DEF Insert
  <2>2. /\ request'[r].at = "meter" /\ request'[r].accepted = Accepted(r)
        /\ \A x \in Request : x # r => request'[x] = request[x]
        /\ \A x \in Request : Target(x)' = Target(x)
    BY <1>1, <1>3, <2>1, OnlyOne
  <2>3. ASSUME NEW p \in Project
        PROVE  Due(p)' + inserted[p] = Due(p) + inserted'[p] /\ Due(p)' + inserted[p] \in Nat
    <3>1. MeterOf(p)' = MeterOf(p)
      BY <1>4 DEF MeterOf
    <3>2. Owed(p)' = Owed(p) + (IF p = Target(r) THEN Accepted(r) ELSE 0)
      <4>0. \A x \in Waiting(p) : x # r /\ request'[x].accepted = request[x].accepted
        BY <1>1, <2>2 DEF Waiting
      <4>1. CASE p = Target(r)
        <5>1. Waiting(p)' = Waiting(p) \cup {r}
          BY <1>1, <2>2, <4>1 DEF Waiting
        <5> QED
          BY <2>2, <4>0, <4>1, <5>1, OwedJoins
      <4>2. CASE p # Target(r)
        <5>1. Waiting(p)' = Waiting(p)
          BY <1>1, <2>2, <4>2 DEF Waiting
        <5>2. Owed(p)' = Owed(p) /\ Owed(p) \in Nat
          BY <4>0, <5>1, OwedSame, MeterTypes
        <5> QED
          BY <4>2, <5>2
      <4> QED
        BY <4>1, <4>2
    <3>3. inserted'[p] = inserted[p] + (IF p = Target(r) THEN Accepted(r) ELSE 0)
      BY <1>2, <1>3, <1>4
    <3>4. MeterOf(p) \in Nat /\ Owed(p) \in Nat /\ inserted[p] \in Nat
      BY MeterTypes
    <3> QED
      BY <1>3, <3>1, <3>2, <3>3, <3>4 DEF Due
  <2>4. Sound
    BY <2>3 DEF Sound
  <2> QED
    BY <1>4, <2>3, <2>4 DEF Exact
<1> QED
  BY <1>5, <1>6

\* An insert whose answer is lost adds rows and owes nothing: the meter falls behind.
LEMMA InsertLostBalances ==
    ASSUME Assumed, MInv, MInv', NEW r \in Request, InsertLost(r)
    PROVE  Sound
<1>1. /\ RequestsOK /\ request[r].at = "insert" /\ request[r].batch.key \in Source
      /\ Len(request[r].batch.kept) <= MaxBatchEntries /\ TypeOK /\ Store(r)
  BY DEF InsertLost, MInv, Located
<1>2. /\ Target(r) \in Project
      /\ inserted' = [inserted EXCEPT ![Target(r)] = @ + Accepted(r)]
  BY <1>1, StoreTypes DEF Assumed
<1>3. Accepted(r) \in Nat
  BY <1>1, FreshIsFew DEF Assumed
<1>4. \A p \in Project : inserted[p] <= inserted'[p]
  <2>1. inserted \in [Project -> Nat]
    BY DEF MInv, TypeOK, IngestTypeOK
  <2> QED
    BY <1>2, <1>3, <2>1
<1>5. request[r].accepted \in Nat
  BY <1>1, AcceptedNat
<1>6. request'[r].at = "done" /\ \A x \in Request : x # r => request'[x] = request[x]
  BY <1>1, <1>5, OnlyOne DEF InsertLost, Answer
<1> QED
  BY <1>1, <1>4, <1>6, AsideBalances DEF InsertLost

\* The meter takes what the request owes, or, if the write failed or the project
\* is gone, the debt is forgotten.
LEMMA MeterBalances ==
    ASSUME Assumed, MInv, MInv', NEW r \in Request, Meter(r) \/ MeterFails(r)
    PROVE  Sound /\ (Meter(r) => Exact)
<1>1. /\ RequestsOK /\ request[r].at = "meter" /\ Target(r) \in Project
      /\ Becomes(r, "done", request[r].accepted, 202) /\ request[r].accepted \in Nat
  <2>1. request[r].batch.key \in Source /\ request[r].at = "meter"
    BY DEF Meter, MeterFails, MInv, Located
  <2> QED
    BY <2>1, AcceptedNat DEF MInv, Target, Assumed, IngestAssumption, Meter, MeterFails, Answer
<1>2. /\ request'[r].at = "done"
      /\ \A x \in Request : x # r => request'[x] = request[x]
      /\ \A x \in Request : Target(x)' = Target(x)
  BY <1>1, OnlyOne
<1>3. inserted' = inserted /\ projects' = projects /\ projects \subseteq Project
  BY DEF Meter, MeterFails, adminVars, MInv, TypeOK, IngestTypeOK
<1> DEFINE part(p) == IF p = Target(r) THEN request[r].accepted ELSE 0
<1>4. ASSUME NEW p \in Project
      PROVE  Owed(p) = Owed(p)' + part(p) /\ Owed(p)' \in Nat
  <2>1. \A x \in Waiting(p)' : request'[x].accepted = request[x].accepted
    BY <1>2 DEF Waiting
  <2>2. Owed(p) \in Nat
    BY MeterTypes
  <2>3. Owed(p)' \in Nat
    <3>1. \A x \in Waiting(p)' : Stored'[x] \in Nat
      BY DEF Waiting, Stored, MInv, RequestsOK, RequestRecord
    <3>2. IsFiniteSet(Waiting(p)')
      <4>1. Waiting(p)' \in SUBSET Request
        BY DEF Waiting
      <4> QED
        BY <4>1, FS_Subset DEF Assumed, IngestAssumption
    <3>3. SumFunctionOnSet(Stored', Waiting(p)') \in Nat
      BY <3>1, <3>2, SumType
    <3> QED
      BY <3>3 DEF Owed
  <2>4. CASE p = Target(r)
    <3>1. r \in Waiting(p) /\ Waiting(p)' = Waiting(p) \ {r}
      BY <1>1, <1>2, <2>4 DEF Waiting
    <3>2. Owed(p) = Owed(p)' + request[r].accepted
      BY <2>1, <3>1, OwedLeaves
    <3> QED
      BY <2>3, <2>4, <3>2
  <2>5. CASE p # Target(r)
    <3>1. Waiting(p)' = Waiting(p)
      BY <1>1, <1>2, <2>5 DEF Waiting
    <3>2. Owed(p)' = Owed(p)
      BY <2>1, <3>1, OwedSame
    <3> QED
      BY <2>2, <2>5, <3>2
  <2> QED
    BY <2>4, <2>5
<1>5. ASSUME NEW p \in Project
      PROVE  /\ MeterOf(p) \in Nat /\ inserted[p] \in Nat /\ part(p) \in Nat
             /\ MeterOf(p)' = MeterOf(p) \/ MeterOf(p)' = MeterOf(p) + part(p)
             /\ Meter(r) /\ p \in projects => MeterOf(p)' = MeterOf(p) + part(p)
  <2>1. MeterOf(p) \in Nat /\ inserted[p] \in Nat
    BY MeterTypes
  <2>2. part(p) \in Nat
    BY <1>1
  <2>3. UNCHANGED usage => MeterOf(p)' = MeterOf(p)
    BY DEF MeterOf
  <2>4. CASE Metered(r) /\ Target(r) \in projects
    <3>1. MeterOf(p)' = MeterOf(p) + part(p)
      BY <2>4, MeterAdds
    <3> HIDE DEF part
    <3> QED
      BY <2>1, <2>2, <3>1
  <2>5. CASE Metered(r) /\ Target(r) \notin projects
    <3>1. MeterOf(p)' = MeterOf(p)
      BY <2>3, <2>5 DEF Metered
    <3>2. p \in projects => part(p) = 0
      BY <2>5
    <3> HIDE DEF part
    <3> QED
      BY <2>1, <2>2, <3>1, <3>2
  <2>6. CASE ~Metered(r)
    <3>1. ~Meter(r) /\ MeterOf(p)' = MeterOf(p)
      BY <2>3, <2>6 DEF Meter, MeterFails
    <3> HIDE DEF part
    <3> QED
      BY <2>1, <2>2, <3>1
  <2> QED
    BY <2>4, <2>5, <2>6
<1> HIDE DEF part
<1>6. Sound
  <2> SUFFICES ASSUME NEW p \in Project
               PROVE  Due(p)' + inserted[p] <= Due(p) + inserted'[p]
    BY DEF Sound
  <2> QED
    BY <1>3, <1>4, <1>5 DEF Due
<1>7. ASSUME Meter(r) PROVE Exact
  <2> SUFFICES ASSUME NEW p \in projects'
               PROVE  Due(p)' + inserted[p] = Due(p) + inserted'[p]
    BY DEF Exact
  <2>1. p \in Project /\ p \in projects
    BY <1>3
  <2> QED
    BY <1>3, <1>4, <1>5, <1>7, <2>1 DEF Due
<1> QED
  BY <1>6, <1>7

\* A server that dies forgets what it owed.
LEMMA DieBalances ==
    ASSUME Assumed, MInv, MInv', Die
    PROVE  Sound
<1> SUFFICES ASSUME NEW p \in Project
             PROVE  Due(p)' + inserted[p] <= Due(p) + inserted'[p]
  BY DEF Sound
<1>1. UNCHANGED <<usage, inserted>>
  BY DEF Die, ServerDies, tableVars
<1>2. MeterOf(p)' = MeterOf(p)
  BY <1>1 DEF MeterOf
<1>3. \A x \in Request : request'[x].at # "meter"
  BY DEF Die, ServerDies, InProgress
<1>4. Waiting(p)' = {}
  BY <1>3 DEF Waiting
<1>5. Owed(p)' = 0
  BY <1>4, SumEmpty DEF Owed
<1> QED
  BY <1>1, <1>2, <1>5, MeterTypes DEF Due

\* What neither serves a request nor touches the meter.
LEMMA AsideKeepsBooks ==
    ASSUME Assumed, MInv, MInv', UNCHANGED <<request, usage, inserted>>
    PROVE  Sound /\ Exact
<1>1. \A p \in Project : Owed(p)' = Owed(p)
  BY Waits
<1>2. projects' \subseteq Project
  BY DEF MInv, TypeOK, IngestTypeOK
<1>3. inserted \in [Project -> Nat]
  BY DEF MInv, TypeOK, IngestTypeOK
<1>4. \A p \in Project : inserted'[p] \in Nat /\ inserted[p] <= inserted'[p]
  BY <1>3
<1> QED
  BY <1>1, <1>2, <1>4, Quiet

\* Every step is sound, and exact unless something failed.
LEMMA StepBalances ==
    ASSUME Assumed, MInv, MInv', [Next]_vars
    PROVE  Sound /\ (fault' \/ Exact)
<1>1. CASE \E r \in Request :
              (\E b \in Batch : Arrive(r, b)) \/ Lookup(r) \/ Fails(r)
  BY <1>1, ArriveLookupBalance
<1>2. CASE \E r \in Request : Insert(r)
  BY <1>2, InsertBalances
<1>3. CASE \E r \in Request : InsertLost(r)
  BY <1>3, InsertLostBalances DEF InsertLost
<1>4. CASE \E r \in Request : Meter(r) \/ MeterFails(r)
  BY <1>4, MeterBalances DEF MeterFails
<1>5. CASE Die
  BY <1>5, DieBalances DEF Die, ServerDies
<1>6. CASE Administer \/ Tick \/ PushStart \/ PushRead \/ PushPost \/ PushFails
             \/ UNCHANGED vars
  <2>1. UNCHANGED <<request, usage, inserted>>
    BY <1>6 DEF Administer, DeleteSource, DeleteEntries, DeleteProject, RollBack, Tick,
                PushStart, PushRead, PushPost, PushFails, vars, ingestVars, tableVars
  <2> QED
    BY <2>1, AsideKeepsBooks
<1> QED
  BY <1>1, <1>2, <1>3, <1>4, <1>5, <1>6 DEF Next, Serve, Fail

\* The books are numbers after a step as well.
LEMMA DueTypes == ASSUME Assumed, MInv, NEW p \in Project PROVE Due(p) \in Nat
<1>1. MeterOf(p) \in Nat /\ Owed(p) \in Nat
  BY MeterTypes
<1> QED
  BY <1>1 DEF Due

LEMMA DueTypesNext ==
    ASSUME Assumed, MInv', NEW p \in Project
    PROVE  Due(p)' \in Nat
<1>1. IsFiniteSet(Day) /\ IsFiniteSet(Waiting(p)')
  <2>1. IsFiniteSet(Day)
    BY FS_Interval DEF Day, Assumed, IngestAssumption
  <2>2. Waiting(p)' \in SUBSET Request
    BY DEF Waiting
  <2> QED
    BY <2>1, <2>2, FS_Subset DEF Assumed, IngestAssumption
<1>2. \A d \in Day : usage'[p][d] \in Nat
  BY DEF MInv, TypeOK, IngestTypeOK
<1>3. \A x \in Waiting(p)' : Stored'[x] \in Nat
  BY DEF Waiting, Stored, MInv, RequestsOK, RequestRecord
<1>4. SumFunctionOnSet(usage'[p], Day) \in Nat /\ SumFunctionOnSet(Stored', Waiting(p)') \in Nat
  BY <1>1, <1>2, <1>3, SumType
<1> QED
  BY <1>4 DEF Due, MeterOf, Owed

\* A step that is sound keeps the meter within the rows.
LEMMA WithinKept ==
    ASSUME Assumed, MInv, MInv', MeterWithin, Sound
    PROVE  MeterWithin'
<1> SUFFICES ASSUME NEW p \in Project
             PROVE  MeterOf(p)' + Owed(p)' <= inserted'[p]
  BY DEF MeterWithin
<1>1. Due(p)' + inserted[p] <= Due(p) + inserted'[p] /\ Due(p) <= inserted[p]
  BY DEF Sound, MeterWithin, Due
<1>2. Due(p) \in Nat /\ inserted[p] \in Nat /\ inserted'[p] \in Nat
  <2>1. inserted \in [Project -> Nat] /\ inserted' \in [Project -> Nat]
    BY DEF MInv, TypeOK, IngestTypeOK
  <2> QED
    BY <2>1, DueTypes
<1>3. Due(p)' \in Nat
  BY DueTypesNext
<1>4. Due(p)' <= inserted'[p]
  BY <1>1, <1>2, <1>3
<1> QED
  BY <1>4 DEF Due

\* A step that is exact keeps it equal to them.
LEMMA ExactKept ==
    ASSUME Assumed, MInv, MInv', MeterExact, projects' \subseteq projects,
           fault => fault', fault' \/ Exact
    PROVE  MeterExact'
<1> SUFFICES ASSUME ~fault', NEW p \in projects'
             PROVE  MeterOf(p)' + Owed(p)' = inserted'[p]
  BY DEF MeterExact
<1>1. p \in Project /\ p \in projects
  BY DEF MInv, TypeOK, IngestTypeOK
<1>2. Due(p)' + inserted[p] = Due(p) + inserted'[p] /\ Due(p) = inserted[p]
  BY <1>1 DEF Exact, MeterExact, Due
<1>3. Due(p) \in Nat /\ inserted[p] \in Nat /\ inserted'[p] \in Nat /\ Due(p)' \in Nat
  <2>1. inserted \in [Project -> Nat] /\ inserted' \in [Project -> Nat]
    BY DEF MInv, TypeOK, IngestTypeOK
  <2> QED
    BY <1>1, <2>1, DueTypes, DueTypesNext
<1>4. Due(p)' = inserted'[p]
  BY <1>2, <1>3
<1> QED
  BY <1>4 DEF Due

\* Projects only go, and a fault is never forgotten.
LEMMA ProjectsOnlyGo ==
    ASSUME Assumed, MInv, [Next]_vars
    PROVE  projects' \subseteq projects /\ (fault => fault')
BY DEF Next, Serve, Fail, Arrive, Lookup, Insert, Meter, Fails, InsertLost, MeterFails,
       Administer, DeleteSource, DeleteEntries, DeleteProject, RollBack, Die, ServerDies,
       Tick, PushStart, PushRead, PushPost, PushFails, vars, ingestVars, tableVars, adminVars

BooksInv == MInv /\ MeterWithin /\ MeterExact

LEMMA SumZero ==
    ASSUME NEW f, NEW S, IsFiniteSet(S), \A x \in S : f[x] = 0
    PROVE  SumFunctionOnSet(f, S) = 0
<1> DEFINE C == {T \in SUBSET S : SumFunctionOnSet(f, T) # 0}
<1> SUFFICES ASSUME C # {} PROVE FALSE
  OBVIOUS
<1>1. PICK T \in C : \A U \in C : U \subseteq T => U = T
  <2>1. C \in SUBSET SUBSET S
    OBVIOUS
  <2> HIDE DEF C
  <2> QED
    BY <2>1, Least
<1>2. IsFiniteSet(T)
  BY FS_Subset
<1>3. T # {}
  BY <1>1, SumEmpty
<1>4. Pick(T) \in T /\ f[Pick(T)] = 0
  BY <1>3 DEF Pick
<1>5. SumFunctionOnSet(f, T \ {Pick(T)}) = 0
  BY <1>1, <1>4
<1>6. SumFunctionOnSet(f, T) = f[Pick(T)] + SumFunctionOnSet(f, T \ {Pick(T)})
  BY <1>2, <1>3, SumUnfolds
<1> QED
  BY <1>1, <1>4, <1>5, <1>6

LEMMA StartsBalanced == Assumed /\ Init => BooksInv
<1> SUFFICES ASSUME Assumed, Init PROVE BooksInv
  OBVIOUS
<1>1. MInv
  BY StartsTyped
<1>2. ASSUME NEW p \in Project
      PROVE  MeterOf(p) = 0 /\ Owed(p) = 0 /\ inserted[p] = 0
  <2>1. Waiting(p) = {}
    BY DEF Init, IngestInit, Waiting, Idle
  <2>2. Owed(p) = 0
    BY <2>1, SumEmpty DEF Owed
  <2>3. MeterOf(p) = 0
    <3> DEFINE f == [d \in Day |-> 0]
    <3>1. usage[p] = f
      BY DEF Init, IngestInit
    <3>2. \A d \in Day : f[d] = 0
      OBVIOUS
    <3>3. IsFiniteSet(Day)
      BY <1>1, MeterTypes
    <3> HIDE DEF f
    <3>4. SumFunctionOnSet(f, Day) = 0
      BY <3>2, <3>3, SumZero
    <3> QED
      BY <3>1, <3>4 DEF MeterOf
  <2> QED
    BY <2>2, <2>3 DEF Init, IngestInit
<1>3. projects \subseteq Project
  BY DEF Init, IngestInit
<1> QED
  BY <1>1, <1>2, <1>3 DEF BooksInv, MeterWithin, MeterExact

LEMMA StepKeepsBooks == Assumed /\ BooksInv /\ [Next]_vars => BooksInv'
<1> SUFFICES ASSUME Assumed, BooksInv, [Next]_vars PROVE BooksInv'
  OBVIOUS
<1>1. MInv /\ MInv'
  BY StepTyped DEF BooksInv
<1>2. Sound /\ (fault' \/ Exact)
  BY <1>1, StepBalances
<1>3. MeterWithin'
  BY <1>1, <1>2, WithinKept DEF BooksInv
<1>4. MeterExact'
  BY <1>1, <1>2, ProjectsOnlyGo, ExactKept DEF BooksInv
<1> QED
  BY <1>1, <1>3, <1>4 DEF BooksInv

\* No replay is ever metered (MeterSound): whatever is sent again, at once or
\* twice, fails or is deleted, the meter and what is still to be added to it
\* never exceed the rows inserted.
THEOREM MeterSoundHolds == Spec => []MeterSound
<1>1. Assumed
  BY IngestAssumption, MeteringAssumption DEF Assumed
<1>2. BooksInv => MeterSound
  BY DEF BooksInv, MeterSound, MInv
<1>3. Init => BooksInv
  BY <1>1, StartsBalanced
<1>4. BooksInv /\ [Next]_vars => BooksInv'
  BY <1>1, StepKeepsBooks
<1> QED
  BY <1>2, <1>3, <1>4, PTL DEF Spec

\* And unless something failed nothing stored escapes it (MeterExact): several
\* requests at once count each row in exactly one of them.
THEOREM MeterExactHolds == Spec => []MeterExact
<1>1. Assumed
  BY IngestAssumption, MeteringAssumption DEF Assumed
<1>2. BooksInv => MeterExact
  BY DEF BooksInv
<1>3. Init => BooksInv
  BY <1>1, StartsBalanced
<1>4. BooksInv /\ [Next]_vars => BooksInv'
  BY <1>1, StepKeepsBooks
<1> QED
  BY <1>2, <1>3, <1>4, PTL DEF Spec

-------------------------------------------------------------------------------
(* The push: how often a day can be billed.                                *)

\* What Stripe was told of a day, by the hour it was told last: each telling is
\* a window after the one before, and the first is on the day itself.
FirstHour(d) == HoursPerDay * (d - 1)
ToldOf(d) ==
    \/ billed[d] = 0
    \/ FirstHour(d) <= seen[d] /\ billed[d] <= Total(d)
    \/ FirstHour(d) + Window <= seen[d] /\ billed[d] <= 2 * Total(d)
    \/ FirstHour(d) + 2 * Window <= seen[d] /\ billed[d] <= 3 * Total(d)
Told == \A d \in Day : ToldOf(d)

\* Stripe was told nothing of a day whose identifier it has not seen, and saw
\* the others by now.
SeenInTime ==
    \A d \in Day :
        /\ seen[d] = Never => billed[d] = 0
        /\ seen[d] <= hour

\* What has been read of the meter is still in it.
ReadIsMetered == posting > 0 => posting <= Total(Head(job))

\* A push still to be sent is of a day that has begun, and was started by the
\* end of the next one: at most one hour has passed since.
Late == IF due THEN 1 ELSE 0
SentInTime ==
    \A i \in 1..Len(job) :
        job[i] <= day /\ hour < HoursPerDay * (job[i] + 1) + Late

StripeInv == MInv /\ Told /\ SeenInTime /\ ReadIsMetered /\ SentInTime

\* The total of a day is a number, and it only grows.
LEMMA TotalTypes ==
    ASSUME Assumed, MInv, NEW d \in Day
    PROVE  Total(d) \in Nat
<1> DEFINE f == [p \in Project |-> usage[p][d]]
<1>1. \A p \in Project : f[p] \in Nat
  BY DEF MInv, TypeOK, IngestTypeOK
<1>2. IsFiniteSet(Project)
  BY DEF Assumed, IngestAssumption
<1>3. Total(d) = SumFunctionOnSet(f, Project)
  BY DEF Total
<1> HIDE DEF f
<1> QED
  BY <1>1, <1>2, <1>3, SumType

\* The meter only grows.
LEMMA UsageGrows ==
    ASSUME Assumed, MInv, MInv', [Next]_vars, NEW p \in Project, NEW d \in Day
    PROVE  usage[p][d] <= usage'[p][d]
<1>1. usage \in [Project -> [Day -> Nat]] /\ usage' \in [Project -> [Day -> Nat]]
  BY DEF MInv, TypeOK, IngestTypeOK
<1>2. usage' = usage \/ \E r \in Request : Metered(r)
  BY DEF Next, Serve, Fail, Administer, Arrive, Lookup, Insert, Meter, Fails, InsertLost,
         MeterFails, DeleteSource, DeleteEntries, DeleteProject, RollBack, Die, ServerDies,
         Tick, PushStart, PushRead, PushPost, PushFails, tableVars, ingestVars, vars
<1>3. CASE usage' = usage
  BY <1>1, <1>3
<1>4. ASSUME NEW r \in Request, Metered(r)
      PROVE  usage[p][d] <= usage'[p][d]
  <2>1. request[r].accepted \in Nat
    BY AcceptedNat DEF MInv
  <2>2. CASE Target(r) \notin projects
    BY <1>1, <1>4, <2>2 DEF Metered
  <2>3. CASE Target(r) \in projects
    <3>1. Target(r) \in Project /\ day \in Day
      BY <2>3 DEF MInv, TypeOK, IngestTypeOK
    <3>2. usage'[p][d] = usage[p][d]
          \/ usage'[p][d] = usage[p][d] + request[r].accepted
      BY <1>1, <1>4, <2>3, <3>1 DEF Metered
    <3> QED
      BY <1>1, <2>1, <3>2
  <2> QED
    BY <2>2, <2>3
<1> QED
  BY <1>2, <1>3, <1>4

LEMMA TotalGrows ==
    ASSUME Assumed, MInv, MInv', [Next]_vars, NEW d \in Day
    PROVE  Total(d) \in Nat /\ Total(d)' \in Nat /\ Total(d) <= Total(d)'
<1> DEFINE f == [p \in Project |-> usage[p][d]]
           g == [p \in Project |-> usage'[p][d]]
<1>1. \A p \in Project : f[p] \in Nat /\ g[p] \in Nat /\ f[p] <= g[p]
  BY UsageGrows DEF MInv, TypeOK, IngestTypeOK
<1>2. IsFiniteSet(Project)
  BY DEF Assumed, IngestAssumption
<1>3. Total(d) = SumFunctionOnSet(f, Project) /\ Total(d)' = SumFunctionOnSet(g, Project)
  BY DEF Total
<1> HIDE DEF f, g
<1> QED
  BY <1>1, <1>2, <1>3, SumGrows, SumType

\* What Stripe has and what has been read stay within a meter that grows.
LEMMA StaysWithin ==
    ASSUME Assumed, MInv, MInv', [Next]_vars, Told, NEW d \in Day,
           billed'[d] = billed[d], seen'[d] = seen[d]
    PROVE  ToldOf(d)'
<1>1. Total(d) \in Nat /\ Total(d)' \in Nat /\ Total(d) <= Total(d)'
  BY TotalGrows
<1>2. billed[d] \in Nat /\ ToldOf(d)
  BY DEF MInv, TypeOK, Told
<1>3. FirstHour(d)' = FirstHour(d)
  BY DEF FirstHour
<1> QED
  BY <1>1, <1>2, <1>3 DEF ToldOf

\* The types the push's own actions need.
LEMMA PushTypes ==
    ASSUME Assumed, MInv
    PROVE  /\ HoursPerDay \in Nat \ {0} /\ Window \in Nat
           /\ hour \in Nat /\ day \in Nat \ {0} /\ job \in Seq(Day)
           /\ posting \in Nat /\ (posting > 0 => job # <<>>)
           /\ \A d \in Day : d \in Nat \ {0}
           /\ HoursPerDay * (day - 1) <= hour /\ hour < HoursPerDay * day
<1>1. /\ HoursPerDay \in Nat \ {0} /\ Window \in Nat
      /\ \A d \in Day : d \in Nat \ {0}
  BY DEF Assumed, IngestAssumption, MeteringAssumption, Day
<1>2. hour \in 0..MaxHour /\ day = DayOf(hour)
  BY DEF MInv, TypeOK
<1>3. hour \in Nat
  BY <1>2
<1>4. /\ day \in Nat \ {0} /\ HoursPerDay * (day - 1) <= hour
      /\ hour < HoursPerDay * day
  BY <1>2, <1>3, DayBounds DEF Assumed
<1>5. job \in Seq(Day) /\ posting \in Nat /\ (posting > 0 => job # <<>>)
  BY DEF MInv, TypeOK
<1> QED
  BY <1>1, <1>3, <1>4, <1>5

LEMMA AsideKeepsStripe ==
    ASSUME Assumed, StripeInv, MInv', [Next]_vars, UNCHANGED <<day, pushVars>>
    PROVE  StripeInv'
<1>1. MInv /\ Told /\ UNCHANGED <<hour, due, job, posting, billed, seen>>
  BY DEF StripeInv, pushVars
<1>2. Told'
  BY <1>1, StaysWithin DEF Told
<1>3. SeenInTime' /\ SentInTime'
  BY <1>1 DEF StripeInv, SeenInTime, SentInTime, Late
<1>4. ASSUME posting > 0
      PROVE  posting <= Total(Head(job))'
  <2>1. Head(job) \in Day /\ posting \in Nat
    BY <1>1, <1>4, PushTypes
  <2>2. posting <= Total(Head(job))
    BY <1>4 DEF StripeInv, ReadIsMetered
  <2>3. Total(Head(job)) \in Nat
    BY <1>1, <2>1, TotalTypes
  <2> DEFINE d == Head(job)
  <2>4. Total(d) \in Nat /\ SumFunctionOnSet([p \in Project |-> usage'[p][d]], Project) \in Nat
        /\ Total(d) <= SumFunctionOnSet([p \in Project |-> usage'[p][d]], Project)
    <3>1. d \in Day
      BY <2>1
    <3> HIDE DEF d
    <3> QED
      BY <1>1, <3>1, TotalGrows DEF Total
  <2> QED
    BY <1>1, <2>1, <2>2, <2>4 DEF Total
<1>5. ReadIsMetered'
  BY <1>1, <1>4 DEF ReadIsMetered
<1> QED
  BY <1>2, <1>3, <1>5 DEF StripeInv

\* An hour passes: at most one, before the interval that is due fires.
LEMMA TickKeepsStripe ==
    ASSUME Assumed, StripeInv, MInv', Tick
    PROVE  StripeInv'
<1>1. MInv /\ Told /\ SeenInTime /\ ReadIsMetered /\ SentInTime
  BY DEF StripeInv
<1>2. UNCHANGED <<usage, job, posting, billed, seen>> /\ hour' = hour + 1 /\ ~due /\ due'
  BY DEF Tick, tableVars
<1>3. Told' /\ ReadIsMetered'
  BY <1>1, <1>2 DEF Told, ToldOf, FirstHour, ReadIsMetered, Total
<1>a. SeenInTime'
  <2>1. hour \in Int /\ \A d \in Day : seen[d] \in Int
    BY <1>1 DEF MInv, TypeOK, Never
  <2> QED BY <1>1, <1>2, <2>1 DEF SeenInTime
<1>4. /\ HoursPerDay \in Nat \ {0} /\ hour \in Nat /\ day \in Nat /\ job \in Seq(Day)
      /\ \A d \in Day : d \in Nat \ {0}
  BY <1>1, PushTypes
<1>5. day' \in Nat /\ day <= day'
  <2>1. HoursPerDay * (day - 1) <= hour
    BY <1>1, PushTypes
  <2>2. day' = DayOf(hour') /\ hour' \in Nat
    BY <1>2, <1>4 DEF MInv
  <2>3. day' \in Nat \ {0} /\ hour' < HoursPerDay * day'
    BY <2>2, DayBounds DEF Assumed
  <2>4. HoursPerDay * (day - 1) < HoursPerDay * day'
    <3> DEFINE a == HoursPerDay * (day - 1)
               b == HoursPerDay * day'
    <3>1. day - 1 \in Int /\ day' \in Int
      BY <1>4, <2>3
    <3>2. a \in Int /\ b \in Int
      BY <1>4, <3>1, TimesInt
    <3>3. a <= hour /\ hour' < b
      BY <2>1, <2>3
    <3> HIDE DEF a, b
    <3>4. a < b
      BY <1>2, <1>4, <3>2, <3>3
    <3> QED
      BY <3>4 DEF a, b
  <2>5. day - 1 < day'
    <3>1. day - 1 \in Int /\ day' \in Int
      BY <1>4, <2>3
    <3> QED
      BY <1>4, <2>4, <3>1, TimesLess
  <2> QED
    BY <1>4, <2>3, <2>5
<1>6. SentInTime'
  <2> SUFFICES ASSUME NEW i \in 1..Len(job)
               PROVE  job[i] <= day' /\ hour + 1 < HoursPerDay * (job[i] + 1) + 1
    BY <1>2 DEF SentInTime, Late
  <2>1. job[i] \in Nat /\ job[i] <= day /\ hour < HoursPerDay * (job[i] + 1) + 0
    BY <1>1, <1>2, <1>4 DEF SentInTime, Late
  <2>2. HoursPerDay * (job[i] + 1) \in Int
    BY <1>4, <2>1, TimesInt
  <2> QED
    BY <1>4, <1>5, <2>1, <2>2
<1> QED
  BY <1>3, <1>a, <1>6 DEF StripeInv

LEMMA PushStartKeepsStripe ==
    ASSUME Assumed, StripeInv, MInv', PushStart
    PROVE  StripeInv'
<1>1. MInv /\ Told /\ SeenInTime /\ ReadIsMetered /\ SentInTime
  BY DEF StripeInv
<1>2. /\ UNCHANGED <<usage, day, hour, posting, billed, seen>> /\ job = <<>> /\ ~due'
      /\ job' = IF day > 1 THEN <<day - 1, day>> ELSE <<day>>
  <2>1. ~due'
    BY DEF PushStart
  <2> QED
    BY <2>1 DEF PushStart, ingestVars, tableVars
<1>3. Told' /\ SeenInTime'
  BY <1>1, <1>2 DEF Told, ToldOf, FirstHour, SeenInTime, Total
<1>4. ~(posting > 0)
  BY <1>1, <1>2 DEF MInv
<1>5. ReadIsMetered'
  BY <1>2, <1>4 DEF ReadIsMetered
<1>6. /\ HoursPerDay \in Nat \ {0} /\ hour \in Nat /\ day \in Nat \ {0}
      /\ hour < HoursPerDay * day
  BY <1>1, PushTypes
<1>7. HoursPerDay * day <= HoursPerDay * (day + 1) /\ HoursPerDay * (day + 1) \in Int
      /\ HoursPerDay * day \in Int
  BY <1>6, Times, TimesInt
<1>8. ASSUME NEW i \in 1..Len(job')
      PROVE  (job'[i] = day \/ job'[i] = day - 1) /\ (job'[i] + 1 = day \/ job'[i] + 1 = day + 1)
  BY <1>2, <1>6
<1>9. SentInTime'
  <2> SUFFICES ASSUME NEW i \in 1..Len(job')
               PROVE  job'[i] <= day /\ hour < HoursPerDay * (job'[i] + 1) + 0
    BY <1>2 DEF SentInTime, Late
  <2>1. CASE job'[i] + 1 = day
    BY <1>6, <1>7, <1>8, <2>1
  <2>2. CASE job'[i] + 1 = day + 1
    BY <1>6, <1>7, <1>8, <2>2
  <2> QED
    BY <1>8, <2>1, <2>2
<1> QED
  BY <1>3, <1>5, <1>9 DEF StripeInv

LEMMA TailShifts ==
    ASSUME NEW S, NEW s \in Seq(S), s # <<>>
    PROVE  /\ Len(Tail(s)) = Len(s) - 1 /\ Len(s) \in Nat
           /\ \A i \in 1..Len(Tail(s)) : i + 1 \in 1..Len(s) /\ Tail(s)[i] = s[i + 1]
OBVIOUS

\* The rest of a push is no later than the push.
LEMMA RestInTime ==
    ASSUME Assumed, MInv, SentInTime, UNCHANGED <<day, hour, due>>,
           job' = job \/ (job # <<>> /\ job' = Tail(job)) \/ job' = <<>>
    PROVE  SentInTime'
<1>1. job \in Seq(Day)
  BY DEF MInv, TypeOK
<1>2. CASE job' = job
  BY <1>2 DEF SentInTime, Late
<1>3. CASE job # <<>> /\ job' = Tail(job)
  <2>1. Len(job') = Len(job) - 1 /\ Len(job) \in Nat
    BY <1>1, <1>3, TailShifts
  <2>2. \A i \in 1..Len(job') : i + 1 \in 1..Len(job) /\ job'[i] = job[i + 1]
    BY <1>1, <1>3, TailShifts
  <2>3. \A i \in 1..Len(job') :
            job[i + 1] <= day /\ hour < HoursPerDay * (job[i + 1] + 1) + Late
    BY <2>2 DEF SentInTime
  <2>4. Late' = Late
    BY DEF Late
  <2> QED
    BY <2>2, <2>3, <2>4 DEF SentInTime
<1>4. CASE job' = <<>>
  BY <1>4 DEF SentInTime
<1> QED
  BY <1>2, <1>3, <1>4

LEMMA PushReadKeepsStripe ==
    ASSUME Assumed, StripeInv, MInv', PushRead
    PROVE  StripeInv'
<1>1. MInv /\ Told /\ SeenInTime /\ ReadIsMetered /\ SentInTime
  BY DEF StripeInv
<1>2. UNCHANGED <<usage, day, hour, due, billed, seen>>
  BY DEF PushRead, ingestVars, tableVars
<1>3. Told' /\ SeenInTime'
  BY <1>1, <1>2 DEF Told, ToldOf, FirstHour, SeenInTime, Total
<1>4. SentInTime'
  BY <1>1, <1>2, RestInTime DEF PushRead
<1>5. ReadIsMetered'
  <2>1. CASE ~(posting' > 0)
    BY <2>1 DEF ReadIsMetered
  <2>2. CASE posting' > 0
    <3>1. job' = job /\ posting' = Total(Head(job)) /\ job # <<>>
      BY <2>2 DEF PushRead
    <3>2. Head(job) \in Day
      BY <1>1, <3>1, PushTypes
    <3>3. Total(Head(job)) \in Nat
      BY <1>1, <3>2, TotalTypes
    <3>4. posting' <= Total(Head(job))
      BY <3>1, <3>3
    <3> QED
      BY <1>2, <3>1, <3>4 DEF ReadIsMetered, Total
  <2> QED
    BY <2>1, <2>2
<1> QED
  BY <1>3, <1>4, <1>5 DEF StripeInv

\* A telling comes a window after the last, and while the day is still pushed:
\* the third is the last.
LEMMA ToldAgain ==
    ASSUME Assumed, StripeInv, posting > 0, ~Known(Head(job))
    PROVE  /\ Head(job) \in Day /\ FirstHour(Head(job)) <= hour
           /\ \/ billed[Head(job)] = 0
              \/ /\ billed[Head(job)] <= Total(Head(job))
                 /\ FirstHour(Head(job)) + Window <= hour
              \/ /\ billed[Head(job)] <= 2 * Total(Head(job))
                 /\ FirstHour(Head(job)) + 2 * Window <= hour
<1>1. MInv /\ Told /\ SeenInTime /\ SentInTime
  BY DEF StripeInv
<1>2. /\ HoursPerDay \in Nat \ {0} /\ Window \in Nat
      /\ hour \in Nat /\ day \in Nat \ {0} /\ job \in Seq(Day) /\ job # <<>>
      /\ \A d \in Day : d \in Nat \ {0}
      /\ HoursPerDay * (day - 1) <= hour
  BY <1>1, PushTypes
<1> DEFINE d == Head(job)
<1>3. d \in Day /\ d = job[1] /\ 1 \in 1..Len(job)
  BY <1>2
<1>4. d \in Nat \ {0} /\ d <= day /\ hour < HoursPerDay * (d + 1) + Late
  BY <1>1, <1>2, <1>3 DEF SentInTime
<1>5. seen[d] \in Never..MaxHour /\ Never = -1 /\ billed[d] \in Nat
  BY <1>1, <1>3 DEF MInv, TypeOK, Never
<1>6. seen[d] = Never \/ hour - seen[d] >= Window
  BY <1>2, <1>5 DEF Known
<1>7. ToldOf(d) /\ (seen[d] = Never => billed[d] = 0)
  BY <1>1, <1>3 DEF Told, SeenInTime
<1>8. Total(d) \in Nat
  BY <1>1, <1>3, TotalTypes
<1> HIDE DEF d
<1>9. HoursPerDay * (d - 1) <= HoursPerDay * (day - 1)
  BY <1>2, <1>4, Times
<1>10. HoursPerDay * (d - 1) \in Int /\ HoursPerDay * (day - 1) \in Int
  BY <1>2, <1>4, TimesInt
<1>11. HoursPerDay * (d + 1) = HoursPerDay * (d - 1) + 2 * HoursPerDay
  BY <1>2, <1>4
<1>12. Late \in {0, 1} /\ Window >= HoursPerDay
  BY DEF Late, Assumed, MeteringAssumption
<1> DEFINE a == FirstHour(d)
           w == seen[d]
<1>13. a \in Int /\ w \in Int /\ a <= hour /\ hour < a + 2 * HoursPerDay + Late
  <2>1. a = HoursPerDay * (d - 1)
    BY DEF FirstHour
  <2>2. w \in Int
    BY <1>5
  <2> HIDE DEF a, w
  <2> QED
    BY <1>2, <1>4, <1>9, <1>10, <1>11, <2>1, <2>2
<1>14. /\ (w # Never => hour - w >= Window)
       /\ \/ billed[d] = 0
          \/ a <= w /\ billed[d] <= Total(d)
          \/ a + Window <= w /\ billed[d] <= 2 * Total(d)
          \/ a + 2 * Window <= w
  BY <1>6, <1>7 DEF ToldOf
<1>15. w = Never => billed[d] = 0
  BY <1>7
<1> HIDE DEF a, w
<1>16. \/ billed[d] = 0
       \/ billed[d] <= Total(d) /\ a + Window <= hour
       \/ billed[d] <= 2 * Total(d) /\ a + 2 * Window <= hour
  BY <1>2, <1>12, <1>13, <1>14, <1>15
<1> QED
  BY <1>3, <1>13, <1>16 DEF a, d

\* An event is posted: either Stripe discards it, or it is told once more.
LEMMA PushPostKeepsStripe ==
    ASSUME Assumed, StripeInv, MInv', PushPost
    PROVE  StripeInv'
<1>1. MInv /\ Told /\ SeenInTime /\ ReadIsMetered /\ SentInTime
  BY DEF StripeInv
<1>2. /\ UNCHANGED <<usage, day, hour, due>> /\ posting > 0 /\ posting' = 0
      /\ job # <<>> /\ job' = Tail(job)
  <2>1. posting > 0 /\ posting' = 0 /\ job' = Tail(job)
    BY DEF PushPost, Posted
  <2> QED
    BY <1>1, <2>1 DEF PushPost, ingestVars, tableVars, MInv
<1>3. SentInTime'
  BY <1>1, <1>2, RestInTime
<1>4. ReadIsMetered'
  BY <1>2 DEF ReadIsMetered
<1>5. CASE Known(Head(job))
  <2>1. UNCHANGED <<billed, seen>>
    BY <1>5 DEF PushPost, Taken
  <2>2. Told' /\ SeenInTime'
    BY <1>1, <1>2, <2>1 DEF Told, ToldOf, FirstHour, SeenInTime, Total
  <2> QED
    BY <1>3, <1>4, <2>2 DEF StripeInv
<1>6. CASE ~Known(Head(job))
  <2> DEFINE d == Head(job)
  <2>1. /\ d \in Day /\ FirstHour(d) <= hour
        /\ \/ billed[d] = 0
           \/ billed[d] <= Total(d) /\ FirstHour(d) + Window <= hour
           \/ billed[d] <= 2 * Total(d) /\ FirstHour(d) + 2 * Window <= hour
    BY <1>2, <1>6, ToldAgain
  <2>2. posting \in Nat /\ posting <= Total(d) /\ hour \in Nat
    BY <1>1, <1>2, PushTypes DEF ReadIsMetered
  <2>4. billed' = [billed EXCEPT ![d] = @ + posting] /\ seen' = [seen EXCEPT ![d] = hour]
    BY <1>6 DEF PushPost, Taken
  <2>5. Total(d) \in Nat
    BY <1>1, <2>1, TotalTypes
  <2>6. /\ billed \in [Day -> Nat] /\ seen \in [Day -> Never..MaxHour]
    BY <1>1 DEF MInv, TypeOK
  <2> HIDE DEF d
  <2>7. \A e \in Day : Total(e)' = Total(e)
    BY <1>2 DEF Total
  <2>8. billed'[d] = billed[d] + posting /\ seen'[d] = hour
        /\ \A e \in Day : e # d => billed'[e] = billed[e] /\ seen'[e] = seen[e]
    BY <2>1, <2>4, <2>6
  <2>9. \/ FirstHour(d) <= seen'[d] /\ billed'[d] <= Total(d)
        \/ FirstHour(d) + Window <= seen'[d] /\ billed'[d] <= 2 * Total(d)
        \/ FirstHour(d) + 2 * Window <= seen'[d] /\ billed'[d] <= 3 * Total(d)
    <3>1. billed[d] \in Nat
      BY <2>1, <2>6
    <3> QED BY <2>1, <2>2, <2>5, <2>8, <3>1
  <2>10. ASSUME NEW e \in Day PROVE ToldOf(e)'
    <3>1. Total(e)' = Total(e) /\ FirstHour(e)' = FirstHour(e)
      BY <2>7 DEF FirstHour
    <3>2. CASE e = d
      BY <2>9, <3>1, <3>2 DEF ToldOf
    <3>3. CASE e # d
      <4>1. ToldOf(e) /\ billed'[e] = billed[e] /\ seen'[e] = seen[e]
        BY <1>1, <2>8, <3>3 DEF Told
      <4> QED BY <3>1, <4>1 DEF ToldOf
    <3> QED BY <3>2, <3>3
  <2>11. hour # Never
    BY <2>2 DEF Never
  <2>12. SeenInTime'
    BY <1>1, <1>2, <2>2, <2>8, <2>11 DEF SeenInTime
  <2> QED
    BY <1>3, <1>4, <2>10, <2>12 DEF StripeInv, Told
<1> QED
  BY <1>5, <1>6

LEMMA PushFailsKeepsStripe ==
    ASSUME Assumed, StripeInv, MInv', PushFails
    PROVE  StripeInv'
<1>1. MInv /\ Told /\ SeenInTime /\ SentInTime
  BY DEF StripeInv
<1>2. /\ UNCHANGED <<usage, day, hour, due, billed, seen>> /\ posting' = 0
      /\ job # <<>> /\ job' = Tail(job)
  <2>1. posting > 0 /\ posting' = 0 /\ job' = Tail(job)
    BY DEF PushFails, Posted
  <2> QED
    BY <1>1, <2>1 DEF PushFails, tableVars, MInv
<1>3. Told' /\ SeenInTime'
  BY <1>1, <1>2 DEF Told, ToldOf, FirstHour, SeenInTime, Total
<1>4. SentInTime'
  BY <1>1, <1>2, RestInTime
<1> QED
  BY <1>2, <1>3, <1>4 DEF StripeInv, ReadIsMetered

LEMMA DieKeepsStripe ==
    ASSUME Assumed, StripeInv, MInv', Die
    PROVE  StripeInv'
<1>1. Told /\ SeenInTime
  BY DEF StripeInv
<1>2. UNCHANGED <<usage, hour, billed, seen>> /\ posting' = 0 /\ job' = <<>>
  BY DEF Die, ServerDies, tableVars
<1>3. Told' /\ SeenInTime'
  BY <1>1, <1>2 DEF Told, ToldOf, FirstHour, SeenInTime, Total
<1>4. SentInTime'
  BY <1>2 DEF SentInTime
<1> QED
  BY <1>2, <1>3, <1>4 DEF StripeInv, ReadIsMetered

LEMMA StartsUnbilled == Assumed /\ Init => StripeInv
<1> SUFFICES ASSUME Assumed, Init PROVE StripeInv
  OBVIOUS
<1>1. MInv
  BY StartsTyped
<1>2. hour = 0 /\ \A d \in Day : billed[d] = 0 /\ seen[d] = Never /\ Never <= 0
  BY DEF Init, Never
<1>3. Told /\ SeenInTime
  BY <1>2 DEF Told, ToldOf, FirstHour, SeenInTime
<1>4. ReadIsMetered /\ SentInTime
  BY DEF Init, ReadIsMetered, SentInTime
<1> QED
  BY <1>1, <1>3, <1>4 DEF StripeInv

LEMMA StepKeepsStripe ==
    Assumed /\ StripeInv /\ [Next]_vars => StripeInv'
<1> SUFFICES ASSUME Assumed, StripeInv, [Next]_vars PROVE StripeInv'
  OBVIOUS
<1>1. MInv'
  BY StepTyped DEF StripeInv
<1>2. CASE (Serve \/ Fail \/ Administer) /\ UNCHANGED pushVars
  <2>1. UNCHANGED day
    BY <1>2 DEF Serve, Fail, Administer, Arrive, Lookup, Insert, Meter, Fails, InsertLost,
                MeterFails, DeleteSource, DeleteEntries, DeleteProject, RollBack
  <2> QED
    BY <1>1, <1>2, <2>1, AsideKeepsStripe
<1>3. CASE UNCHANGED vars
  BY <1>1, <1>3, AsideKeepsStripe DEF vars, ingestVars
<1>4. CASE Die
  BY <1>1, <1>4, DieKeepsStripe
<1>5. CASE Tick
  BY <1>1, <1>5, TickKeepsStripe
<1>6. CASE PushStart
  BY <1>1, <1>6, PushStartKeepsStripe
<1>7. CASE PushRead
  BY <1>1, <1>7, PushReadKeepsStripe
<1>8. CASE PushPost
  BY <1>1, <1>8, PushPostKeepsStripe
<1>9. CASE PushFails
  BY <1>1, <1>9, PushFailsKeepsStripe
<1> QED
  BY <1>2, <1>3, <1>4, <1>5, <1>6, <1>7, <1>8, <1>9 DEF Next

\* What was told of a day by an hour of it, of the next one, or later.
LEMMA ToldBounds == Assumed /\ StripeInv => BillBounded
<1> SUFFICES ASSUME Assumed, StripeInv, NEW d \in Day
             PROVE  billed[d] <= Tellings(d) * Total(d)
  BY DEF BillBounded
<1>1. MInv /\ ToldOf(d) /\ seen[d] <= hour
  BY DEF StripeInv, Told, SeenInTime
<1>2. /\ HoursPerDay \in Nat \ {0} /\ Window \in Nat /\ hour \in Nat
      /\ day \in Nat \ {0} /\ d \in Nat \ {0} /\ hour < HoursPerDay * day
      /\ Window >= HoursPerDay
  BY <1>1, PushTypes DEF Assumed, MeteringAssumption
<1>3. Total(d) \in Nat /\ billed[d] \in Nat /\ seen[d] \in Int
  BY <1>1, TotalTypes DEF MInv, TypeOK, Never
<1> DEFINE a == FirstHour(d)
<1>4. a \in Int
  BY <1>2, TimesInt DEF FirstHour
<1>5. day = d => hour < a + HoursPerDay
  BY <1>2 DEF FirstHour
<1>6. day = d + 1 => hour < a + 2 * HoursPerDay
  BY <1>2 DEF FirstHour
<1> HIDE DEF a
<1>7. \/ billed[d] = 0 \/ billed[d] <= Total(d)
      \/ a + Window <= seen[d] /\ billed[d] <= 2 * Total(d)
      \/ a + 2 * Window <= seen[d] /\ billed[d] <= 3 * Total(d)
  BY <1>1 DEF ToldOf, a
<1> QED
  BY <1>1, <1>2, <1>3, <1>4, <1>5, <1>6, <1>7 DEF Tellings

\* How often a day can be billed (BillBounded): however often the hourly job
\* reports it, fails, or is cut off by a crash, and whatever Stripe forgets after
\* a day, the bill of a day is right while it lasts, at most doubled in the next
\* and at most tripled for good.
THEOREM BillBoundedHolds == Spec => []BillBounded
<1>1. Assumed
  BY IngestAssumption, MeteringAssumption DEF Assumed
<1>2. StripeInv => BillBounded
  BY <1>1, ToldBounds
<1>3. Init => StripeInv
  BY <1>1, StartsUnbilled
<1>4. StripeInv /\ [Next]_vars => StripeInv'
  BY <1>1, StepKeepsStripe
<1> QED
  BY <1>2, <1>3, <1>4, PTL DEF Spec
===============================================================================
