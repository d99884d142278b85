-------------------------- MODULE AuditChainProofs --------------------------
(***************************************************************************)
(* The audit chain holds for any number of requests, tenants and rows, and *)
(* it implements an append-only log.                                       *)
(*                                                                         *)
(* That a chain never forks is not inductive: two requests that read the   *)
(* same last row would both link to it.  They cannot, because a request    *)
(* that is past its read holds the tenant's lock (LockHeld), its rows are  *)
(* numbered after every committed row of that chain (NewerThanChain), and  *)
(* they are linked to its head and to each other (ChainsLinked).           *)
(* TamperEvident needs one fact more: an edit leaves a forged row, or one  *)
(* whose predecessor is gone, that no append removes (EditsLeaveTraces).   *)
(***************************************************************************)
EXTENDS AuditChain, FiniteSetTheorems, SequenceTheorems, TLAPS

\* The rows and transactions are records of their fields.
IsRow(r) ==
    r = [seq |-> r.seq, tenant |-> r.tenant, user |-> r.user, action |-> r.action,
         prev |-> r.prev, hmac |-> r.hmac]

IsTx(x) ==
    x = [st |-> x.st, tenant |-> x.tenant, user |-> x.user, todo |-> x.todo,
         victim |-> x.victim, prev |-> x.prev, rows |-> x.rows]

\* The chained rows of a tenant, and what a request has recorded so far.
ChainedRows(S, t) == {r \in S : r.tenant = t /\ r.hmac # None}

TxRows(p) == IF tx[p].st = "idle" THEN {} ELSE tx[p].rows

\* What the database keeps true of any set of rows: numbers are positive,
\* bounded and never shared.
Numbered(S) ==
    /\ \E n \in Nat : \A r \in S : r.seq \in 1 .. n
    /\ \A r, s \in S : r.seq = s.seq => r = s

\* In the chain C, r carries the HMAC of the row before it, if there is one.
Follows(C, r) ==
    \/ r.prev = None /\ \A x \in C : r.seq <= x.seq
    \/ \E x \in C : /\ x.seq < r.seq /\ r.prev = x.hmac
                    /\ \A y \in C : y.seq < r.seq => y.seq <= x.seq

Linked(C) == \A r \in C : Follows(C, r)

\* h is what a writer links to.
IsHead(C, h) ==
    \/ h = None /\ C = {}
    \/ \E x \in C : h = x.hmac /\ \A y \in C : y.seq <= x.seq

-----------------------------------------------------------------------------
(* The inductive invariant.                                                *)

VarTypes ==
    /\ key \in BOOLEAN /\ removed \in BOOLEAN /\ seq \in Nat /\ users \subseteq User
    /\ lock \in [Tenant -> Request \cup {"free"}]
    /\ tx = [p \in Request |-> tx[p]]
    /\ tampered \subseteq Tenant /\ ended \subseteq Tenant

\* The HMAC of a committed row digests the row as it was written: its number,
\* its tenant and its predecessor's HMAC never change, its user does when that
\* user is deleted, its action when someone edits it.
Hashed(r) ==
    r.hmac # None =>
        /\ r.hmac = [prev |-> r.prev, row |-> r.hmac.row]
        /\ r.hmac.row = [seq |-> r.seq, user |-> r.hmac.row.user,
                         action |-> r.hmac.row.action, tenant |-> r.tenant]
        /\ r.hmac.row.action \in Action
        /\ ~removed => r.hmac.row.user = r.user
        /\ r.tenant \notin tampered => r.hmac.row.action = r.action

RowsOK == \A r \in rows : IsRow(r) /\ RowType(r) /\ Hashed(r)

\* A row in a transaction is as record() wrote it.
Fresh(p, r) ==
    /\ IsRow(r) /\ r.seq \in 1 .. seq
    /\ r.tenant = tx[p].tenant /\ r.user = tx[p].user /\ r.action \in Action
    /\ r.hmac = IF key THEN ComputeRowHmac(r.prev, CanonicalRow(r)) ELSE None

TxOK ==
    \A p \in Request :
        \/ tx[p] = Idle
        \/ /\ IsTx(tx[p]) /\ tx[p].st \in {"open", "locked", "read"}
           /\ tx[p].tenant \in Tenant /\ tx[p].user \in User /\ tx[p].todo \in Nat
           /\ tx[p].victim # tx[p].user
           /\ \A r \in tx[p].rows : Fresh(p, r)

\* No number is drawn twice.
NumbersDistinct ==
    /\ \A r, s \in rows : r.seq = s.seq => r = s
    /\ \A p \in Request : \A r \in TxRows(p) :
          /\ \A s \in rows : r.seq # s.seq
          /\ \A q \in Request : \A s \in TxRows(q) : r.seq = s.seq => p = q /\ r = s

\* From the first record() to the commit a request holds its tenant's lock.
LockHeld ==
    /\ \A p \in Request : tx[p].st \in {"locked", "read"} =>
          key /\ lock[tx[p].tenant] = p
    /\ \A p \in Request : key /\ TxRows(p) # {} => lock[tx[p].tenant] = p
    /\ \A t \in Tenant : lock[t] # "free" => tx[lock[t]].st # "idle" /\ tx[lock[t]].tenant = t

\* What a request has recorded is newer than its tenant's committed chain.
NewerThanChain ==
    \A p \in Request : key =>
        \A r \in TxRows(p) : \A s \in ChainedRows(rows, tx[p].tenant) : s.seq < r.seq

\* As long as nobody edits a tenant's rows they are linked, and so they are
\* with the rows of a request added; and what a request has read is the head.
ChainsLinked ==
    /\ \A t \in Tenant \ tampered : Linked(ChainedRows(rows, t))
    /\ \A p \in Request : tx[p].st # "idle" /\ tx[p].tenant \notin tampered =>
          Linked(ChainedRows(rows \cup tx[p].rows, tx[p].tenant))
    /\ \A p \in Request : tx[p].st = "read" /\ tx[p].tenant \notin tampered =>
          IsHead(ChainedRows(rows \cup tx[p].rows, tx[p].tenant), tx[p].prev)

\* The trace an edit leaves: a forged row, or a row whose predecessor is gone.
Trace(t, r) ==
    \/ r.action = "forged"
    \/ r.prev # None /\ \A x \in ChainedRows(rows, t) : x.seq < r.seq => x.hmac # r.prev

EditsLeaveTraces == \A t \in tampered \ ended : \E r \in ChainedRows(rows, t) : Trace(t, r)

AuditInv ==
    /\ VarTypes /\ RowsOK /\ TxOK /\ NumbersDistinct /\ LockHeld /\ NewerThanChain
    /\ ChainsLinked /\ EditsLeaveTraces
-----------------------------------------------------------------------------
(* The order of a chain.                                                   *)

\* The rows of S with a number below n, and how many.
Below(S, n) == {x \in S : x.seq < n}

\* A numbered set of rows is finite.
LEMMA NumberedFinite ==
    ASSUME NEW S, Numbered(S)
    PROVE  IsFiniteSet(S)
<1>1. PICK n \in Nat : \A r \in S : r.seq \in 1 .. n
  BY DEF Numbered
<1> DEFINE f == [r \in S |-> r.seq]
<1>2. f \in Injection(S, 1 .. n)
  BY <1>1 DEF Numbered, Injection, IsInjective
<1> QED
  BY <1>2, FS_Interval, FS_Injection

\* No fewer rows below a larger number, and one more past each row.
LEMMA BelowGrows ==
    ASSUME NEW S, Numbered(S), NEW r \in S
    PROVE  /\ Cardinality(Below(S, r.seq)) \in 0 .. Cardinality(S) - 1
           /\ \A s \in S : r.seq < s.seq =>
                 Cardinality(Below(S, r.seq)) < Cardinality(Below(S, s.seq))
<1>1. IsFiniteSet(S) /\ \A x \in S : x.seq \in Nat
  BY NumberedFinite DEF Numbered
<1>2. \A T \in SUBSET S : IsFiniteSet(T) /\ Cardinality(T) \in Nat /\ Cardinality(T) <= Cardinality(S)
  BY <1>1, FS_Subset, FS_CardinalityType
<1>3. \A A \in SUBSET S, B \in SUBSET S :
         A \subseteq B /\ A # B => Cardinality(A) < Cardinality(B)
  <2> TAKE A \in SUBSET S, B \in SUBSET S
  <2> HAVE A \subseteq B /\ A # B
  <2>1. IsFiniteSet(B) /\ Cardinality(A) \in Nat /\ Cardinality(B) \in Nat
    BY <1>2
  <2>2. Cardinality(A) <= Cardinality(B) /\ Cardinality(A) # Cardinality(B)
    BY <2>1, FS_Subset
  <2> QED
    BY <2>1, <2>2
<1>4. Below(S, r.seq) \in SUBSET S /\ ~ (r \in Below(S, r.seq))
  BY <1>1 DEF Below
<1>5. Cardinality(Below(S, r.seq)) < Cardinality(S) /\ Cardinality(S) \in Nat
  BY <1>2, <1>3, <1>4
<1>6. ASSUME NEW s \in S, r.seq < s.seq
      PROVE  Cardinality(Below(S, r.seq)) < Cardinality(Below(S, s.seq))
  <2>1. /\ Below(S, s.seq) \in SUBSET S /\ r \in Below(S, s.seq)
        /\ Below(S, r.seq) \subseteq Below(S, s.seq)
    BY <1>1, <1>6 DEF Below
  <2> QED
    BY <1>3, <1>4, <2>1
<1> QED
  BY <1>2, <1>4, <1>5, <1>6

\* BySeq lists every row of a numbered set once, in the order of the numbers:
\* the row at place i is the one with i - 1 rows below it.
LEMMA BySeqSorts ==
    ASSUME NEW S, Numbered(S)
    PROVE  /\ Cardinality(S) \in Nat
           /\ BySeq(S) \in [1 .. Cardinality(S) -> S]
           /\ \A i \in 1 .. Cardinality(S) : Cardinality(Below(S, BySeq(S)[i].seq)) = i - 1
           /\ \A r \in S : BySeq(S)[Cardinality(Below(S, r.seq)) + 1] = r
<1> DEFINE rank(r) == Cardinality(Below(S, r.seq))
           n == Cardinality(S)
           f == [r \in S |-> rank(r) + 1]
<1>1. IsFiniteSet(S) /\ n \in Nat /\ \A x \in S : x.seq \in Nat
  BY NumberedFinite, FS_CardinalityType DEF Numbered
<1>2. \A r \in S : rank(r) \in 0 .. n - 1
  BY BelowGrows
<1>3. \A r, s \in S : rank(r) = rank(s) => r = s
  <2> SUFFICES ASSUME NEW r \in S, NEW s \in S, rank(r) = rank(s) PROVE r.seq = s.seq
    BY DEF Numbered
  <2>1. rank(r) \in Nat /\ rank(s) \in Nat
    BY <1>2
  <2>2. ~ (r.seq < s.seq)
    BY <2>1, BelowGrows
  <2>3. ~ (s.seq < r.seq)
    BY <2>1, BelowGrows
  <2> QED
    BY <1>1, <2>2, <2>3
<1> HIDE DEF rank
<1>4. f \in Injection(S, 1 .. n)
  <2>1. f \in [S -> 1 .. n]
    BY <1>1, <1>2
  <2>2. \A r, s \in S : f[r] = f[s] => r = s
    BY <1>2, <1>3
  <2> QED
    BY <2>1, <2>2 DEF Injection, IsInjective
<1>5. f \in Surjection(S, 1 .. n)
  BY <1>1, <1>4, FS_Interval, FS_Injection
<1>6. \A i \in 1 .. n : \E r \in S : rank(r) = i - 1
  <2> TAKE i \in 1 .. n
  <2>1. PICK r \in S : f[r] = i
    BY <1>5 DEF Surjection
  <2> QED
    BY <1>1, <1>2, <2>1
<1>7. \A i \in 1 .. n : BySeq(S)[i] = CHOOSE r \in S : rank(r) = i - 1
  BY DEF BySeq, Below, rank
<1>8. \A i \in 1 .. n : BySeq(S)[i] \in S /\ rank(BySeq(S)[i]) = i - 1
  BY <1>6, <1>7
<1>9. \A r \in S : BySeq(S)[rank(r) + 1] = r
  <2> TAKE r \in S
  <2>1. rank(r) + 1 \in 1 .. n /\ rank(r) \in Nat
    BY <1>1, <1>2
  <2> QED
    BY <1>3, <1>8, <2>1
<1>10. BySeq(S) \in [1 .. n -> S]
  BY <1>8 DEF BySeq
<1> QED
  BY <1>1, <1>8, <1>9, <1>10 DEF rank

\* The row before the one at place i is the closest below it; the first has none.
LEMMA BySeqNeighbours ==
    ASSUME NEW S, Numbered(S), NEW i \in 1 .. Cardinality(S)
    PROVE  /\ i = 1 => \A x \in S : BySeq(S)[i].seq <= x.seq
           /\ i # 1 => /\ i - 1 \in 1 .. Cardinality(S)
                       /\ BySeq(S)[i - 1].seq < BySeq(S)[i].seq
                       /\ \A x \in S : x.seq < BySeq(S)[i].seq => x.seq <= BySeq(S)[i - 1].seq
           /\ i = Cardinality(S) => \A x \in S : x.seq <= BySeq(S)[i].seq
<1> DEFINE c == BySeq(S)
           rank(r) == Cardinality(Below(S, r.seq))
<1>1. /\ Cardinality(S) \in Nat /\ c \in [1 .. Cardinality(S) -> S]
      /\ \A j \in 1 .. Cardinality(S) : rank(c[j]) = j - 1
  BY BySeqSorts
<1>2. \A x \in S : x.seq \in Nat /\ rank(x) \in 0 .. Cardinality(S) - 1
  BY BelowGrows DEF Numbered
<1>3. \A r, s \in S : r.seq < s.seq => rank(r) < rank(s)
  BY BelowGrows
<1> HIDE DEF rank, c
<1>4. \A r, s \in S : rank(r) < rank(s) => r.seq < s.seq
  <2> SUFFICES ASSUME NEW r \in S, NEW s \in S, rank(r) < rank(s), ~ (r.seq < s.seq)
               PROVE  FALSE
    OBVIOUS
  <2>1. CASE r.seq = s.seq
    BY <1>2, <2>1 DEF rank
  <2>2. CASE s.seq < r.seq
    BY <1>2, <1>3, <2>2
  <2> QED
    BY <1>2, <2>1, <2>2
<1>5. ASSUME i = 1, NEW x \in S PROVE c[i].seq <= x.seq
  BY <1>1, <1>2, <1>3, <1>5
<1>6. ASSUME i # 1
      PROVE  /\ i - 1 \in 1 .. Cardinality(S) /\ c[i - 1].seq < c[i].seq
             /\ \A x \in S : x.seq < c[i].seq => x.seq <= c[i - 1].seq
  <2>1. i - 1 \in 1 .. Cardinality(S) /\ c[i] \in S /\ c[i - 1] \in S
    BY <1>1, <1>6
  <2>2. rank(c[i]) = i - 1 /\ rank(c[i - 1]) = i - 2
    BY <1>1, <2>1
  <2>3. c[i - 1].seq < c[i].seq
    BY <1>4, <2>1, <2>2
  <2>4. ASSUME NEW x \in S, x.seq < c[i].seq, ~ (x.seq <= c[i - 1].seq) PROVE FALSE
    <3>1. rank(x) < i - 1 /\ i - 2 < rank(x)
      BY <1>2, <1>3, <2>1, <2>2, <2>4
    <3> QED
      BY <1>2, <3>1
  <2> QED
    BY <2>1, <2>3, <2>4
<1>7. ASSUME i = Cardinality(S), NEW x \in S PROVE x.seq <= c[i].seq
  BY <1>1, <1>2, <1>3, <1>7
<1> QED
  BY <1>5, <1>6, <1>7 DEF c

\* The verifier finds no break in a chain whose rows are linked and as hashed.
LEMMA LinkedHasNoBreaks ==
    ASSUME NEW S, NEW t, Numbered(ChainedRows(S, t)), Linked(ChainedRows(S, t)),
           \A r \in ChainedRows(S, t) : r.hmac = ComputeRowHmac(r.prev, CanonicalRow(r))
    PROVE  Breaks(S, t) = {}
<1> DEFINE C == ChainedRows(S, t)
           c == Chained(S, t)
           prev(i) == IF i = 1 THEN None ELSE c[i - 1].hmac
<1>1. c = BySeq(C)
  BY DEF Chained, ChainedRows
<1>2. Cardinality(C) \in Nat /\ c \in [1 .. Cardinality(C) -> C] /\ DOMAIN c = 1 .. Cardinality(C)
  BY <1>1, BySeqSorts
<1>3. \A x, y \in C : x.seq \in Nat /\ (x.seq = y.seq => x = y)
  BY DEF Numbered
<1>4. ASSUME NEW i \in 1 .. Cardinality(C) PROVE c[i].prev = prev(i)
  <2>1. c[i] \in C
    BY <1>2
  <2>2. Follows(C, c[i])
    BY <2>1 DEF Linked
  <2> HIDE DEF C, c
  <2>3. CASE i = 1
    <3>1. \A x \in C : c[i].seq <= x.seq
      BY <1>1, <2>3, BySeqNeighbours DEF C
    <3>2. ~ \E x \in C : x.seq < c[i].seq
      BY <1>3, <2>1, <3>1
    <3>3. c[i].prev = None
      BY <2>2, <3>2 DEF Follows
    <3> QED
      BY <2>3, <3>3
  <2>4. CASE i # 1
    <3>1. /\ i - 1 \in 1 .. Cardinality(C) /\ c[i - 1].seq < c[i].seq
          /\ \A x \in C : x.seq < c[i].seq => x.seq <= c[i - 1].seq
      BY <1>1, <2>4, BySeqNeighbours DEF C
    <3>2. c[i - 1] \in C
      BY <1>2, <3>1
    <3>3. ~ (c[i].seq <= c[i - 1].seq)
      BY <1>3, <2>1, <3>1, <3>2
    <3>4. PICK x \in C : /\ x.seq < c[i].seq /\ c[i].prev = x.hmac
                         /\ \A y \in C : y.seq < c[i].seq => y.seq <= x.seq
      BY <2>2, <3>2, <3>3 DEF Follows
    <3>5. x.seq <= c[i - 1].seq /\ c[i - 1].seq <= x.seq
      BY <3>1, <3>2, <3>4
    <3>6. x = c[i - 1]
      BY <1>3, <3>2, <3>5
    <3> QED
      BY <2>4, <3>4, <3>6
  <2> QED
    BY <2>3, <2>4
<1>5. \A i \in 1 .. Cardinality(C) : c[i].hmac = ComputeRowHmac(c[i].prev, CanonicalRow(c[i]))
  BY <1>2
<1> HIDE DEF C, c, prev
<1>6. {j \in DOMAIN c : c[j].prev # prev(j)} = {}
  BY <1>2, <1>4
<1>7. {j \in DOMAIN c : c[j].hmac # ComputeRowHmac(c[j].prev, CanonicalRow(c[j]))} = {}
  BY <1>2, <1>5
<1>8. Breaks(S, t) = {<<c[i].seq, "prev_hmac">> : i \in {j \in DOMAIN c : c[j].prev # prev(j)}}
          \cup {<<c[i].seq, "row_hmac">> : i \in
                  {j \in DOMAIN c : c[j].hmac # ComputeRowHmac(c[j].prev, CanonicalRow(c[j]))}}
  BY DEF Breaks, c, prev
<1> QED
  BY <1>6, <1>7, <1>8

\* A row that is not as hashed, or that follows no row, is a break.
LEMMA TraceIsABreak ==
    ASSUME NEW S, NEW t, Numbered(ChainedRows(S, t)), NEW r \in ChainedRows(S, t),
           \/ r.hmac # ComputeRowHmac(r.prev, CanonicalRow(r))
           \/ r.prev # None /\ \A x \in ChainedRows(S, t) : x.seq < r.seq => x.hmac # r.prev
    PROVE  Breaks(S, t) # {}
<1> DEFINE C == ChainedRows(S, t)
           c == Chained(S, t)
           prev(i) == IF i = 1 THEN None ELSE c[i - 1].hmac
           i0 == Cardinality(Below(C, r.seq)) + 1
<1>1. c = BySeq(C)
  BY DEF Chained, ChainedRows
<1>2. Cardinality(C) \in Nat /\ c \in [1 .. Cardinality(C) -> C] /\ DOMAIN c = 1 .. Cardinality(C)
  BY <1>1, BySeqSorts
<1>3. i0 \in 1 .. Cardinality(C) /\ c[i0] = r
  <2>1. Cardinality(Below(C, r.seq)) \in 0 .. Cardinality(C) - 1
    BY BelowGrows
  <2>2. c[i0] = r
    BY <1>1, BySeqSorts
  <2> QED
    BY <1>2, <2>1, <2>2
<1> HIDE DEF i0
<1>4. CASE r.prev # None /\ \A x \in C : x.seq < r.seq => x.hmac # r.prev
  <2>1. c[i0].prev # prev(i0)
    <3>1. CASE i0 = 1
      BY <1>3, <1>4, <3>1
    <3>2. CASE i0 # 1
      <4>1. i0 - 1 \in 1 .. Cardinality(C) /\ c[i0 - 1].seq < c[i0].seq
        BY <1>1, <1>3, <3>2, BySeqNeighbours
      <4>2. c[i0 - 1] \in C
        BY <1>2, <4>1
      <4> QED
        BY <1>3, <1>4, <3>2, <4>1, <4>2
    <3> QED
      BY <3>1, <3>2
  <2>2. <<c[i0].seq, "prev_hmac">> \in Breaks(S, t)
    BY <1>2, <1>3, <2>1 DEF Breaks
  <2> QED
    BY <2>2
<1>5. CASE r.hmac # ComputeRowHmac(r.prev, CanonicalRow(r))
  <2>1. <<c[i0].seq, "row_hmac">> \in Breaks(S, t)
    BY <1>2, <1>3, <1>5 DEF Breaks
  <2> QED
    BY <2>1
<1> QED
  BY <1>4, <1>5

\* _head_hmac returns the HMAC of the tenant's newest chained row.
LEMMA HeadHmacIsHead ==
    ASSUME NEW S, NEW t, Numbered(ChainedRows(S, t))
    PROVE  IsHead(ChainedRows(S, t), HeadHmac(S, t))
<1> DEFINE C == ChainedRows(S, t)
           c == Chained(S, t)
           n == Cardinality(C)
<1>1. c = BySeq(C)
  BY DEF Chained, ChainedRows
<1>2. n \in Nat /\ c \in [1 .. n -> C]
  BY <1>1, BySeqSorts
<1>3. c \in Seq(C) /\ Len(c) = n
  BY <1>2
<1>4. IsFiniteSet(C)
  BY NumberedFinite
<1>5. CASE n = 0
  <2>1. C = {} /\ c = <<>>
    BY <1>3, <1>4, <1>5, FS_EmptySet, EmptySeq
  <2> QED
    BY <2>1 DEF IsHead, HeadHmac
<1>6. CASE n # 0
  <2>1. c # <<>> /\ n \in 1 .. n
    BY <1>2, <1>3, <1>6, EmptySeq
  <2>2. HeadHmac(S, t) = c[n].hmac
    BY <1>3, <2>1 DEF HeadHmac, Last
  <2>3. c[n] \in C /\ \A x \in C : x.seq <= c[n].seq
    BY <1>1, <1>2, <2>1, BySeqNeighbours
  <2> HIDE DEF C, c, n
  <2> QED
    BY <2>2, <2>3 DEF IsHead, C
<1> QED
  BY <1>5, <1>6

\* A new row that carries the head's HMAC extends the chain.
LEMMA AppendLinks ==
    ASSUME NEW C, Linked(C), NEW r, r.seq \in Nat,
           \A x \in C : x.seq \in Nat /\ x.seq < r.seq, IsHead(C, r.prev)
    PROVE  Linked(C \cup {r})
<1> DEFINE D == C \cup {r}
<1>2. ASSUME NEW x \in C PROVE Follows(D, x)
  <2>1. Follows(C, x)
    BY DEF Linked
  <2>2. CASE x.prev = None /\ \A y \in C : x.seq <= y.seq
    BY <2>2 DEF Follows
  <2>3. CASE \E y \in C : /\ y.seq < x.seq /\ x.prev = y.hmac
                          /\ \A z \in C : z.seq < x.seq => z.seq <= y.seq
    <3>1. PICK y \in C : /\ y.seq < x.seq /\ x.prev = y.hmac
                         /\ \A z \in C : z.seq < x.seq => z.seq <= y.seq
      BY <2>3
    <3>2. y \in D /\ \A z \in D : z.seq < x.seq => z.seq <= y.seq
      BY <3>1
    <3> HIDE DEF D
    <3> QED
      BY <3>1, <3>2 DEF Follows
  <2> QED
    BY <2>1, <2>2, <2>3 DEF Follows
<1>3. Follows(D, r)
  <2>1. CASE r.prev = None /\ C = {}
    BY <2>1 DEF Follows
  <2>2. CASE \E x \in C : r.prev = x.hmac /\ \A y \in C : y.seq <= x.seq
    <3>1. PICK x \in C : r.prev = x.hmac /\ \A y \in C : y.seq <= x.seq
      BY <2>2
    <3>2. x \in D /\ x.seq < r.seq /\ \A y \in D : y.seq < r.seq => y.seq <= x.seq
      BY <3>1
    <3> HIDE DEF D
    <3> QED
      BY <3>1, <3>2 DEF Follows
  <2> QED
    BY <2>1, <2>2 DEF IsHead
<1> QED
  BY <1>2, <1>3 DEF Linked
-----------------------------------------------------------------------------
(* The deletion of a user.                                                 *)

\* What the deletion of user v leaves of a row.
Anonymized(r, v) == IF r.user = v THEN [r EXCEPT !.user = "null"] ELSE r

\* Rows with the same place in the chain and the same links.
SamePlace(r, s) ==
    r.seq = s.seq /\ r.tenant = s.tenant /\ r.action = s.action /\ r.prev = s.prev /\ r.hmac = s.hmac

\* Only the user of a row changes.
LEMMA AnonymizedRow ==
    ASSUME NEW r, IsRow(r), NEW v
    PROVE  /\ IsRow(Anonymized(r, v)) /\ SamePlace(r, Anonymized(r, v))
           /\ Anonymized(r, v).user = IF r.user = v THEN "null" ELSE r.user
<1>1. CASE r.user = v
  <2> DEFINE a == [seq |-> r.seq, tenant |-> r.tenant, user |-> "null", action |-> r.action,
                   prev |-> r.prev, hmac |-> r.hmac]
  <2>1. Anonymized(r, v) = a
    BY <1>1 DEF Anonymized, IsRow
  <2> QED
    BY <1>1, <2>1 DEF IsRow, SamePlace
<1>2. CASE r.user # v
  BY <1>2 DEF Anonymized, SamePlace
<1> QED
  BY <1>1, <1>2

\* Chains with the same places and links are linked alike.
LEMMA SamePlacesLinked ==
    ASSUME NEW C, NEW D,
           \A c \in C : \E d \in D : SamePlace(c, d), \A d \in D : \E c \in C : SamePlace(c, d)
    PROVE  /\ Linked(C) => Linked(D)
           /\ \A h : IsHead(C, h) => IsHead(D, h)
<1>1. ASSUME Linked(C), NEW d \in D PROVE Follows(D, d)
  <2>1. PICK c \in C : SamePlace(c, d)
    OBVIOUS
  <2>2. Follows(C, c)
    BY <1>1 DEF Linked
  <2>3. CASE c.prev = None /\ \A x \in C : c.seq <= x.seq
    <3>1. \A y \in D : d.seq <= y.seq
      BY <2>1, <2>3 DEF SamePlace
    <3> QED
      BY <2>1, <2>3, <3>1 DEF Follows, SamePlace
  <2>4. ASSUME NEW x \in C, x.seq < c.seq, c.prev = x.hmac,
               \A y \in C : y.seq < c.seq => y.seq <= x.seq
        PROVE  Follows(D, d)
    <3>1. PICK z \in D : SamePlace(x, z)
      OBVIOUS
    <3>2. z.seq < d.seq /\ d.prev = z.hmac
      BY <2>1, <2>4, <3>1 DEF SamePlace
    <3>3. \A y \in D : y.seq < d.seq => y.seq <= z.seq
      BY <2>1, <2>4, <3>1 DEF SamePlace
    <3> QED
      BY <3>2, <3>3 DEF Follows
  <2> QED
    BY <2>2, <2>3, <2>4 DEF Follows
<1>2. ASSUME NEW h, IsHead(C, h) PROVE IsHead(D, h)
  <2>1. CASE h = None /\ C = {}
    BY <2>1 DEF IsHead
  <2>2. ASSUME NEW x \in C, h = x.hmac, \A y \in C : y.seq <= x.seq PROVE IsHead(D, h)
    <3>1. PICK z \in D : SamePlace(x, z)
      OBVIOUS
    <3>2. h = z.hmac /\ \A y \in D : y.seq <= z.seq
      BY <2>2, <3>1 DEF SamePlace
    <3> QED
      BY <3>2 DEF IsHead
  <2> QED
    BY <1>2, <2>1, <2>2 DEF IsHead
<1> QED
  BY <1>1, <1>2 DEF Linked

\* Row by row, the table before and after the deletion.
LEMMA AnonymizedRows ==
    ASSUME NEW S, \A r \in S : IsRow(r), NEW v
    PROVE  /\ \A r \in S : Anonymized(r, v) \in Anonymize(S, v)
           /\ \A a \in Anonymize(S, v) : \E r \in S : a = Anonymized(r, v) /\ SamePlace(r, a)
           /\ \A t : /\ \A r \in ChainedRows(S, t) :
                           \E a \in ChainedRows(Anonymize(S, v), t) : SamePlace(r, a)
                     /\ \A a \in ChainedRows(Anonymize(S, v), t) :
                           \E r \in ChainedRows(S, t) : SamePlace(r, a)
<1>1. Anonymize(S, v) = {Anonymized(r, v) : r \in S}
  BY DEF Anonymize, Anonymized
<1>2. \A r \in S : SamePlace(r, Anonymized(r, v))
  BY AnonymizedRow
<1>3. /\ \A r \in S : Anonymized(r, v) \in Anonymize(S, v)
      /\ \A a \in Anonymize(S, v) : \E r \in S : a = Anonymized(r, v) /\ SamePlace(r, a)
  BY <1>1, <1>2
<1>4. ASSUME NEW t, NEW r \in ChainedRows(S, t)
      PROVE  \E a \in ChainedRows(Anonymize(S, v), t) : SamePlace(r, a)
  <2>1. Anonymized(r, v) \in ChainedRows(Anonymize(S, v), t)
    BY <1>2, <1>3 DEF ChainedRows, SamePlace
  <2> QED
    BY <1>2, <2>1 DEF ChainedRows
<1>5. ASSUME NEW t, NEW a \in ChainedRows(Anonymize(S, v), t)
      PROVE  \E r \in ChainedRows(S, t) : SamePlace(r, a)
  <2>1. PICK r \in S : a = Anonymized(r, v) /\ SamePlace(r, a)
    BY <1>3 DEF ChainedRows
  <2>2. r \in ChainedRows(S, t)
    BY <2>1 DEF ChainedRows, SamePlace
  <2> QED
    BY <2>1, <2>2
<1> QED
  BY <1>3, <1>4, <1>5
-----------------------------------------------------------------------------
(* The invariant is kept by the steps that leave the table alone.          *)

\* At the start the table is empty and no request is in flight.
LEMMA AuditInvInit == Init => AuditInv
<1> SUFFICES ASSUME Init PROVE AuditInv
  OBVIOUS
<1> USE DEF Init
<1>1. \A p \in Request : tx[p] = Idle /\ tx[p].st = "idle" /\ TxRows(p) = {}
  BY DEF Idle, TxRows
<1>2. VarTypes
  BY DEF VarTypes
<1>3. RowsOK /\ TxOK /\ NumbersDistinct
  BY <1>1 DEF RowsOK, TxOK, NumbersDistinct
<1>4. LockHeld /\ NewerThanChain
  BY <1>1 DEF LockHeld, NewerThanChain
<1>5. ChainsLinked /\ EditsLeaveTraces
  BY <1>1 DEF ChainsLinked, EditsLeaveTraces, Linked, ChainedRows
<1> QED
  BY <1>2, <1>3, <1>4, <1>5 DEF AuditInv

\* The transaction of a request in flight.
LEMMA TxInFlight ==
    ASSUME AuditInv, NEW p \in Request, tx[p] # Idle
    PROVE  /\ IsTx(tx[p]) /\ tx[p].st \in {"open", "locked", "read"} /\ tx[p].tenant \in Tenant
           /\ tx[p].user \in User /\ tx[p].todo \in Nat /\ tx[p].victim # tx[p].user
           /\ TxRows(p) = tx[p].rows
           /\ \A r \in tx[p].rows : Fresh(p, r)
  BY DEF AuditInv, TxOK, TxRows

\* A request without a transaction.
LEMMA TxIdle ==
    ASSUME AuditInv, NEW p \in Request
    PROVE  (tx[p] = Idle <=> tx[p].st = "idle") /\ (tx[p] = Idle => TxRows(p) = {})
  BY DEF AuditInv, TxOK, TxRows, Idle

\* A step of request p leaves the other transactions alone.
LEMMA OthersUntouched ==
    ASSUME AuditInv, NEW p \in Request, NEW v, tx' = [tx EXCEPT ![p] = v]
    PROVE  /\ tx' = [q \in Request |-> tx'[q]] /\ tx'[p] = v
           /\ \A q \in Request \ {p} : tx'[q] = tx[q] /\ TxRows(q)' = TxRows(q)
<1>1. tx' = [q \in Request |-> tx'[q]] /\ tx'[p] = v /\ \A q \in Request \ {p} : tx'[q] = tx[q]
  BY DEF AuditInv, VarTypes
<1> QED
  BY <1>1 DEF TxRows

\* What stays true of the table when a step does not touch it.
LEMMA TableUntouched ==
    ASSUME AuditInv, UNCHANGED <<rows, removed, tampered, ended>>, seq' \in Nat, seq <= seq'
    PROVE  /\ RowsOK' /\ EditsLeaveTraces'
           /\ \A t \in Tenant \ tampered' : Linked(ChainedRows(rows', t))
           /\ \A r, s \in rows' : r.seq = s.seq => r = s
<1>1. RowsOK'
  <2> SUFFICES ASSUME NEW r \in rows PROVE (IsRow(r) /\ RowType(r) /\ Hashed(r))'
    BY DEF RowsOK
  <2>1. IsRow(r) /\ RowType(r) /\ Hashed(r)
    BY DEF AuditInv, RowsOK
  <2>2. RowType(r)'
    BY <2>1 DEF RowType, AuditInv, VarTypes
  <2>3. Hashed(r)'
    BY <2>1 DEF Hashed
  <2> QED
    BY <2>1, <2>2, <2>3
<1>2. EditsLeaveTraces'
  BY DEF AuditInv, EditsLeaveTraces, Trace
<1> QED
  BY <1>1, <1>2 DEF AuditInv, ChainsLinked, NumbersDistinct

\* What p's transaction may become while it records nothing.
MayBecome(p, v) ==
    /\ IsTx(v) /\ v.st \in {"open", "locked", "read"} /\ v.tenant \in Tenant
    /\ v.user \in User /\ v.todo \in Nat /\ v.victim # v.user
    /\ v.rows = TxRows(p)
    /\ v.rows # {} => v.tenant = tx[p].tenant /\ v.user = tx[p].user
    /\ v.st \in {"locked", "read"} => key /\ lock'[v.tenant] = p
    /\ key /\ v.rows # {} => lock'[v.tenant] = p
    /\ v.st = "read" /\ v.tenant \notin tampered =>
          IsHead(ChainedRows(rows \cup v.rows, v.tenant), v.prev)

\* A step of p that leaves the table, the key and the sequence alone, that
\* gives p new fields but the same rows or none, and that touches no lock
\* another request holds, keeps the invariant if p's own part holds.
LEMMA RequestStep ==
    ASSUME AuditInv, NEW p \in Request, tx' = [tx EXCEPT ![p] = tx'[p]],
           UNCHANGED <<key, seq, rows, users, history>>,
           lock' \in [Tenant -> Request \cup {"free"}],
           \A t \in Tenant : lock'[t] = lock[t] \/ (lock[t] \in {"free", p} /\ lock'[t] \in {"free", p}),
           \A t \in Tenant : lock'[t] = p => tx'[p].st # "idle" /\ tx'[p].tenant = t,
           tx'[p] = Idle \/ MayBecome(p, tx'[p])
    PROVE  AuditInv'
<1> DEFINE v == tx'[p]
<1> USE DEF MayBecome
<1>1. /\ tx' = [q \in Request |-> tx'[q]] /\ tx'[p] = v
      /\ \A q \in Request \ {p} : tx'[q] = tx[q] /\ TxRows(q)' = TxRows(q)
  BY OthersUntouched
<1>2. TxRows(p)' \subseteq TxRows(p) /\ (v.st # "idle" => TxRows(p)' = v.rows) /\ (v = Idle => TxRows(p)' = {})
  BY <1>1 DEF TxRows, Idle
<1>3. UNCHANGED <<removed, tampered, ended>> /\ seq \in Nat /\ seq <= seq
  BY DEF history, AuditInv, VarTypes
<1>4. VarTypes'
  BY <1>1, <1>3 DEF AuditInv, VarTypes
<1>5. TxRows(p) # {} => tx[p] # Idle /\ tx[p].tenant \in Tenant
  BY TxIdle, TxInFlight
<1>6. TxOK'
  <2> SUFFICES ASSUME NEW q \in Request
               PROVE  \/ tx'[q] = Idle
                      \/ /\ IsTx(tx'[q]) /\ tx'[q].st \in {"open", "locked", "read"}
                         /\ tx'[q].tenant \in Tenant /\ tx'[q].user \in User /\ tx'[q].todo \in Nat
                         /\ tx'[q].victim # tx'[q].user
                         /\ \A r \in tx'[q].rows : Fresh(q, r)'
    BY DEF TxOK
  <2>1. CASE q # p
    <3>1. tx[q] # Idle => \A r \in tx[q].rows : Fresh(q, r)'
      BY <1>1, <2>1, TxInFlight DEF Fresh
    <3> QED
      BY <1>1, <2>1, <3>1, TxInFlight
  <2>2. CASE q = p
    <3>1. ASSUME v # Idle, NEW r \in v.rows PROVE Fresh(p, r)'
      <4>1. v.rows = TxRows(p) /\ v.tenant = tx[p].tenant /\ v.user = tx[p].user
        BY <3>1
      <4>2. Fresh(p, r)
        BY <1>5, <3>1, <4>1, TxInFlight
      <4> QED
        BY <1>1, <4>1, <4>2 DEF Fresh
    <3> QED
      BY <1>1, <2>2, <3>1
  <2> QED
    BY <2>1, <2>2
<1>7. \A q \in Request : TxRows(q)' \subseteq TxRows(q)
  BY <1>1, <1>2
<1>8. NumbersDistinct'
  BY <1>3, <1>7, TableUntouched DEF NumbersDistinct, AuditInv
<1>9. LockHeld'
  <2>1. \A q \in Request \ {p} : \A t \in Tenant : lock[t] = q => lock'[t] = q
    BY AuditChainAssumption
  <2>2. \A q \in Request \ {p} : tx[q] # Idle => tx[q].tenant \in Tenant
    BY TxInFlight
  <2>3. ASSUME NEW q \in Request, tx'[q].st \in {"locked", "read"}
        PROVE  key' /\ lock'[tx'[q].tenant] = q
    <3>1. CASE q = p
      BY <1>1, <2>3, <3>1 DEF Idle
    <3>2. CASE q # p
      <4>1. tx[q].st \in {"locked", "read"} /\ tx[q] # Idle
        BY <1>1, <2>3, <3>2 DEF Idle
      <4>2. key /\ lock[tx[q].tenant] = q
        BY <4>1 DEF AuditInv, LockHeld
      <4> QED
        BY <1>1, <2>1, <2>2, <3>2, <4>1, <4>2
    <3> QED
      BY <3>1, <3>2
  <2>4. ASSUME NEW q \in Request, key', TxRows(q)' # {} PROVE lock'[tx'[q].tenant] = q
    <3>1. CASE q = p
      BY <1>1, <1>2, <2>4, <3>1 DEF Idle
    <3>2. CASE q # p
      <4>1. tx[q] # Idle /\ lock[tx[q].tenant] = q
        BY <1>1, <2>4, <3>2, TxIdle DEF AuditInv, LockHeld
      <4> QED
        BY <1>1, <2>1, <2>2, <3>2, <4>1
    <3> QED
      BY <3>1, <3>2
  <2>5. ASSUME NEW t \in Tenant, lock'[t] # "free"
        PROVE  tx'[lock'[t]].st # "idle" /\ tx'[lock'[t]].tenant = t
    <3>1. CASE lock'[t] = p
      BY <1>1, <3>1
    <3>2. CASE lock'[t] # p
      <4>1. lock'[t] = lock[t] /\ lock[t] # "free" /\ lock[t] \in Request \ {p}
        BY <2>5, <3>2 DEF AuditInv, VarTypes
      <4> QED
        BY <1>1, <4>1 DEF AuditInv, LockHeld
    <3> QED
      BY <3>1, <3>2
  <2> QED
    BY <2>3, <2>4, <2>5 DEF LockHeld
<1>10. NewerThanChain'
  <2> SUFFICES ASSUME NEW q \in Request, key, NEW r \in TxRows(q)',
                      NEW s \in ChainedRows(rows, tx'[q].tenant)
               PROVE  s.seq < r.seq
    BY DEF NewerThanChain
  <2>1. r \in TxRows(q) /\ tx'[q].tenant = tx[q].tenant
    BY <1>1, <1>2, <1>7
  <2> QED
    BY <2>1 DEF AuditInv, NewerThanChain
<1>11. ChainsLinked'
  <2>1. ASSUME NEW q \in Request, tx'[q].st # "idle", tx'[q].tenant \notin tampered'
        PROVE  Linked(ChainedRows(rows \cup tx'[q].rows, tx'[q].tenant))
    <3>1. CASE q # p
      BY <1>1, <1>3, <2>1, <3>1 DEF AuditInv, ChainsLinked
    <3>2. CASE q = p /\ v.rows # {}
      <4>1. v # Idle /\ v.rows = TxRows(p) /\ tx[p] # Idle /\ v.tenant = tx[p].tenant
        BY <1>1, <1>5, <2>1, <3>2 DEF Idle
      <4>2. v.rows = tx[p].rows /\ tx[p].st # "idle"
        BY <4>1, TxInFlight, TxIdle
      <4> QED
        BY <1>1, <1>3, <2>1, <3>2, <4>1, <4>2 DEF AuditInv, ChainsLinked
    <3>3. CASE q = p /\ v.rows = {}
      <4>1. v.tenant \in Tenant \ tampered
        BY <1>1, <1>3, <2>1, <3>3 DEF Idle
      <4>2. rows \cup v.rows = rows
        BY <3>3
      <4>3. Linked(ChainedRows(rows, v.tenant))
        BY <4>1 DEF AuditInv, ChainsLinked
      <4> QED
        BY <1>1, <3>3, <4>2, <4>3
    <3> QED
      BY <3>1, <3>2, <3>3
  <2>2. ASSUME NEW q \in Request, tx'[q].st = "read", tx'[q].tenant \notin tampered'
        PROVE  IsHead(ChainedRows(rows \cup tx'[q].rows, tx'[q].tenant), tx'[q].prev)
    <3>1. CASE q # p
      BY <1>1, <1>3, <2>2, <3>1 DEF AuditInv, ChainsLinked
    <3>2. CASE q = p
      <4>1. v.st = "read" /\ v # Idle /\ v.tenant \notin tampered
        BY <1>1, <1>3, <2>2, <3>2 DEF Idle
      <4>2. IsHead(ChainedRows(rows \cup v.rows, v.tenant), v.prev)
        BY <4>1
      <4> QED
        BY <1>1, <3>2, <4>2
    <3> QED
      BY <3>1, <3>2
  <2> QED
    BY <1>3, <2>1, <2>2, TableUntouched DEF ChainsLinked
<1> QED
  BY <1>3, <1>4, <1>6, <1>8, <1>9, <1>10, <1>11, TableUntouched DEF AuditInv

\* Begin: a new transaction holds nothing.
LEMMA BeginKeeps == ASSUME AuditInv, NEW p \in Request, Begin(p) PROVE AuditInv'
<1>1. PICK t \in Tenant, u \in users, n \in 1 .. 2, victim \in users \cup {"none"} :
         /\ victim # u
         /\ tx' = [tx EXCEPT ![p] = [st |-> "open", tenant |-> t, user |-> u, todo |-> n,
                                     victim |-> victim, prev |-> None, rows |-> {}]]
  BY DEF Begin
<1> DEFINE v == [st |-> "open", tenant |-> t, user |-> u, todo |-> n,
                 victim |-> victim, prev |-> None, rows |-> {}]
<1>2. /\ IsTx(v) /\ v.st = "open" /\ v.tenant \in Tenant /\ v.user \in User /\ v.todo \in Nat
      /\ v.victim # v.user /\ v.rows = {}
  BY <1>1 DEF IsTx, AuditInv, VarTypes
<1>3. tx[p] = Idle /\ TxRows(p) = {} /\ UNCHANGED <<key, seq, rows, users, lock, history>>
  BY TxIdle DEF Begin, history
<1>4. \A t0 \in Tenant : lock[t0] # p
  BY <1>3, TxIdle, AuditChainAssumption DEF AuditInv, LockHeld
<1>5. lock' \in [Tenant -> Request \cup {"free"}]
  BY <1>3 DEF AuditInv, VarTypes
<1> HIDE DEF v
<1>6. tx' = [tx EXCEPT ![p] = v]
  BY <1>1 DEF v
<1> QED
  <2>1. MayBecome(p, v)
    BY <1>2, <1>3 DEF MayBecome
  <2>2. tx'[p] = v /\ tx' = [tx EXCEPT ![p] = tx'[p]]
    BY <1>6, OthersUntouched
  <2> QED
    BY <1>3, <1>4, <1>5, <2>1, <2>2, RequestStep

\* Lock: the request waits until the lock is free or its own.
LEMMA LockKeeps == ASSUME AuditInv, NEW p \in Request, Lock(p) PROVE AuditInv'
<1> DEFINE v == [st |-> "locked", tenant |-> tx[p].tenant, user |-> tx[p].user, todo |-> tx[p].todo,
                 victim |-> tx[p].victim, prev |-> tx[p].prev, rows |-> tx[p].rows]
<1>1. tx[p] # Idle /\ key /\ lock[tx[p].tenant] \in {"free", p}
  BY DEF Lock, Idle
<1>2. /\ IsTx(tx[p]) /\ tx[p].tenant \in Tenant /\ tx[p].user \in User /\ tx[p].todo \in Nat
      /\ tx[p].victim # tx[p].user /\ TxRows(p) = tx[p].rows
  BY <1>1, TxInFlight
<1>3. tx' = [tx EXCEPT ![p] = v]
  <2>1. [tx[p] EXCEPT !.st = "locked"] = v
    BY <1>2 DEF IsTx
  <2> QED
    BY <2>1 DEF Lock
<1>4. /\ IsTx(v) /\ v.st = "locked" /\ v.tenant \in Tenant /\ v.user \in User /\ v.todo \in Nat
      /\ v.victim # v.user /\ v.rows = TxRows(p) /\ v.tenant = tx[p].tenant /\ v.user = tx[p].user
  BY <1>2 DEF IsTx
<1>5. /\ lock' \in [Tenant -> Request \cup {"free"}] /\ lock'[tx[p].tenant] = p
      /\ \A t \in Tenant \ {tx[p].tenant} : lock'[t] = lock[t]
  BY <1>2 DEF AuditInv, VarTypes, Lock
<1>6. \A t \in Tenant : lock'[t] = p => v.st # "idle" /\ v.tenant = t
  BY <1>4, <1>5, AuditChainAssumption DEF AuditInv, LockHeld
<1>7. UNCHANGED <<key, seq, rows, users, history>>
  BY DEF Lock, history
<1>8. \A t \in Tenant : lock'[t] = lock[t] \/ (lock[t] \in {"free", p} /\ lock'[t] \in {"free", p})
  BY <1>1, <1>2, <1>5
<1>9. lock'[v.tenant] = p
  BY <1>4, <1>5
<1> HIDE DEF v
<1> QED
  <2>1. MayBecome(p, v)
    BY <1>1, <1>4, <1>9 DEF MayBecome
  <2>2. tx'[p] = v /\ tx' = [tx EXCEPT ![p] = tx'[p]]
    BY <1>3, OthersUntouched
  <2> QED
    BY <1>5, <1>6, <1>7, <1>8, <2>1, <2>2, RequestStep

\* The committed rows and those of one request share no number.
LEMMA TxRowsNumbered ==
    ASSUME AuditInv, NEW p \in Request, tx[p] # Idle, NEW t
    PROVE  /\ Numbered(ChainedRows(rows \cup tx[p].rows, t))
           /\ Numbered(ChainedRows(rows, t)) /\ Numbered(rows \cup tx[p].rows)
<1>1. TxRows(p) = tx[p].rows /\ \A r \in tx[p].rows : r.seq \in 1 .. seq
  BY TxInFlight DEF Fresh
<1>2. seq \in Nat /\ \A r \in rows : r.seq \in 1 .. seq
  BY DEF AuditInv, VarTypes, RowsOK, RowType
<1>3. \A r, s \in rows \cup tx[p].rows : r.seq = s.seq => r = s
  BY <1>1 DEF AuditInv, NumbersDistinct
<1> QED
  BY <1>1, <1>2, <1>3 DEF Numbered, ChainedRows

\* Updates of a transaction's fields.
LEMMA TxRead ==
    ASSUME NEW x, IsTx(x), NEW s, NEW h
    PROVE  [x EXCEPT !.st = s, !.prev = h] =
             [st |-> s, tenant |-> x.tenant, user |-> x.user, todo |-> x.todo,
              victim |-> x.victim, prev |-> h, rows |-> x.rows]
<1>1. PICK y : y = [x EXCEPT !.st = s]
  OBVIOUS
<1>2. y = [st |-> s, tenant |-> x.tenant, user |-> x.user, todo |-> x.todo,
           victim |-> x.victim, prev |-> x.prev, rows |-> x.rows]
  BY <1>1 DEF IsTx
<1>3. [x EXCEPT !.st = s, !.prev = h] = [y EXCEPT !.prev = h]
  BY <1>1
<1> QED
  BY <1>2, <1>3

\* The same for record, which also takes an action off and adds its row.
LEMMA TxRecorded ==
    ASSUME NEW x, IsTx(x), NEW s, NEW n, NEW h, NEW R
    PROVE  [x EXCEPT !.st = s, !.todo = n, !.prev = h, !.rows = R] =
             [st |-> s, tenant |-> x.tenant, user |-> x.user, todo |-> n,
              victim |-> x.victim, prev |-> h, rows |-> R]
<1>1. PICK y : y = [x EXCEPT !.st = s]
  OBVIOUS
<1>2. y = [st |-> s, tenant |-> x.tenant, user |-> x.user, todo |-> x.todo,
           victim |-> x.victim, prev |-> x.prev, rows |-> x.rows]
  BY <1>1 DEF IsTx
<1>3. PICK z : z = [y EXCEPT !.todo = n]
  OBVIOUS
<1>4. z = [st |-> s, tenant |-> x.tenant, user |-> x.user, todo |-> n,
           victim |-> x.victim, prev |-> x.prev, rows |-> x.rows]
  BY <1>2, <1>3
<1>5. PICK w : w = [z EXCEPT !.prev = h]
  OBVIOUS
<1>6. w = [st |-> s, tenant |-> x.tenant, user |-> x.user, todo |-> n,
           victim |-> x.victim, prev |-> h, rows |-> x.rows]
  BY <1>4, <1>5
<1>7. [x EXCEPT !.st = s, !.todo = n, !.prev = h, !.rows = R] = [w EXCEPT !.rows = R]
  BY <1>1, <1>3, <1>5
<1> QED
  BY <1>6, <1>7

\* ReadHead: under the lock the head is the tenant's newest row.
LEMMA ReadHeadKeeps == ASSUME AuditInv, NEW p \in Request, ReadHead(p) PROVE AuditInv'
<1> DEFINE h == HeadHmac(rows \cup tx[p].rows, tx[p].tenant)
           v == [st |-> "read", tenant |-> tx[p].tenant, user |-> tx[p].user, todo |-> tx[p].todo,
                 victim |-> tx[p].victim, prev |-> h, rows |-> tx[p].rows]
<1>1. tx[p] # Idle /\ tx[p].st = "locked"
  BY DEF ReadHead, Idle
<1>2. /\ IsTx(tx[p]) /\ tx[p].tenant \in Tenant /\ tx[p].user \in User /\ tx[p].todo \in Nat
      /\ tx[p].victim # tx[p].user /\ TxRows(p) = tx[p].rows
  BY <1>1, TxInFlight
<1>3. tx' = [tx EXCEPT ![p] = v]
  <2>1. tx' = [tx EXCEPT ![p].st = "read", ![p].prev = h]
    BY DEF ReadHead
  <2> HIDE DEF h
  <2>2. tx' = [tx EXCEPT ![p] = [tx[p] EXCEPT !.st = "read", !.prev = h]]
    BY <2>1 DEF AuditInv, VarTypes
  <2> QED
    BY <1>2, <2>2, TxRead
<1>4. /\ IsTx(v) /\ v.st = "read" /\ v.tenant \in Tenant /\ v.user \in User /\ v.todo \in Nat
      /\ v.victim # v.user /\ v.rows = TxRows(p) /\ v.tenant = tx[p].tenant /\ v.user = tx[p].user
      /\ v.prev = h
  BY <1>2 DEF IsTx
<1>5. key /\ lock[v.tenant] = p
  BY <1>1, <1>4 DEF AuditInv, LockHeld
<1>6. \A t \in Tenant : lock[t] = p => v.st # "idle" /\ v.tenant = t
  BY <1>4, AuditChainAssumption DEF AuditInv, LockHeld
<1>7. UNCHANGED <<key, seq, rows, users, lock, history>> /\ lock' \in [Tenant -> Request \cup {"free"}]
  BY DEF ReadHead, history, AuditInv, VarTypes
<1>8. IsHead(ChainedRows(rows \cup v.rows, v.tenant), v.prev)
  BY <1>1, <1>4, TxRowsNumbered, HeadHmacIsHead
<1> HIDE DEF v, h
<1> QED
  <2>1. MayBecome(p, v)
    BY <1>4, <1>5, <1>7, <1>8 DEF MayBecome
  <2>2. \A t \in Tenant : lock'[t] = lock[t] /\ (lock'[t] = p => v.st # "idle" /\ v.tenant = t)
    BY <1>6, <1>7
  <2>3. tx'[p] = v /\ tx' = [tx EXCEPT ![p] = tx'[p]]
    BY <1>3, OthersUntouched
  <2> QED
    BY <1>7, <2>1, <2>2, <2>3, RequestStep

\* Rollback: the rows and the locks go with the transaction.
LEMMA RollbackKeeps == ASSUME AuditInv, NEW p \in Request, Rollback(p) PROVE AuditInv'
<1>1. tx'[p] = Idle /\ tx' = [tx EXCEPT ![p] = tx'[p]] /\ UNCHANGED <<key, seq, rows, users, history>>
  BY OthersUntouched DEF Rollback, history
<1>2. /\ lock' = Release(p) /\ lock' \in [Tenant -> Request \cup {"free"}]
      /\ \A t \in Tenant : lock'[t] = IF lock[t] = p THEN "free" ELSE lock[t]
  BY DEF Rollback, Release, AuditInv, VarTypes
<1>3. \A t \in Tenant : lock'[t] # p
  BY <1>2, AuditChainAssumption
<1>4. \A t \in Tenant : lock'[t] = lock[t] \/ (lock[t] \in {"free", p} /\ lock'[t] \in {"free", p})
  BY <1>2
<1> QED
  BY <1>1, <1>2, <1>3, <1>4, RequestStep

\* A computed HMAC is never the missing one.
LEMMA HmacIsNotNone == \A h, c : ComputeRowHmac(h, c) # None
<1> SUFFICES ASSUME NEW h, NEW c, ComputeRowHmac(h, c) = None PROVE FALSE
  OBVIOUS
<1>1. DOMAIN [prev |-> h, row |-> c] = DOMAIN [st |-> "none"]
  BY DEF ComputeRowHmac, None
<1>2. "prev" \in DOMAIN [prev |-> h, row |-> c] /\ "prev" \notin DOMAIN [st |-> "none"]
  OBVIOUS
<1> QED
  BY <1>1, <1>2

\* The row record writes.
LEMMA NewRowFields ==
    ASSUME AuditInv, NEW p \in Request, NEW a
    PROVE  /\ IsRow(NewRow(p, a)) /\ NewRow(p, a).seq = seq + 1
           /\ NewRow(p, a).tenant = tx[p].tenant /\ NewRow(p, a).user = tx[p].user
           /\ NewRow(p, a).action = a /\ NewRow(p, a).prev = tx[p].prev
           /\ NewRow(p, a).hmac = IF key THEN ComputeRowHmac(tx[p].prev, CanonicalRow(NewRow(p, a)))
                                         ELSE None
<1> DEFINE r == [seq |-> seq + 1, tenant |-> tx[p].tenant, user |-> tx[p].user, action |-> a,
                 prev |-> tx[p].prev, hmac |-> None]
           h == ComputeRowHmac(r.prev, CanonicalRow(r))
           n == [seq |-> seq + 1, tenant |-> tx[p].tenant, user |-> tx[p].user, action |-> a,
                 prev |-> tx[p].prev, hmac |-> h]
<1>1. NewRow(p, a) = IF key THEN [r EXCEPT !.hmac = h] ELSE r
  BY DEF NewRow
<1>2. CanonicalRow(n) = CanonicalRow(r) /\ r.prev = tx[p].prev
  BY DEF CanonicalRow
<1>3. CASE key
  <2> HIDE DEF h
  <2>1. NewRow(p, a) = n
    BY <1>1, <1>3
  <2>2. IsRow(n) /\ n.hmac = h
    BY DEF IsRow
  <2>3. h = ComputeRowHmac(tx[p].prev, CanonicalRow(n))
    BY <1>2 DEF h
  <2> QED
    BY <1>3, <2>1, <2>2, <2>3
<1>4. CASE ~key
  BY <1>1, <1>4 DEF IsRow
<1> QED
  BY <1>3, <1>4

\* Record: the new row has the highest number and links to the head it read.
LEMMA RecordKeeps == ASSUME AuditInv, NEW p \in Request, Record(p) PROVE AuditInv'
<1>1. tx[p] # Idle
  <2>1. tx[p].st # "idle"
    BY DEF Record
  <2> QED
    BY <2>1, TxIdle
<1>2. /\ IsTx(tx[p]) /\ tx[p].tenant \in Tenant /\ tx[p].user \in User /\ tx[p].todo \in Nat
      /\ tx[p].victim # tx[p].user /\ TxRows(p) = tx[p].rows
      /\ \A r \in tx[p].rows : Fresh(p, r)
  BY <1>1, TxInFlight
<1>3. PICK a \in Action :
         tx' = [tx EXCEPT ![p].st = "open", ![p].todo = @ - 1, ![p].prev = None,
                          ![p].rows = @ \cup {NewRow(p, a)}]
  BY DEF Record
<1>4. PICK n : n = NewRow(p, a)
  OBVIOUS
<1>5. /\ IsRow(n) /\ n.seq = seq + 1 /\ n.tenant = tx[p].tenant /\ n.user = tx[p].user
      /\ n.action \in Action /\ n.prev = tx[p].prev
      /\ n.hmac = IF key THEN ComputeRowHmac(n.prev, CanonicalRow(n)) ELSE None
  BY <1>4, NewRowFields
<1> DEFINE v == [st |-> "open", tenant |-> tx[p].tenant, user |-> tx[p].user, todo |-> tx[p].todo - 1,
                 victim |-> tx[p].victim, prev |-> None, rows |-> tx[p].rows \cup {n}]
<1>6. tx' = [tx EXCEPT ![p] = v]
  <2>1. tx' = [tx EXCEPT ![p] = [tx[p] EXCEPT !.st = "open", !.todo = tx[p].todo - 1, !.prev = None,
                                              !.rows = tx[p].rows \cup {n}]]
    BY <1>3, <1>4 DEF AuditInv, VarTypes
  <2>2. [tx[p] EXCEPT !.st = "open", !.todo = tx[p].todo - 1, !.prev = None,
                      !.rows = tx[p].rows \cup {n}] = v
    <3>1. PICK x, y, R : x = tx[p] /\ y = tx[p].todo - 1 /\ R = tx[p].rows \cup {n}
      OBVIOUS
    <3>2. [x EXCEPT !.st = "open", !.todo = y, !.prev = None, !.rows = R] =
            [st |-> "open", tenant |-> x.tenant, user |-> x.user, todo |-> y,
             victim |-> x.victim, prev |-> None, rows |-> R]
      <4>1. IsTx(x)
        BY <1>2, <3>1
      <4> QED
        BY <4>1, TxRecorded, Zenon
    <3> QED
      BY <3>1, <3>2, Zenon
  <2> HIDE DEF v
  <2> QED
    BY <2>1, <2>2, Zenon
<1>7. /\ IsTx(v) /\ v.st = "open" /\ v.tenant = tx[p].tenant /\ v.user = tx[p].user /\ v.todo \in Nat
      /\ v.victim # v.user /\ v.rows = tx[p].rows \cup {n} /\ v.victim = tx[p].victim
  BY <1>2 DEF IsTx, Record
<1> HIDE DEF v
<1>8. /\ tx' = [q \in Request |-> tx'[q]] /\ tx'[p] = v
      /\ \A q \in Request \ {p} : tx'[q] = tx[q] /\ TxRows(q)' = TxRows(q)
  BY <1>6, OthersUntouched
<1>9. TxRows(p)' = TxRows(p) \cup {n}
  BY <1>2, <1>7, <1>8 DEF TxRows
<1>10. /\ UNCHANGED <<key, rows, users, lock, removed, tampered, ended>>
       /\ seq' = seq + 1 /\ seq \in Nat
  BY DEF Record, history, AuditInv, VarTypes
<1>11. /\ RowsOK' /\ EditsLeaveTraces'
       /\ \A t \in Tenant \ tampered' : Linked(ChainedRows(rows', t))
       /\ \A r, s \in rows' : r.seq = s.seq => r = s
  BY <1>10, TableUntouched
<1>12. VarTypes'
  BY <1>8, <1>10 DEF AuditInv, VarTypes
<1>13. TxOK'
  <2> SUFFICES ASSUME NEW q \in Request
               PROVE  \/ tx'[q] = Idle
                      \/ /\ IsTx(tx'[q]) /\ tx'[q].st \in {"open", "locked", "read"}
                         /\ tx'[q].tenant \in Tenant /\ tx'[q].user \in User /\ tx'[q].todo \in Nat
                         /\ tx'[q].victim # tx'[q].user
                         /\ \A r \in tx'[q].rows : Fresh(q, r)'
    BY DEF TxOK
  <2>1. CASE q # p
    <3>1. tx[q] # Idle => \A r \in tx[q].rows : Fresh(q, r)'
      BY <1>8, <1>10, <2>1, TxInFlight DEF Fresh
    <3> QED
      BY <1>8, <2>1, <3>1, TxInFlight
  <2>2. CASE q = p
    <3>1. \A r \in tx[p].rows : Fresh(p, r)'
      BY <1>2, <1>7, <1>8, <1>10 DEF Fresh
    <3>2. Fresh(p, n)'
      BY <1>5, <1>7, <1>8, <1>10 DEF Fresh
    <3> QED
      BY <1>2, <1>7, <1>8, <2>2, <3>1, <3>2
  <2> QED
    BY <2>1, <2>2
<1>14. NumbersDistinct'
  <2>1. \A r \in rows : r.seq \in Nat /\ r.seq < n.seq
    BY <1>5, <1>10 DEF AuditInv, RowsOK, RowType
  <2>2. \A q \in Request : \A r \in TxRows(q) : r.seq \in Nat /\ r.seq < n.seq
    <3> TAKE q \in Request
    <3> TAKE r \in TxRows(q)
    <3>1. Fresh(q, r)
      BY TxIdle, TxInFlight
    <3> QED
      BY <1>5, <1>10, <3>1 DEF Fresh
  <2>3. ASSUME NEW q \in Request, NEW r \in TxRows(q)' PROVE \A s \in rows : r.seq # s.seq
    <3>1. CASE r = n
      BY <1>5, <1>10, <2>1, <3>1
    <3>2. CASE r \in TxRows(q)
      BY <3>2 DEF AuditInv, NumbersDistinct
    <3> QED
      BY <1>8, <1>9, <2>3, <3>1, <3>2
  <2>4. ASSUME NEW q1 \in Request, NEW r1 \in TxRows(q1)', NEW q2 \in Request, NEW r2 \in TxRows(q2)',
               r1.seq = r2.seq
        PROVE  q1 = q2 /\ r1 = r2
    <3>1. /\ r1 \in TxRows(q1) \/ (q1 = p /\ r1 = n)
          /\ r2 \in TxRows(q2) \/ (q2 = p /\ r2 = n)
      BY <1>8, <1>9, <2>4
    <3>2. CASE r1 \in TxRows(q1) /\ r2 \in TxRows(q2)
      BY <2>4, <3>2 DEF AuditInv, NumbersDistinct
    <3>3. CASE r1 \in TxRows(q1) /\ q2 = p /\ r2 = n
      BY <1>5, <1>10, <2>2, <2>4, <3>3
    <3>4. CASE r2 \in TxRows(q2) /\ q1 = p /\ r1 = n
      BY <1>5, <1>10, <2>2, <2>4, <3>4
    <3> QED
      BY <3>1, <3>2, <3>3, <3>4
  <2> QED
    BY <1>10, <1>11, <2>3, <2>4 DEF NumbersDistinct
<1>15. key => tx[p].st = "read" /\ lock[tx[p].tenant] = p
  BY DEF Record, AuditInv, LockHeld
<1>16. LockHeld'
  <2>1. ASSUME NEW q \in Request, tx'[q].st \in {"locked", "read"}
        PROVE  key' /\ lock'[tx'[q].tenant] = q
    BY <1>7, <1>8, <1>10, <2>1 DEF AuditInv, LockHeld
  <2>2. ASSUME NEW q \in Request, key', TxRows(q)' # {} PROVE lock'[tx'[q].tenant] = q
    BY <1>7, <1>8, <1>10, <1>15, <2>2 DEF AuditInv, LockHeld
  <2>3. ASSUME NEW t \in Tenant, lock'[t] # "free"
        PROVE  tx'[lock'[t]].st # "idle" /\ tx'[lock'[t]].tenant = t
    <3>1. lock[t] \in Request /\ tx[lock[t]].st # "idle" /\ tx[lock[t]].tenant = t
      BY <1>10, <2>3 DEF AuditInv, LockHeld, VarTypes
    <3> QED
      BY <1>7, <1>8, <1>10, <3>1
  <2> QED
    BY <2>1, <2>2, <2>3 DEF LockHeld
<1>17. NewerThanChain'
  <2> SUFFICES ASSUME NEW q \in Request, key, NEW r \in TxRows(q)',
                      NEW s \in ChainedRows(rows, tx'[q].tenant)
               PROVE  s.seq < r.seq
    BY <1>10 DEF NewerThanChain
  <2>1. tx'[q].tenant = tx[q].tenant
    BY <1>7, <1>8
  <2>2. CASE r \in TxRows(q)
    BY <2>1, <2>2 DEF AuditInv, NewerThanChain
  <2>3. CASE r = n
    BY <1>5, <1>10, <2>3 DEF ChainedRows, AuditInv, RowsOK, RowType
  <2> QED
    BY <1>8, <1>9, <2>2, <2>3
<1>18. ASSUME tx[p].tenant \notin tampered
       PROVE  Linked(ChainedRows(rows \cup v.rows, v.tenant))
  <2> DEFINE C == ChainedRows(rows \cup tx[p].rows, tx[p].tenant)
  <2>1. Linked(C) /\ tx[p].st # "idle"
    BY <1>1, <1>18, TxIdle DEF AuditInv, ChainsLinked
  <2>2. CASE key
    <3>1. IsHead(C, n.prev)
      BY <1>5, <1>15, <1>18, <2>2 DEF AuditInv, ChainsLinked
    <3>2. \A x \in C : x.seq \in Nat /\ x.seq < n.seq
      BY <1>2, <1>5, <1>10 DEF ChainedRows, AuditInv, RowsOK, RowType, Fresh
    <3>3. n.hmac # None
      BY <1>5, <2>2, HmacIsNotNone
    <3>4. ChainedRows(rows \cup v.rows, v.tenant) = C \cup {n}
      BY <1>5, <1>7, <3>3 DEF ChainedRows
    <3>5. n.seq \in Nat
      BY <1>5, <1>10
    <3> HIDE DEF C
    <3> QED
      BY <2>1, <3>1, <3>2, <3>4, <3>5, AppendLinks
  <2>3. CASE ~key
    <3>1. ChainedRows(rows \cup v.rows, v.tenant) = C
      BY <1>5, <1>7, <2>3 DEF ChainedRows
    <3> QED
      BY <2>1, <3>1
  <2> QED
    BY <2>2, <2>3
<1>19. ChainsLinked'
  <2>1. ASSUME NEW q \in Request, tx'[q].st # "idle", tx'[q].tenant \notin tampered'
        PROVE  Linked(ChainedRows(rows' \cup tx'[q].rows, tx'[q].tenant))
    <3>1. CASE q # p
      BY <1>8, <1>10, <2>1, <3>1 DEF AuditInv, ChainsLinked
    <3>2. CASE q = p
      BY <1>7, <1>8, <1>10, <1>18, <2>1, <3>2
    <3> QED
      BY <3>1, <3>2
  <2>2. ASSUME NEW q \in Request, tx'[q].st = "read", tx'[q].tenant \notin tampered'
        PROVE  IsHead(ChainedRows(rows' \cup tx'[q].rows, tx'[q].tenant), tx'[q].prev)
    <3>1. q # p
      BY <1>7, <1>8, <2>2
    <3> QED
      BY <1>8, <1>10, <2>2, <3>1 DEF AuditInv, ChainsLinked
  <2> QED
    BY <1>11, <2>1, <2>2 DEF ChainsLinked
<1> QED
  BY <1>11, <1>12, <1>13, <1>14, <1>16, <1>17, <1>19 DEF AuditInv

\* Deploy: with the process go its transactions and their locks.
LEMMA DeployKeeps == ASSUME AuditInv, Deploy PROVE AuditInv'
<1>1. /\ UNCHANGED <<seq, rows, users, removed, tampered, ended>> /\ seq \in Nat /\ seq <= seq
      /\ tx' = [p \in Request |-> Idle] /\ lock' = [t \in Tenant |-> "free"]
  BY DEF Deploy, history, AuditInv, VarTypes
<1>2. \A p \in Request : tx'[p] = Idle /\ tx'[p].st = "idle" /\ TxRows(p)' = {}
  BY <1>1 DEF Idle, TxRows
<1>3. /\ RowsOK' /\ EditsLeaveTraces'
      /\ \A t \in Tenant \ tampered' : Linked(ChainedRows(rows', t))
      /\ \A r, s \in rows' : r.seq = s.seq => r = s
  BY <1>1, TableUntouched
<1>4. VarTypes'
  <2>1. key' \in BOOLEAN
    BY DEF Deploy
  <2> QED
    BY <1>1, <2>1 DEF AuditInv, VarTypes
<1>5. TxOK' /\ NumbersDistinct' /\ LockHeld'
  BY <1>1, <1>2, <1>3 DEF TxOK, NumbersDistinct, LockHeld
<1>6. NewerThanChain' /\ ChainsLinked'
  BY <1>2, <1>3 DEF NewerThanChain, ChainsLinked
<1> QED
  BY <1>3, <1>4, <1>5, <1>6 DEF AuditInv
-----------------------------------------------------------------------------
(* The steps that change the table.                                        *)

\* A row in a transaction is fit for the table.
LEMMA FreshIsHashed ==
    ASSUME AuditInv, NEW p \in Request, tx[p] # Idle, NEW r \in tx[p].rows
    PROVE  IsRow(r) /\ RowType(r) /\ Hashed(r)
<1>1. Fresh(p, r) /\ tx[p].tenant \in Tenant /\ tx[p].user \in User
  BY TxInFlight
<1>2. IsRow(r) /\ RowType(r)
  BY <1>1 DEF Fresh, RowType
<1>3. ASSUME r.hmac # None PROVE Hashed(r)
  <2>1. r.hmac = ComputeRowHmac(r.prev, CanonicalRow(r))
    BY <1>1, <1>3 DEF Fresh
  <2>2. r.hmac = [prev |-> r.prev,
                  row |-> [seq |-> r.seq, user |-> r.user, action |-> r.action, tenant |-> r.tenant]]
    BY <2>1 DEF ComputeRowHmac, CanonicalRow
  <2>3. r.hmac.row = [seq |-> r.seq, user |-> r.user, action |-> r.action, tenant |-> r.tenant]
    BY <2>2
  <2>4. r.hmac.row.user = r.user /\ r.hmac.row.action = r.action
    BY <2>3
  <2> QED
    BY <1>1, <2>2, <2>3, <2>4 DEF Hashed, Fresh
<1> QED
  BY <1>2, <1>3 DEF Hashed

\* Two requests in flight never both have a hand on one tenant's chain.
LEMMA OneWriter ==
    ASSUME AuditInv, NEW p \in Request, NEW q \in Request, p # q,
           tx[p] # Idle, tx[q] # Idle, tx[q].rows # {} \/ tx[q].st = "read"
    PROVE  ChainedRows(tx[p].rows, tx[q].tenant) = {}
<1> SUFFICES ASSUME NEW r \in tx[p].rows, r.tenant = tx[q].tenant, r.hmac # None PROVE FALSE
  BY DEF ChainedRows
<1>1. Fresh(p, r) /\ TxRows(p) = tx[p].rows /\ TxRows(q) = tx[q].rows
  BY TxInFlight
<1>2. key /\ tx[p].tenant = tx[q].tenant
  BY <1>1 DEF Fresh
<1>3. lock[tx[p].tenant] = p
  BY <1>1, <1>2 DEF AuditInv, LockHeld
<1>4. lock[tx[q].tenant] = q
  BY <1>1, <1>2 DEF AuditInv, LockHeld
<1> QED
  BY <1>2, <1>3, <1>4

\* Commit: the request's rows go to the end of its tenant's chain, and the
\* rows of a deleted user lose their user only.
LEMMA CommitKeeps == ASSUME AuditInv, NEW p \in Request, Commit(p) PROVE AuditInv'
<1> DEFINE X == tx[p].rows
           S == rows \cup X
           vic == tx[p].victim
<1>1. tx[p] # Idle
  BY DEF Commit, Idle
<1>2. /\ tx[p].tenant \in Tenant /\ vic # tx[p].user /\ TxRows(p) = X
      /\ \A r \in X : Fresh(p, r)
  BY <1>1, TxInFlight
<1>3. /\ rows' = Anonymize(S, vic) /\ lock' = Release(p) /\ tx' = [tx EXCEPT ![p] = Idle]
      /\ users' = users \ {vic} /\ UNCHANGED <<key, seq, tampered, ended>>
      /\ removed' = (removed \/ \E r \in rows : r.user = vic)
  BY DEF Commit
<1>4. /\ tx' = [q \in Request |-> tx'[q]] /\ tx'[p] = Idle
      /\ \A q \in Request \ {p} : tx'[q] = tx[q] /\ TxRows(q)' = TxRows(q)
  BY <1>3, OthersUntouched
<1>5. TxRows(p)' = {} /\ tx'[p].st = "idle"
  BY <1>4 DEF TxRows, Idle
<1>6. \A r \in S : IsRow(r) /\ RowType(r) /\ Hashed(r)
  BY <1>1, FreshIsHashed DEF AuditInv, RowsOK
<1>7. /\ \A r \in S : Anonymized(r, vic) \in rows'
      /\ \A a \in rows' : \E r \in S : a = Anonymized(r, vic) /\ SamePlace(r, a)
      /\ \A t : /\ \A r \in ChainedRows(S, t) : \E a \in ChainedRows(rows', t) : SamePlace(r, a)
                /\ \A a \in ChainedRows(rows', t) : \E r \in ChainedRows(S, t) : SamePlace(r, a)
  <2>1. rows' = Anonymize(S, vic)
    BY <1>3
  <2> HIDE DEF S, vic
  <2>2. /\ \A r \in S : Anonymized(r, vic) \in Anonymize(S, vic)
        /\ \A a \in Anonymize(S, vic) : \E r \in S : a = Anonymized(r, vic) /\ SamePlace(r, a)
        /\ \A t : /\ \A r \in ChainedRows(S, t) : \E a \in ChainedRows(Anonymize(S, vic), t) : SamePlace(r, a)
                  /\ \A a \in ChainedRows(Anonymize(S, vic), t) : \E r \in ChainedRows(S, t) : SamePlace(r, a)
    BY <1>6, AnonymizedRows
  <2> QED
    BY <2>1, <2>2
<1>8. VarTypes'
  <2>1. removed' \in BOOLEAN
    BY <1>3, Zenon
  <2>2. lock' \in [Tenant -> Request \cup {"free"}]
    BY <1>3 DEF Release, AuditInv, VarTypes
  <2> QED
    BY <1>3, <1>4, <2>1, <2>2 DEF AuditInv, VarTypes
<1>9. RowsOK'
  <2> SUFFICES ASSUME NEW a \in rows' PROVE IsRow(a) /\ RowType(a)' /\ Hashed(a)'
    BY DEF RowsOK, IsRow
  <2>1. PICK r \in S : a = Anonymized(r, vic) /\ SamePlace(r, a)
    BY <1>7
  <2>2. IsRow(r) /\ RowType(r) /\ Hashed(r)
    BY <1>6
  <2>3. IsRow(a) /\ a.user = IF r.user = vic THEN "null" ELSE r.user
    BY <2>1, <2>2, AnonymizedRow
  <2>4. RowType(a)'
    BY <1>3, <2>1, <2>2, <2>3 DEF RowType, SamePlace
  <2>5. ~removed' => ~removed /\ a.user = r.user
    <3>1. r.user = vic => r \in rows
      BY <1>2 DEF Fresh
    <3>2. r.user = vic => removed'
      BY <1>3, <3>1
    <3> QED
      BY <1>3, <2>3, <3>2
  <2>6. Hashed(a)'
    BY <1>3, <2>1, <2>2, <2>5 DEF Hashed, SamePlace
  <2> QED
    BY <2>3, <2>4, <2>6
<1>10. TxOK'
  <2> SUFFICES ASSUME NEW q \in Request, tx'[q] # Idle
               PROVE  /\ IsTx(tx'[q]) /\ tx'[q].st \in {"open", "locked", "read"}
                      /\ tx'[q].tenant \in Tenant /\ tx'[q].user \in User /\ tx'[q].todo \in Nat
                      /\ tx'[q].victim # tx'[q].user
                      /\ \A r \in tx'[q].rows : Fresh(q, r)'
    BY DEF TxOK
  <2>1. tx'[q] = tx[q]
    BY <1>4
  <2>2. \A r \in tx[q].rows : Fresh(q, r)'
    BY <1>3, <2>1, TxInFlight DEF Fresh
  <2> QED
    BY <2>1, <2>2, TxInFlight
<1>11. NumbersDistinct'
  <2>1. \A r, s \in S : r.seq = s.seq => r = s
    BY <1>1, TxRowsNumbered DEF Numbered
  <2>2. \A a, b \in rows' : a.seq = b.seq => a = b
    BY <1>7, <2>1 DEF SamePlace
  <2>3. ASSUME NEW q \in Request, NEW r \in TxRows(q)'
        PROVE  /\ q # p /\ r \in TxRows(q)
               /\ \A a \in rows' : r.seq # a.seq
    <3>1. q # p /\ r \in TxRows(q)
      BY <1>4, <1>5, <2>3
    <3>2. \A s \in S : r.seq # s.seq
      BY <1>2, <3>1 DEF AuditInv, NumbersDistinct
    <3> QED
      BY <1>7, <3>1, <3>2 DEF SamePlace
  <2> QED
    BY <2>2, <2>3 DEF AuditInv, NumbersDistinct
<1>12. LockHeld'
  <2>1. \A t \in Tenant : lock'[t] = IF lock[t] = p THEN "free" ELSE lock[t]
    BY <1>3 DEF Release
  <2>2. \A q \in Request \ {p} : tx[q] # Idle => tx[q].tenant \in Tenant
    BY TxInFlight
  <2>3. ASSUME NEW q \in Request, tx'[q].st \in {"locked", "read"}
        PROVE  key' /\ lock'[tx'[q].tenant] = q
    <3>1. q # p /\ tx'[q] = tx[q] /\ tx[q] # Idle
      BY <1>4, <1>5, <2>3 DEF Idle
    <3> QED
      BY <1>3, <2>1, <2>2, <2>3, <3>1 DEF AuditInv, LockHeld
  <2>4. ASSUME NEW q \in Request, key', TxRows(q)' # {} PROVE lock'[tx'[q].tenant] = q
    <3>1. q # p /\ tx'[q] = tx[q] /\ tx[q] # Idle /\ TxRows(q) # {}
      BY <1>4, <1>5, <2>4, TxIdle
    <3> QED
      BY <1>3, <2>1, <2>2, <2>4, <3>1 DEF AuditInv, LockHeld
  <2>5. ASSUME NEW t \in Tenant, lock'[t] # "free"
        PROVE  tx'[lock'[t]].st # "idle" /\ tx'[lock'[t]].tenant = t
    <3>1. lock'[t] = lock[t] /\ lock[t] # "free" /\ lock[t] \in Request \ {p}
      BY <2>1, <2>5 DEF AuditInv, VarTypes
    <3> QED
      BY <1>4, <3>1 DEF AuditInv, LockHeld
  <2> QED
    BY <2>3, <2>4, <2>5 DEF LockHeld
<1>13. NewerThanChain'
  <2> SUFFICES ASSUME NEW q \in Request, key, NEW r \in TxRows(q)',
                      NEW a \in ChainedRows(rows', tx'[q].tenant)
               PROVE  a.seq < r.seq
    BY <1>3 DEF NewerThanChain
  <2>1. q # p /\ tx'[q] = tx[q] /\ r \in TxRows(q) /\ tx[q] # Idle /\ r \in tx[q].rows
    BY <1>4, <1>5, TxIdle, TxInFlight
  <2>2. PICK s \in ChainedRows(S, tx[q].tenant) : SamePlace(s, a)
    BY <1>7, <2>1
  <2>3. s \in ChainedRows(rows, tx[q].tenant)
    <3>1. ChainedRows(X, tx[q].tenant) = {}
      BY <1>1, <2>1, OneWriter
    <3> QED
      BY <3>1 DEF ChainedRows
  <2>4. s.seq < r.seq
    BY <2>1, <2>3 DEF AuditInv, NewerThanChain
  <2> QED
    BY <2>2, <2>4 DEF SamePlace
<1>14. ASSUME NEW t \in Tenant \ tampered PROVE Linked(ChainedRows(rows', t))
  <2>1. Linked(ChainedRows(S, t))
    <3>1. CASE t = tx[p].tenant
      BY <1>1, <1>14, <3>1, TxIdle DEF AuditInv, ChainsLinked
    <3>2. CASE t # tx[p].tenant
      <4>1. ChainedRows(S, t) = ChainedRows(rows, t)
        BY <1>2, <3>2 DEF ChainedRows, Fresh
      <4> QED
        BY <1>14, <4>1 DEF AuditInv, ChainsLinked
    <3> QED
      BY <3>1, <3>2
  <2> QED
    BY <1>7, <2>1, SamePlacesLinked
<1>15. ASSUME NEW q \in Request \ {p}, tx[q] # Idle, tx[q].rows # {} \/ tx[q].st = "read"
       PROVE  /\ Linked(ChainedRows(rows \cup tx[q].rows, tx[q].tenant)) =>
                    Linked(ChainedRows(rows' \cup tx[q].rows, tx[q].tenant))
              /\ \A h : IsHead(ChainedRows(rows \cup tx[q].rows, tx[q].tenant), h) =>
                           IsHead(ChainedRows(rows' \cup tx[q].rows, tx[q].tenant), h)
  <2> DEFINE t == tx[q].tenant
             C == ChainedRows(rows \cup tx[q].rows, t)
             D == ChainedRows(rows' \cup tx[q].rows, t)
  <2>1. ChainedRows(X, t) = {}
    BY <1>1, <1>15, OneWriter
  <2>2. ChainedRows(S, t) = ChainedRows(rows, t)
    BY <2>1 DEF ChainedRows
  <2>3. C = ChainedRows(rows, t) \cup ChainedRows(tx[q].rows, t)
    BY DEF ChainedRows
  <2>4. D = ChainedRows(rows', t) \cup ChainedRows(tx[q].rows, t)
    BY DEF ChainedRows
  <2>5. \A r : SamePlace(r, r)
    BY DEF SamePlace
  <2>6. /\ \A r \in ChainedRows(rows, t) : \E a \in ChainedRows(rows', t) : SamePlace(r, a)
        /\ \A a \in ChainedRows(rows', t) : \E r \in ChainedRows(rows, t) : SamePlace(r, a)
    BY <1>7, <2>2
  <2> HIDE DEF C, D, t
  <2>7. (\A c \in C : \E d \in D : SamePlace(c, d)) /\ (\A d \in D : \E c \in C : SamePlace(c, d))
    BY <2>3, <2>4, <2>5, <2>6
  <2> QED
    BY <2>7, SamePlacesLinked DEF C, D, t
<1>16. ChainsLinked'
  <2>1. ASSUME NEW q \in Request, tx'[q].st # "idle", tx'[q].tenant \notin tampered'
        PROVE  Linked(ChainedRows(rows' \cup tx'[q].rows, tx'[q].tenant))
    <3>1. q # p /\ tx'[q] = tx[q] /\ tx[q] # Idle /\ tx[q].tenant \in Tenant \ tampered
      BY <1>3, <1>4, <1>5, <2>1, TxIdle, TxInFlight
    <3>2. CASE tx[q].rows = {}
      <4>1. rows' \cup tx[q].rows = rows'
        BY <3>2
      <4> QED
        BY <1>14, <3>1, <4>1
    <3>3. CASE tx[q].rows # {}
      <4>1. Linked(ChainedRows(rows \cup tx[q].rows, tx[q].tenant))
        BY <2>1, <3>1 DEF AuditInv, ChainsLinked
      <4> QED
        BY <1>15, <3>1, <3>3, <4>1
    <3> QED
      BY <3>2, <3>3
  <2>2. ASSUME NEW q \in Request, tx'[q].st = "read", tx'[q].tenant \notin tampered'
        PROVE  IsHead(ChainedRows(rows' \cup tx'[q].rows, tx'[q].tenant), tx'[q].prev)
    <3>1. q # p /\ tx'[q] = tx[q] /\ tx[q] # Idle /\ tx[q].tenant \notin tampered
      BY <1>3, <1>4, <1>5, <2>2 DEF Idle
    <3>2. IsHead(ChainedRows(rows \cup tx[q].rows, tx[q].tenant), tx[q].prev)
      BY <2>2, <3>1 DEF AuditInv, ChainsLinked
    <3> QED
      BY <1>15, <2>2, <3>1, <3>2
  <2> QED
    BY <1>3, <1>14, <2>1, <2>2 DEF ChainsLinked
<1>17. EditsLeaveTraces'
  <2> SUFFICES ASSUME NEW t \in tampered \ ended
               PROVE  \E a \in ChainedRows(rows', t) : Trace(t, a)'
    BY <1>3 DEF EditsLeaveTraces
  <2>1. PICK r \in ChainedRows(rows, t) : Trace(t, r)
    BY DEF AuditInv, EditsLeaveTraces
  <2>2. r \in ChainedRows(S, t)
    BY <2>1 DEF ChainedRows
  <2>3. PICK a \in ChainedRows(rows', t) : SamePlace(r, a)
    BY <1>7, <2>2
  <2>4. CASE r.action = "forged"
    BY <2>3, <2>4 DEF Trace, SamePlace
  <2>5. CASE r.prev # None /\ \A x \in ChainedRows(rows, t) : x.seq < r.seq => x.hmac # r.prev
    <3>1. ASSUME NEW y \in ChainedRows(rows', t), y.seq < a.seq PROVE y.hmac # a.prev
      <4>1. PICK x \in ChainedRows(S, t) : SamePlace(x, y)
        BY <1>7
      <4>2. x.seq < r.seq
        BY <2>3, <3>1, <4>1 DEF SamePlace
      <4>3. x \in ChainedRows(rows, t)
        <5> SUFFICES ASSUME x \in X PROVE FALSE
          BY DEF ChainedRows
        <5>1. Fresh(p, x) /\ x.hmac # None /\ x.tenant = t
          BY <1>2 DEF ChainedRows
        <5>2. key /\ tx[p].tenant = t
          BY <5>1 DEF Fresh
        <5>3. r.seq < x.seq
          BY <1>2, <2>1, <5>2 DEF AuditInv, NewerThanChain
        <5>4. r.seq \in Nat /\ x.seq \in Nat
          BY <5>1 DEF Fresh, ChainedRows, AuditInv, RowsOK, RowType
        <5> QED
          BY <4>2, <5>3, <5>4
      <4> QED
        BY <2>3, <2>5, <4>1, <4>2, <4>3 DEF SamePlace
    <3> QED
      BY <2>3, <2>5, <3>1 DEF Trace, SamePlace
  <2> QED
    BY <2>1, <2>4, <2>5 DEF Trace
<1> QED
  BY <1>8, <1>9, <1>10, <1>11, <1>12, <1>13, <1>16, <1>17 DEF AuditInv

\* An edit that replaces the row r by F, at most one row with r's place, and
\* leaves a trace or cuts off the end of the chain.
EditTo(r, F) ==
    /\ r.hmac # None
    /\ \A f \in F : /\ f.tenant = r.tenant /\ f.seq = r.seq /\ IsRow(f) /\ RowType(f)
                    /\ f.user = r.user /\ f.prev = r.prev /\ f.hmac = r.hmac
    /\ \A f, g \in F : f = g
    /\ rows' = (rows \ {r}) \cup F /\ tampered' = tampered \cup {r.tenant}
    /\ \A t \in tampered' \ ended' : t = r.tenant \/ t \in tampered \ ended
    /\ UNCHANGED <<key, seq, users, lock, tx, removed>> /\ ended' \subseteq Tenant
    /\ r.tenant \in ended' \/ \E s \in ChainedRows(rows', r.tenant) : Trace(r.tenant, s)'

\* Such an edit keeps the invariant.
LEMMA EditKeeps ==
    ASSUME AuditInv, NEW r \in rows, NEW F, EditTo(r, F)
    PROVE  AuditInv'
<1> USE DEF EditTo
<1>1. IsRow(r) /\ RowType(r) /\ Hashed(r) /\ r.tenant \in Tenant
  BY DEF AuditInv, RowsOK, RowType
<1>2. \A t : t # r.tenant => ChainedRows(rows', t) = ChainedRows(rows, t)
  BY DEF ChainedRows
<1>3. \A p \in Request : TxRows(p)' = TxRows(p)
  BY DEF TxRows
<1>4. VarTypes'
  BY <1>1 DEF AuditInv, VarTypes
<1>5. RowsOK'
  <2> SUFFICES ASSUME NEW x \in rows' PROVE IsRow(x) /\ RowType(x)' /\ Hashed(x)'
    BY DEF RowsOK, IsRow
  <2>1. CASE x \in rows
    <3>1. IsRow(x) /\ RowType(x) /\ Hashed(x)
      BY <2>1 DEF AuditInv, RowsOK
    <3> QED
      BY <3>1 DEF RowType, Hashed
  <2>2. CASE x \in F
    <3>1. /\ IsRow(x) /\ RowType(x)' /\ x.tenant = r.tenant /\ x.seq = r.seq /\ x.prev = r.prev
          /\ x.hmac = r.hmac /\ x.user = r.user
      BY <2>2 DEF RowType
    <3> QED
      BY <1>1, <3>1 DEF Hashed
  <2> QED
    BY <2>1, <2>2
<1>6. TxOK'
  BY DEF AuditInv, TxOK, Fresh
<1>7. NumbersDistinct'
  <2>1. \A x \in rows' : \E y \in rows : x.seq = y.seq
    OBVIOUS
  <2>2. \A x, y \in rows' : x.seq = y.seq => x = y
    BY DEF AuditInv, NumbersDistinct
  <2>3. ASSUME NEW p \in Request, NEW x \in TxRows(p), NEW y \in rows' PROVE x.seq # y.seq
    BY <2>1 DEF AuditInv, NumbersDistinct
  <2> QED
    BY <1>3, <2>2, <2>3 DEF AuditInv, NumbersDistinct
<1>8. LockHeld'
  BY <1>3 DEF AuditInv, LockHeld
<1>9. NewerThanChain'
  <2> SUFFICES ASSUME NEW p \in Request, key, NEW x \in TxRows(p),
                      NEW s \in ChainedRows(rows', tx[p].tenant)
               PROVE  s.seq < x.seq
    BY <1>3 DEF NewerThanChain
  <2>1. PICK y \in ChainedRows(rows, tx[p].tenant) : y.seq = s.seq
    BY DEF ChainedRows
  <2> QED
    BY <2>1 DEF AuditInv, NewerThanChain
<1>10. ChainsLinked'
  <2>1. \A t \in Tenant \ tampered' : t # r.tenant /\ t \in Tenant \ tampered
    OBVIOUS
  <2>2. \A p \in Request : tx[p].tenant \notin tampered' =>
           /\ tx[p].tenant \notin tampered
           /\ ChainedRows(rows' \cup tx[p].rows, tx[p].tenant) =
                 ChainedRows(rows \cup tx[p].rows, tx[p].tenant)
    BY DEF ChainedRows
  <2> QED
    BY <1>2, <2>1, <2>2 DEF AuditInv, ChainsLinked
<1>11. EditsLeaveTraces'
  <2> SUFFICES ASSUME NEW t \in tampered' \ ended'
               PROVE  \E s \in ChainedRows(rows', t) : Trace(t, s)'
    BY DEF EditsLeaveTraces
  <2>1. CASE t # r.tenant
    <3>1. PICK s \in ChainedRows(rows, t) : Trace(t, s)
      BY <2>1 DEF AuditInv, EditsLeaveTraces
    <3> QED
      BY <1>2, <2>1, <3>1 DEF Trace
  <2> QED
    BY <2>1
<1> QED
  BY <1>4, <1>5, <1>6, <1>7, <1>8, <1>9, <1>10, <1>11 DEF AuditInv

\* The row after a deleted one names a predecessor that is gone.
LEMMA DeletionLeavesTrace ==
    ASSUME AuditInv, NEW r \in rows, r.hmac # None, r.tenant \notin tampered,
           r.hmac # HeadHmac(rows, r.tenant)
    PROVE  \E s \in ChainedRows(rows \ {r}, r.tenant) :
              /\ s.prev # None
              /\ \A x \in ChainedRows(rows \ {r}, r.tenant) : x.hmac # s.prev
<1> DEFINE C == ChainedRows(rows, r.tenant)
           c == BySeq(C)
           i == Cardinality(Below(C, r.seq)) + 1
<1>1. r \in C /\ Linked(C)
  BY DEF ChainedRows, AuditInv, ChainsLinked, RowsOK, RowType
<1>2. Numbered(C)
  BY DEF AuditInv, VarTypes, RowsOK, RowType, NumbersDistinct, Numbered, ChainedRows
<1>3. \A x \in C : x.seq \in Nat /\ x.hmac # None /\ x.hmac.row.seq = x.seq
  <2> TAKE x \in C
  <2>1. x \in rows /\ x.hmac # None /\ Hashed(x) /\ RowType(x)
    BY DEF ChainedRows, AuditInv, RowsOK
  <2>2. PICK h : h = x.hmac.row
    OBVIOUS
  <2>3. h = [seq |-> x.seq, user |-> h.user, action |-> h.action, tenant |-> x.tenant]
    BY <2>1, <2>2 DEF Hashed
  <2>4. h.seq = x.seq
    BY <2>3
  <2> QED
    BY <2>1, <2>2, <2>4 DEF RowType
<1>4. PICK z \in C : r.seq < z.seq
  <2>1. IsHead(C, HeadHmac(rows, r.tenant))
    BY <1>2, HeadHmacIsHead
  <2>2. PICK x \in C : HeadHmac(rows, r.tenant) = x.hmac /\ \A y \in C : y.seq <= x.seq
    BY <1>1, <2>1 DEF IsHead
  <2>3. r.seq <= x.seq /\ x # r
    BY <1>1, <2>2
  <2>4. x.seq # r.seq
    BY <1>1, <1>2, <2>2, <2>3 DEF Numbered
  <2> QED
    BY <1>1, <1>3, <2>2, <2>3, <2>4
<1>5. /\ Cardinality(C) \in Nat /\ c \in [1 .. Cardinality(C) -> C] /\ c[i] = r
      /\ i \in 1 .. Cardinality(C)
  BY <1>1, <1>2, BySeqSorts, BelowGrows
<1> HIDE DEF C, c, i
<1>6. i # Cardinality(C)
  BY <1>1, <1>2, <1>3, <1>4, <1>5, BySeqNeighbours DEF c
<1>7. i + 1 \in 1 .. Cardinality(C) /\ c[i + 1] \in C
  BY <1>5, <1>6
<1>8. r.seq < c[i + 1].seq /\ \A x \in C : x.seq < c[i + 1].seq => x.seq <= r.seq
  <2>1. i + 1 # 1 /\ (i + 1) - 1 = i
    BY <1>5
  <2>2. /\ c[(i + 1) - 1].seq < c[i + 1].seq
        /\ \A x \in C : x.seq < c[i + 1].seq => x.seq <= c[(i + 1) - 1].seq
    BY <1>2, <1>7, <2>1, BySeqNeighbours DEF c
  <2> QED
    BY <1>5, <2>1, <2>2
<1>9. PICK s \in C : r.seq < s.seq /\ \A x \in C : x.seq < s.seq => x.seq <= r.seq
  BY <1>7, <1>8
<1>10. s.prev = r.hmac
  <2>1. Follows(C, s)
    BY <1>1 DEF Linked
  <2>2. ~ (s.seq <= r.seq)
    BY <1>1, <1>3, <1>9
  <2>3. PICK x \in C : /\ x.seq < s.seq /\ s.prev = x.hmac
                       /\ \A y \in C : y.seq < s.seq => y.seq <= x.seq
    BY <1>1, <2>1, <2>2 DEF Follows
  <2>4. x.seq <= r.seq /\ r.seq <= x.seq
    BY <1>1, <1>9, <2>3
  <2>5. x = r
    BY <1>1, <1>2, <1>3, <2>4 DEF Numbered
  <2> QED
    BY <2>3, <2>5
<1>11. ASSUME NEW x \in C, x # r PROVE x.hmac # r.hmac
  <2>1. x.seq # r.seq
    BY <1>1, <1>2, <1>11 DEF Numbered
  <2> QED
    BY <1>1, <1>3, <2>1
<1>12. ChainedRows(rows \ {r}, r.tenant) = C \ {r}
  BY DEF ChainedRows, C
<1>13. s # r
  BY <1>1, <1>3, <1>9
<1> QED
  BY <1>1, <1>3, <1>10, <1>11, <1>12, <1>13

\* Tamper: a forged row shows, and so does a deleted one that was not the last.
LEMMA TamperKeeps == ASSUME AuditInv, Tamper PROVE AuditInv'
<1>1. PICK r \in rows :
        /\ r.hmac # None /\ r.tenant \notin tampered /\ tampered' = tampered \cup {r.tenant}
        /\ \/ rows' = (rows \ {r}) \cup {[r EXCEPT !.action = "forged"]} /\ UNCHANGED ended
           \/ /\ rows' = rows \ {r}
              /\ ended' = IF r.hmac = HeadHmac(rows, r.tenant) THEN ended \cup {r.tenant} ELSE ended
  BY DEF Tamper
<1>2. UNCHANGED <<key, seq, users, lock, tx, removed>>
  BY DEF Tamper
<1>3. IsRow(r) /\ RowType(r) /\ r.tenant \in Tenant /\ ended \subseteq Tenant
  BY DEF AuditInv, RowsOK, RowType, VarTypes
<1>4. CASE rows' = (rows \ {r}) \cup {[r EXCEPT !.action = "forged"]} /\ UNCHANGED ended
  <2>1. PICK f : f = [r EXCEPT !.action = "forged"]
    OBVIOUS
  <2>2. f = [seq |-> r.seq, tenant |-> r.tenant, user |-> r.user, action |-> "forged",
             prev |-> r.prev, hmac |-> r.hmac]
    BY <1>3, <2>1 DEF IsRow
  <2>3. /\ IsRow(f) /\ f.tenant = r.tenant /\ f.seq = r.seq /\ f.user = r.user
        /\ f.prev = r.prev /\ f.hmac = r.hmac /\ f.action = "forged"
    BY <2>2 DEF IsRow
  <2>4. RowType(f)
    BY <1>3, <2>3 DEF RowType
  <2>5. f \in ChainedRows(rows', r.tenant) /\ Trace(r.tenant, f)'
    BY <1>1, <1>4, <2>1, <2>3 DEF ChainedRows, Trace
  <2>6. rows' = (rows \ {r}) \cup {f}
    BY <1>4, <2>1
  <2>7. EditTo(r, {f})
    BY <1>1, <1>2, <1>3, <1>4, <2>3, <2>4, <2>5, <2>6 DEF EditTo
  <2> QED
    BY <2>7, EditKeeps
<1>5. CASE /\ rows' = rows \ {r}
           /\ ended' = IF r.hmac = HeadHmac(rows, r.tenant) THEN ended \cup {r.tenant} ELSE ended
  <2>1. rows' = (rows \ {r}) \cup {}
    BY <1>5
  <2>2. ended' \subseteq Tenant /\ ended \subseteq ended'
    BY <1>3, <1>5
  <2>3. r.tenant \in ended' \/ \E s \in ChainedRows(rows', r.tenant) : Trace(r.tenant, s)'
    <3>1. CASE r.hmac = HeadHmac(rows, r.tenant)
      BY <1>5, <3>1
    <3>2. CASE r.hmac # HeadHmac(rows, r.tenant)
      <4>1. PICK s \in ChainedRows(rows', r.tenant) :
               s.prev # None /\ \A x \in ChainedRows(rows', r.tenant) : x.hmac # s.prev
        BY <1>1, <1>5, <3>2, DeletionLeavesTrace
      <4> QED
        BY <4>1 DEF Trace
    <3> QED
      BY <3>1, <3>2
  <2>4. \A t \in tampered' \ ended' : t = r.tenant \/ t \in tampered \ ended
    BY <1>1, <2>2
  <2>5. EditTo(r, {})
    BY <1>1, <1>2, <2>1, <2>2, <2>3, <2>4 DEF EditTo
  <2> QED
    BY <2>5, EditKeeps
<1> QED
  BY <1>1, <1>4, <1>5

\* Every step of the application and of its environment keeps the invariant.
LEMMA AuditInvStep == ASSUME AuditInv, [Next]_vars PROVE AuditInv'
<1>1. ASSUME UNCHANGED <<key, seq, rows, users, lock, tx, removed, tampered, ended>> PROVE AuditInv'
  <2>1. VarTypes' /\ LockHeld' /\ NumbersDistinct'
    BY <1>1 DEF AuditInv, VarTypes, LockHeld, NumbersDistinct, TxRows
  <2>2. RowsOK' /\ EditsLeaveTraces'
    BY <1>1, TableUntouched DEF AuditInv, VarTypes
  <2>3. TxOK'
    BY <1>1 DEF AuditInv, TxOK, Fresh
  <2>4. NewerThanChain' /\ ChainsLinked'
    BY <1>1 DEF AuditInv, NewerThanChain, ChainsLinked, TxRows
  <2> QED
    BY <2>1, <2>2, <2>3, <2>4 DEF AuditInv
<1>2. CASE RunOnce
  BY <1>1, <1>2 DEF RunOnce, history
<1>3. CASE UNCHANGED vars
  BY <1>1, <1>3 DEF vars
<1> QED
  BY <1>2, <1>3, BeginKeeps, LockKeeps, ReadHeadKeeps, RecordKeeps, CommitKeeps, RollbackKeeps,
     DeployKeeps, TamperKeeps DEF Next

\* AuditInv holds in every reachable state.
LEMMA AuditInvariant == Spec => []AuditInv
  BY AuditInvInit, AuditInvStep, PTL DEF Spec
-----------------------------------------------------------------------------
(* The theorems.                                                           *)

\* Rows are well formed and their numbers distinct, and a lock is only held by
\* a request in flight, for any tenants, users and requests.
THEOREM AuditChainTypes == Spec => []TypeOK
<1>1. ASSUME AuditInv PROVE TypeOK
  <2>1. ASSUME NEW t \in Tenant, lock[t] # "free" PROVE tx[lock[t]] # Idle
    BY <1>1, <2>1 DEF AuditInv, LockHeld, Idle
  <2> QED
    BY <1>1, <2>1 DEF AuditInv, RowsOK, NumbersDistinct, TypeOK
<1> QED
  BY <1>1, AuditInvariant, PTL

\* Writers that race for a tenant's head never fork its chain: without edits
\* and deleted users the verifier finds no break, for any number of concurrent
\* requests, rollbacks and deployments.
THEOREM ChainNeverForks == Spec => []ChainIntact
<1>1. ASSUME AuditInv PROVE ChainIntact
  <2> SUFFICES ASSUME tampered = {}, ~removed, NEW t \in Tenant PROVE Breaks(rows, t) = {}
    BY DEF ChainIntact
  <2>1. Numbered(ChainedRows(rows, t))
    BY <1>1 DEF AuditInv, VarTypes, RowsOK, RowType, NumbersDistinct, Numbered, ChainedRows
  <2>2. Linked(ChainedRows(rows, t))
    BY <1>1 DEF AuditInv, ChainsLinked
  <2>3. ASSUME NEW r \in ChainedRows(rows, t)
        PROVE  r.hmac = ComputeRowHmac(r.prev, CanonicalRow(r))
    <3>1. /\ r.hmac = [prev |-> r.prev, row |-> r.hmac.row]
          /\ r.hmac.row = [seq |-> r.seq, user |-> r.user, action |-> r.action, tenant |-> r.tenant]
      <4>1. r \in rows /\ r.hmac # None /\ r.tenant \notin tampered
        BY DEF ChainedRows
      <4>2. Hashed(r)
        BY <1>1, <4>1 DEF AuditInv, RowsOK
      <4>3. /\ r.hmac = [prev |-> r.prev, row |-> r.hmac.row]
            /\ r.hmac.row = [seq |-> r.seq, user |-> r.hmac.row.user,
                             action |-> r.hmac.row.action, tenant |-> r.tenant]
            /\ r.hmac.row.user = r.user /\ r.hmac.row.action = r.action
        BY <4>1, <4>2 DEF Hashed
      <4> QED
        BY <4>3
    <3> QED
      BY <3>1 DEF ComputeRowHmac, CanonicalRow
  <2> QED
    BY <2>1, <2>2, <2>3, LinkedHasNoBreaks
<1> QED
  BY <1>1, AuditInvariant, PTL

\* An edited row, and a deleted one that was not the last, show as a break for
\* good, however many rows are appended and users deleted later.
THEOREM EditsStayEvident == Spec => []TamperEvident
<1>1. ASSUME AuditInv PROVE TamperEvident
  <2> SUFFICES ASSUME NEW t \in tampered \ ended PROVE Breaks(rows, t) # {}
    BY DEF TamperEvident
  <2>1. Numbered(ChainedRows(rows, t))
    BY <1>1 DEF AuditInv, VarTypes, RowsOK, RowType, NumbersDistinct, Numbered, ChainedRows
  <2>2. PICK r \in ChainedRows(rows, t) : Trace(t, r)
    BY <1>1 DEF AuditInv, EditsLeaveTraces
  <2>3. ASSUME r.action = "forged" PROVE r.hmac # ComputeRowHmac(r.prev, CanonicalRow(r))
    <3>1. r.hmac.row.action \in Action
      BY <1>1 DEF ChainedRows, AuditInv, RowsOK, Hashed
    <3>2. ComputeRowHmac(r.prev, CanonicalRow(r)).row.action = "forged"
      BY <2>3 DEF ComputeRowHmac, CanonicalRow
    <3> QED
      BY <3>1, <3>2, AuditChainAssumption
  <2> QED
    BY <2>1, <2>2, <2>3, TraceIsABreak DEF Trace
<1> QED
  BY <1>1, AuditInvariant, PTL
-----------------------------------------------------------------------------
(* Refinement of the append-only log.                                      *)

\* The abstract log of a chain.
Entries(C) == [i \in DOMAIN BySeq(C) |-> <<BySeq(C)[i].seq, BySeq(C)[i].action>>]

\* Sets of rows whose numbers all occur in another have no more rows.
LEMMA FewerNumbers ==
    ASSUME NEW A, Numbered(A), NEW B, Numbered(B), \A x \in A : \E y \in B : y.seq = x.seq
    PROVE  Cardinality(A) <= Cardinality(B)
<1> DEFINE g == [x \in A |-> CHOOSE y \in B : y.seq = x.seq]
<1>1. \A x \in A : g[x] \in B /\ g[x].seq = x.seq
  OBVIOUS
<1>2. g \in [A -> B]
  BY <1>1
<1> HIDE DEF g
<1>3. g \in Injection(A, B)
  BY <1>1, <1>2 DEF Injection, IsInjective, Numbered
<1> QED
  BY <1>3, NumberedFinite, FS_Injection

\* A chain that only gets rows with higher numbers has the old log as a prefix.
LEMMA EntriesPrefix ==
    ASSUME NEW C, Numbered(C), NEW D, Numbered(D),
           \A c \in C : \E d \in D : d.seq = c.seq /\ d.action = c.action,
           \A d \in D : (\E c \in C : c.seq = d.seq) \/ (\A c \in C : c.seq < d.seq)
    PROVE  IsPrefix(Entries(C), Entries(D))
<1> DEFINE m == Cardinality(C)
           n == Cardinality(D)
<1>1. m \in Nat /\ n \in Nat /\ m <= n
  BY NumberedFinite, FS_CardinalityType, FewerNumbers
<1>2. BySeq(C) \in [1 .. m -> C] /\ BySeq(D) \in [1 .. n -> D]
  BY BySeqSorts
<1>3. ASSUME NEW i \in 1 .. m
      PROVE  BySeq(D)[i].seq = BySeq(C)[i].seq /\ BySeq(D)[i].action = BySeq(C)[i].action
  <2>1. PICK c \in C : c = BySeq(C)[i]
    BY <1>2
  <2>2. PICK d \in D : d.seq = c.seq /\ d.action = c.action
    OBVIOUS
  <2>3. c.seq \in Nat /\ \A x \in C \cup D : x.seq \in Nat
    BY DEF Numbered
  <2>4. Numbered(Below(C, c.seq)) /\ Numbered(Below(D, c.seq))
    BY DEF Numbered, Below
  <2>5. \A x \in Below(C, c.seq) : \E y \in Below(D, c.seq) : y.seq = x.seq
    BY DEF Below
  <2>6. \A y \in Below(D, c.seq) : \E x \in Below(C, c.seq) : x.seq = y.seq
    <3> TAKE y \in Below(D, c.seq)
    <3>1. y \in D /\ y.seq < c.seq
      BY DEF Below
    <3>2. PICK x \in C : x.seq = y.seq
      BY <2>3, <3>1
    <3> QED
      BY <3>1, <3>2 DEF Below
  <2>7. Cardinality(Below(C, c.seq)) = Cardinality(Below(D, c.seq))
    <3>1. Cardinality(Below(C, c.seq)) \in Nat /\ Cardinality(Below(D, c.seq)) \in Nat
      BY <2>4, NumberedFinite, FS_CardinalityType
    <3>2. Cardinality(Below(C, c.seq)) <= Cardinality(Below(D, c.seq))
      BY <2>4, <2>5, FewerNumbers
    <3>3. Cardinality(Below(D, c.seq)) <= Cardinality(Below(C, c.seq))
      BY <2>4, <2>6, FewerNumbers
    <3> QED
      BY <3>1, <3>2, <3>3
  <2>8. Cardinality(Below(C, c.seq)) = i - 1
    BY <2>1, BySeqSorts
  <2>9. BySeq(D)[Cardinality(Below(D, d.seq)) + 1] = d
    BY BySeqSorts
  <2>10. Cardinality(Below(D, d.seq)) + 1 = i
    BY <1>1, <2>2, <2>7, <2>8
  <2> QED
    BY <2>1, <2>2, <2>9, <2>10
<1> DEFINE e == Entries(C)
           f == Entries(D)
           V == {<<x.seq, x.action>> : x \in C \cup D}
<1>4. /\ e \in [1 .. m -> V] /\ f \in [1 .. n -> V]
      /\ \A i \in 1 .. m : e[i] = <<BySeq(C)[i].seq, BySeq(C)[i].action>>
      /\ \A i \in 1 .. n : f[i] = <<BySeq(D)[i].seq, BySeq(D)[i].action>>
  BY <1>2 DEF Entries
<1> HIDE DEF e, f, V, m, n
<1>5. \A i \in 1 .. m : e[i] = f[i]
  <2> TAKE i \in 1 .. m
  <2>1. i \in 1 .. n
    BY <1>1
  <2>2. e[i] = <<BySeq(C)[i].seq, BySeq(C)[i].action>> /\ f[i] = <<BySeq(D)[i].seq, BySeq(D)[i].action>>
    BY <1>4, <2>1
  <2> QED
    BY <1>3, <2>2
<1>6. e \in Seq(V) /\ Len(e) = m /\ f \in Seq(V) /\ Len(f) = n
  BY <1>1, <1>4
<1>7. SubSeq(e, 1, m) = SubSeq(f, 1, m)
  <2>1. \A i \in 1 .. m : e[i] \in V /\ f[i] \in V
    BY <1>1, <1>4
  <2>2. /\ SubSeq(e, 1, m) \in Seq(V) /\ SubSeq(f, 1, m) \in Seq(V)
        /\ Len(SubSeq(e, 1, m)) = m /\ Len(SubSeq(f, 1, m)) = m
        /\ \A i \in 1 .. m : SubSeq(e, 1, m)[i] = e[i] /\ SubSeq(f, 1, m)[i] = f[i]
    BY <1>1, <1>6, <2>1, SubSeqProperties
  <2> QED
    BY <1>5, <2>2, SeqEqual
<1> QED
  BY <1>1, <1>6, <1>7 DEF IsPrefix, e, f

\* s is a sequence.
IsSequence(s) == \E V : s \in Seq(V)

\* The log of a chain is a sequence.
LEMMA EntriesIsSequence ==
    ASSUME NEW C, Numbered(C)
    PROVE  IsSequence(Entries(C))
<1> DEFINE V == {<<x.seq, x.action>> : x \in C}
<1>1. PICK m : m = Cardinality(C)
  OBVIOUS
<1>2. m \in Nat /\ BySeq(C) \in [1 .. m -> C]
  BY <1>1, BySeqSorts, NumberedFinite, FS_CardinalityType
<1>3. Entries(C) \in [1 .. m -> V]
  BY <1>2 DEF Entries
<1> HIDE DEF V
<1>4. Entries(C) \in Seq(V)
  BY <1>2, <1>3
<1> QED
  BY <1>4 DEF IsSequence

\* Two sequences that are prefixes of each other are equal.
LEMMA PrefixAntisymmetric ==
    ASSUME NEW e, IsSequence(e), NEW f, IsSequence(f), IsPrefix(e, f), IsPrefix(f, e)
    PROVE  e = f
<1>1. PICK V : e \in Seq(V)
  BY DEF IsSequence
<1>2. PICK W : f \in Seq(W)
  BY DEF IsSequence
<1>3. Len(e) \in Nat /\ Len(f) \in Nat
  BY <1>1, <1>2, LenProperties
<1>4. Len(e) <= Len(f) /\ SubSeq(e, 1, Len(e)) = SubSeq(f, 1, Len(e)) /\ Len(f) <= Len(e)
  BY DEF IsPrefix
<1>5. Len(e) = Len(f)
  BY <1>3, <1>4
<1>6. SubSeq(e, 1, Len(e)) = e
  BY <1>1, SubSeqFull
<1>7. SubSeq(f, 1, Len(f)) = f
  BY <1>2, SubSeqFull
<1> QED
  BY <1>4, <1>5, <1>6, <1>7

\* Chains with the same places have the same log.
LEMMA EntriesEqual ==
    ASSUME NEW C, Numbered(C), NEW D, Numbered(D),
           \A c \in C : \E d \in D : SamePlace(c, d), \A d \in D : \E c \in C : SamePlace(c, d)
    PROVE  Entries(C) = Entries(D)
<1>1. IsPrefix(Entries(C), Entries(D)) /\ IsPrefix(Entries(D), Entries(C))
  BY EntriesPrefix DEF SamePlace
<1>2. IsSequence(Entries(C)) /\ IsSequence(Entries(D))
  BY EntriesIsSequence
<1> QED
  BY <1>1, <1>2, PrefixAntisymmetric

\* The abstract log, tenant by tenant.
AbsLog == [t \in Tenant |-> Entries(ChainedRows(rows, t))]

\* An application step appends to one tenant's log, an edit behind the
\* application's back changes one tenant's log, and every other step leaves the
\* logs alone.
AbsStep ==
    \/ AbsLog' = AbsLog /\ tampered' = tampered
    \/ \E t \in Tenant :
          /\ \A u \in Tenant \ {t} : AbsLog'[u] = AbsLog[u]
          /\ \/ IsPrefix(AbsLog[t], AbsLog'[t]) /\ tampered' = tampered
             \/ tampered' # {}

\* A commit appends the request's chained rows to its tenant's log.
LEMMA CommitAppends == ASSUME AuditInv, AuditInv', NEW p \in Request, Commit(p) PROVE AbsStep
<1> DEFINE X == tx[p].rows
           S == rows \cup X
           t == tx[p].tenant
<1>1. tx[p] # Idle
  BY DEF Commit, Idle
<1>2. t \in Tenant /\ TxRows(p) = X /\ \A r \in X : Fresh(p, r)
  BY <1>1, TxInFlight
<1>3. rows' = Anonymize(S, tx[p].victim) /\ tampered' = tampered
  BY DEF Commit
<1>4. \A r \in S : IsRow(r)
  BY <1>2 DEF AuditInv, RowsOK, Fresh
<1>5. \A u : /\ \A r \in ChainedRows(S, u) : \E a \in ChainedRows(rows', u) : SamePlace(r, a)
             /\ \A a \in ChainedRows(rows', u) : \E r \in ChainedRows(S, u) : SamePlace(r, a)
  BY <1>3, <1>4, AnonymizedRows
<1>6. \A u : Numbered(ChainedRows(rows, u))
  BY <1>1, TxRowsNumbered
<1>7. \A u : Numbered(ChainedRows(rows', u))
  BY DEF AuditInv, VarTypes, RowsOK, RowType, NumbersDistinct, Numbered, ChainedRows
<1>8. ASSUME NEW u \in Tenant \ {t} PROVE AbsLog'[u] = AbsLog[u]
  <2>1. ChainedRows(S, u) = ChainedRows(rows, u)
    BY <1>2, <1>8 DEF ChainedRows, Fresh
  <2>2. Entries(ChainedRows(rows, u)) = Entries(ChainedRows(rows', u))
    BY <1>5, <1>6, <1>7, <2>1, EntriesEqual
  <2> QED
    BY <2>2 DEF AbsLog
<1>9. IsPrefix(AbsLog[t], AbsLog'[t])
  <2> DEFINE C == ChainedRows(rows, t)
             D == ChainedRows(rows', t)
  <2>1. \A c \in C : \E d \in D : d.seq = c.seq /\ d.action = c.action
    <3> TAKE c \in C
    <3>1. c \in ChainedRows(S, t)
      BY DEF ChainedRows
    <3> QED
      BY <1>5, <3>1 DEF SamePlace
  <2>2. \A d \in D : (\E c \in C : c.seq = d.seq) \/ (\A c \in C : c.seq < d.seq)
    <3> TAKE d \in D
    <3>1. PICK r \in ChainedRows(S, t) : SamePlace(r, d)
      BY <1>5
    <3>2. CASE r \in rows
      BY <3>1, <3>2 DEF ChainedRows, SamePlace
    <3>3. CASE r \in X
      <4>1. key
        BY <1>2, <3>3 DEF ChainedRows, Fresh
      <4>2. \A c \in C : c.seq < r.seq
        BY <1>2, <3>3, <4>1 DEF AuditInv, NewerThanChain
      <4> QED
        BY <3>1, <4>2 DEF SamePlace
    <3> QED
      BY <3>2, <3>3 DEF ChainedRows
  <2>3. Numbered(C) /\ Numbered(D)
    BY <1>6, <1>7
  <2>4. IsPrefix(Entries(C), Entries(D))
    BY <2>1, <2>2, <2>3, EntriesPrefix
  <2> QED
    BY <1>2, <2>4 DEF AbsLog
<1> QED
  BY <1>2, <1>3, <1>8, <1>9 DEF AbsStep

\* An edit touches one tenant's rows.
LEMMA TamperBreaches == ASSUME AuditInv, Tamper PROVE AbsStep
<1>1. PICK r \in rows :
        /\ tampered' = tampered \cup {r.tenant}
        /\ rows' = (rows \ {r}) \cup {[r EXCEPT !.action = "forged"]} \/ rows' = rows \ {r}
  BY DEF Tamper
<1>2. IsRow(r) /\ r.tenant \in Tenant
  BY DEF AuditInv, RowsOK, RowType
<1>3. PICK f : f = [r EXCEPT !.action = "forged"]
  OBVIOUS
<1>4. f = [seq |-> r.seq, tenant |-> r.tenant, user |-> r.user, action |-> "forged",
           prev |-> r.prev, hmac |-> r.hmac]
  BY <1>2, <1>3 DEF IsRow
<1>5. f.tenant = r.tenant
  BY <1>4
<1>6. \A u : u # r.tenant => ChainedRows(rows', u) = ChainedRows(rows, u)
  BY <1>1, <1>3, <1>5 DEF ChainedRows
<1>7. \A u \in Tenant \ {r.tenant} : AbsLog'[u] = AbsLog[u]
  BY <1>6 DEF AbsLog
<1> QED
  BY <1>1, <1>2, <1>7 DEF AbsStep

\* Every step of the model is a step of the log, or leaves it alone.
LEMMA EveryStepIsALogStep == ASSUME AuditInv, AuditInv', [Next]_vars PROVE AbsStep
<1>1. ASSUME UNCHANGED <<rows, tampered>> PROVE AbsStep
  BY <1>1 DEF AbsStep, AbsLog
<1>2. ASSUME NEW p \in Request, Begin(p) \/ Lock(p) \/ ReadHead(p) \/ Record(p) \/ Rollback(p)
      PROVE  UNCHANGED <<rows, tampered>>
  BY <1>2 DEF Begin, Lock, ReadHead, Record, Rollback, history
<1>3. CASE RunOnce \/ Deploy \/ UNCHANGED vars
  BY <1>1, <1>3 DEF RunOnce, Deploy, history, vars
<1> QED
  BY <1>1, <1>2, <1>3, CommitAppends, TamperBreaches DEF Next

\* The audit log implements the append-only log: each tenant's chained rows,
\* with their numbers and actions, only ever grow at their end, whoever commits
\* and whichever user is deleted, until someone edits the table.
THEOREM ImplementsAppendLog == Spec => AppendOnly
<1>1. ASSUME Init PROVE Log!Init
  <2>1. rows = {} /\ tampered = {}
    BY <1>1 DEF Init
  <2>2. \A t \in Tenant : Chained(rows, t) = BySeq({})
    BY <2>1 DEF Chained
  <2>3. Cardinality({}) = 0
    BY FS_EmptySet
  <2>4. BySeq({}) = <<>>
    BY <2>3 DEF BySeq
  <2> QED
    BY <2>1, <2>2, <2>4 DEF Log!Init
<1>2. ASSUME AuditInv, AuditInv', [Next]_vars PROVE [Log!Next]_(Log!vars)
  <2>1. AbsStep
    BY <1>2, EveryStepIsALogStep
  <2>2. AbsLog = [t \in Tenant |-> LET c == Chained(rows, t)
                                   IN  [i \in DOMAIN c |-> <<c[i].seq, c[i].action>>]]
    BY DEF AbsLog, Entries, Chained, ChainedRows
  <2>3. AbsLog' = [t \in Tenant |-> LET c == Chained(rows', t)
                                    IN  [i \in DOMAIN c |-> <<c[i].seq, c[i].action>>]]
    BY DEF AbsLog, Entries, Chained, ChainedRows
  <2>4. CASE AbsLog' = AbsLog /\ tampered' = tampered
    BY <2>2, <2>3, <2>4 DEF Log!vars
  <2>5. CASE \E t \in Tenant :
                /\ \A u \in Tenant \ {t} : AbsLog'[u] = AbsLog[u]
                /\ \/ IsPrefix(AbsLog[t], AbsLog'[t]) /\ tampered' = tampered
                   \/ tampered' # {}
    <3>1. \A e, f : Log!IsPrefix(e, f) <=> IsPrefix(e, f)
      BY DEF Log!IsPrefix, IsPrefix
    <3>2. PICK t \in Tenant :
             /\ \A u \in Tenant \ {t} : AbsLog'[u] = AbsLog[u]
             /\ \/ Log!IsPrefix(AbsLog[t], AbsLog'[t]) /\ tampered' = tampered
                \/ tampered' # {}
      BY <2>5, <3>1
    <3>3. Log!OnlyLog(t, AbsLog, AbsLog')
      BY <3>2 DEF Log!OnlyLog
    <3>4. \/ Log!IsPrefix(AbsLog[t], AbsLog'[t]) /\ UNCHANGED (tampered # {})
          \/ (tampered # {})' = TRUE
      BY <3>2
    <3>5. Log!Next
      BY <2>2, <2>3, <3>3, <3>4 DEF Log!Next
    <3> QED
      BY <3>5
  <2> QED
    BY <2>1, <2>4, <2>5 DEF AbsStep
<1> QED
  BY <1>1, <1>2, AuditInvariant, PTL DEF Spec, AppendOnly, Log!Spec
=============================================================================
