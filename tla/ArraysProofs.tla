---------------------------- MODULE ArraysProofs ----------------------------
(***************************************************************************)
(* Theorems about ReplayArrays: its loops implement Replay, for every set  *)
(* of processes, descriptors, addresses and records, every length of the   *)
(* log, and wherever memory runs out.                                      *)
(*                                                                         *)
(* Each loop is a recursive function of its rounds.  What holds after a    *)
(* round (Swept, Giving, Stack) is shown by looking at the first round     *)
(* after which it would not hold.  The arrays are kept Intact: no entry of *)
(* a table is there twice, so taking one away from the array takes it away *)
(* from the set; and findings are in the order of the log, so what a       *)
(* rollback takes away is at the end.                                      *)
(***************************************************************************)
EXTENDS ReplayArrays, FiniteSetTheorems, SequenceTheorems, WellFoundedInduction, TLAPS

-----------------------------------------------------------------------------
(* Arrays and what is in them.                                             *)

LEMMA LeastExists ==
    ASSUME NEW S, S \subseteq Nat, S # {}
    PROVE  \E i \in S : \A j \in S : i <= j
<1> DEFINE R == {ss \in Nat \X Nat : ss[1] < ss[2]}
<1>1. \E i \in S : \A j \in S : ~(<<j, i>> \in R)
  <2>1. IsWellFoundedOn(R, Nat)
    BY NatLessThanWellFounded DEF OpToRel
  <2> HIDE DEF R
  <2> QED BY <2>1, WFMin
<1>2. PICK i \in S : \A j \in S : ~(<<j, i>> \in R)
  BY <1>1
<1>3. ASSUME NEW j \in S PROVE i <= j
  <2>1. i \in Nat /\ j \in Nat /\ ~(<<j, i>> \in R)
    BY <1>2
  <2> QED BY <2>1
<1> QED BY <1>3

LEMMA RangeMeaning ==
    ASSUME NEW S, NEW array \in Seq(S)
    PROVE  /\ Len(array) \in Nat
           /\ Range(array) \subseteq S
           /\ \A i \in 1 .. Len(array) : array[i] \in S /\ array[i] \in Range(array)
           /\ \A e \in Range(array) : \E i \in 1 .. Len(array) : array[i] = e
BY DEF Range

LEMMA RangeOfAppend ==
    ASSUME NEW S, NEW array \in Seq(S), NEW e \in S
    PROVE  /\ Append(array, e) \in Seq(S)
           /\ Len(Append(array, e)) = Len(array) + 1
           /\ \A i \in 1 .. Len(array) : Append(array, e)[i] = array[i]
           /\ Append(array, e)[Len(array) + 1] = e
           /\ Range(Append(array, e)) = Range(array) \cup {e}
<1>1. /\ Append(array, e) \in Seq(S) /\ Len(array) \in Nat
      /\ Len(Append(array, e)) = Len(array) + 1
      /\ \A i \in 1 .. Len(array) : Append(array, e)[i] = array[i]
      /\ Append(array, e)[Len(array) + 1] = e
  OBVIOUS
<1>2. ASSUME NEW x \in Range(Append(array, e)) PROVE x \in Range(array) \cup {e}
  <2>1. PICK i \in 1 .. Len(array) + 1 : Append(array, e)[i] = x
    BY <1>1, RangeMeaning
  <2>2. i \in 1 .. Len(array) \/ i = Len(array) + 1
    BY <1>1
  <2> QED BY <1>1, <2>1, <2>2, RangeMeaning
<1>3. ASSUME NEW x \in Range(array) PROVE x \in Range(Append(array, e))
  <2>1. PICK i \in 1 .. Len(array) : array[i] = x
    BY RangeMeaning
  <2>2. i \in 1 .. Len(array) + 1
    BY <1>1
  <2> QED BY <1>1, <2>1, <2>2, RangeMeaning
<1>4. e \in Range(Append(array, e))
  <2>1. Len(array) + 1 \in 1 .. Len(Append(array, e))
    BY <1>1
  <2>2. Append(array, e)[Len(array) + 1] \in Range(Append(array, e))
    BY <1>1, <2>1, RangeMeaning
  <2> QED BY <1>1, <2>2
<1>5. Range(Append(array, e)) = Range(array) \cup {e}
  BY <1>2, <1>3, <1>4
<1> QED BY <1>1, <1>5

\* No entry is there twice.
Once(array) ==
    \A i, j \in 1 .. Len(array) : array[i] = array[j] => i = j

LEMMA Beginning ==
    ASSUME NEW S, NEW array \in Seq(S), NEW n \in 0 .. Len(array)
    PROVE  /\ SubSeq(array, 1, n) \in Seq(S)
           /\ Len(SubSeq(array, 1, n)) = n
           /\ \A j \in 1 .. n : SubSeq(array, 1, n)[j] = array[j]
<1>1. n \in Int /\ 1 \in Int /\ 0 <= n /\ n - 1 + 1 = n /\ \A j \in 1 .. n : 1 + j - 1 = j
  OBVIOUS
<1>2. \A j \in 1 .. n : array[j] \in S
  OBVIOUS
<1>3. /\ SubSeq(array, 1, n) \in Seq(S)
      /\ Len(SubSeq(array, 1, n)) = IF 1 <= n THEN n - 1 + 1 ELSE 0
      /\ \A j \in 1 .. n - 1 + 1 : SubSeq(array, 1, n)[j] = array[1 + j - 1]
  BY <1>1, <1>2, SubSeqProperties
<1> DEFINE b == SubSeq(array, 1, n)
<1> HIDE DEF b
<1>4. b \in Seq(S) /\ Len(b) = n /\ \A j \in 1 .. n : b[j] = array[j]
  BY <1>1, <1>3 DEF b
<1> QED BY <1>4 DEF b

LEMMA DropMeaning ==
    ASSUME NEW S, NEW array \in Seq(S), NEW i \in 1 .. Len(array)
    PROVE  /\ Drop(array, i) \in Seq(S)
           /\ Len(Drop(array, i)) = Len(array) - 1
           /\ \A j \in 1 .. Len(array) - 1 :
                Drop(array, i)[j] = IF j = i THEN array[Len(array)] ELSE array[j]
<1>1. Len(array) \in Nat /\ i \in Nat /\ 1 <= i /\ i <= Len(array)
  OBVIOUS
<1>2. CASE i = Len(array)
  <2>1. Drop(array, i) = SubSeq(array, 1, Len(array) - 1)
    BY <1>2 DEF Drop, Front
  <2>2. SubSeq(array, 1, Len(array) - 1) \in Seq(S)
        /\ Len(SubSeq(array, 1, Len(array) - 1)) = Len(array) - 1
        /\ \A j \in 1 .. Len(array) - 1 : SubSeq(array, 1, Len(array) - 1)[j] = array[j]
    <3>1. Len(array) - 1 \in 0 .. Len(array)
      BY <1>1
    <3> QED BY <3>1, Beginning
  <2> DEFINE left == SubSeq(array, 1, Len(array) - 1)
  <2> HIDE DEF left
  <2>3. Drop(array, i) = left
    BY <2>1 DEF left
  <2>4. /\ left \in Seq(S) /\ Len(left) = Len(array) - 1
        /\ \A j \in 1 .. Len(array) - 1 : j # i /\ left[j] = array[j]
    BY <1>1, <1>2, <2>2 DEF left
  <2> QED BY <2>3, <2>4
<1>3. CASE i # Len(array)
  <2> DEFINE moved == [array EXCEPT ![i] = array[Len(array)]]
  <2>1. Drop(array, i) = SubSeq(moved, 1, Len(moved) - 1)
    BY <1>3 DEF Drop, Front, Last
  <2>2. moved \in Seq(S) /\ Len(moved) = Len(array)
        /\ \A j \in 1 .. Len(array) : moved[j] = IF j = i THEN array[Len(array)] ELSE array[j]
    BY <1>1
  <2> HIDE DEF moved
  <2>3. SubSeq(moved, 1, Len(moved) - 1) \in Seq(S)
        /\ Len(SubSeq(moved, 1, Len(moved) - 1)) = Len(moved) - 1
        /\ \A j \in 1 .. Len(moved) - 1 : SubSeq(moved, 1, Len(moved) - 1)[j] = moved[j]
    <3>1. Len(moved) - 1 \in 0 .. Len(moved)
      BY <1>1, <2>2
    <3> QED BY <2>2, <3>1, Beginning
  <2> DEFINE left == SubSeq(moved, 1, Len(moved) - 1)
  <2> HIDE DEF left
  <2>4. Drop(array, i) = left
    BY <2>1 DEF left
  <2>5. /\ left \in Seq(S) /\ Len(left) = Len(array) - 1
        /\ \A j \in 1 .. Len(array) - 1 :
             left[j] = IF j = i THEN array[Len(array)] ELSE array[j]
    BY <1>1, <2>2, <2>3 DEF left
  <2> QED BY <2>4, <2>5
<1> QED BY <1>2, <1>3

LEMMA DropRange ==
    ASSUME NEW S, NEW array \in Seq(S), NEW i \in 1 .. Len(array), Once(array)
    PROVE  Range(Drop(array, i)) = Range(array) \ {array[i]}
<1> DEFINE n == Len(array)
           left == Drop(array, i)
<1>1. /\ n \in Nat /\ i \in Nat /\ 1 <= i /\ i <= n
      /\ left \in Seq(S) /\ Len(left) = n - 1
      /\ \A j \in 1 .. n - 1 : left[j] = IF j = i THEN array[n] ELSE array[j]
  BY DropMeaning
<1> HIDE DEF left
<1>2. ASSUME NEW x \in Range(left) PROVE x \in Range(array) \ {array[i]}
  <2>1. PICK j \in 1 .. n - 1 : left[j] = x
    BY <1>1, RangeMeaning
  <2>2. j \in 1 .. n /\ n \in 1 .. n /\ j # n
    BY <1>1
  <2>3. CASE j = i
    BY <1>1, <2>1, <2>2, <2>3, RangeMeaning DEF Once
  <2>4. CASE j # i
    BY <1>1, <2>1, <2>2, <2>4, RangeMeaning DEF Once
  <2> QED BY <2>3, <2>4
<1>3. ASSUME NEW x \in Range(array), x # array[i] PROVE x \in Range(left)
  <2>1. PICK j \in 1 .. n : array[j] = x
    BY RangeMeaning
  <2>2. j # i
    BY <1>3, <2>1
  <2>3. CASE j = n
    <3>1. i \in 1 .. n - 1 /\ left[i] = x
      BY <1>1, <2>1, <2>2, <2>3
    <3> QED BY <1>1, <3>1, RangeMeaning
  <2>4. CASE j # n
    <3>1. j \in 1 .. n - 1 /\ left[j] = x
      BY <1>1, <2>1, <2>2, <2>4
    <3> QED BY <1>1, <3>1, RangeMeaning
  <2> QED BY <2>3, <2>4
<1> QED BY <1>2, <1>3 DEF left

LEMMA PutRange ==
    ASSUME NEW S, NEW array \in Seq(S), NEW i \in 1 .. Len(array), NEW e \in S, Once(array)
    PROVE  /\ [array EXCEPT ![i] = e] \in Seq(S)
           /\ Len([array EXCEPT ![i] = e]) = Len(array)
           /\ \A j \in 1 .. Len(array) :
                [array EXCEPT ![i] = e][j] = IF j = i THEN e ELSE array[j]
           /\ Range([array EXCEPT ![i] = e]) = (Range(array) \ {array[i]}) \cup {e}
<1> DEFINE put == [array EXCEPT ![i] = e]
<1>1. /\ put \in Seq(S) /\ Len(put) = Len(array)
      /\ \A j \in 1 .. Len(array) : put[j] = IF j = i THEN e ELSE array[j]
  OBVIOUS
<1> HIDE DEF put
<1>2. ASSUME NEW x \in Range(put) PROVE x \in (Range(array) \ {array[i]}) \cup {e}
  <2>1. PICK j \in 1 .. Len(array) : put[j] = x
    BY <1>1, RangeMeaning
  <2>2. CASE j = i
    BY <1>1, <2>1, <2>2
  <2>3. CASE j # i
    <3>1. array[j] = x /\ array[j] # array[i]
      BY <1>1, <2>1, <2>3 DEF Once
    <3> QED BY <3>1, RangeMeaning
  <2> QED BY <2>2, <2>3
<1>3. ASSUME NEW x \in Range(array), x # array[i] PROVE x \in Range(put)
  <2>1. PICK j \in 1 .. Len(array) : array[j] = x
    BY RangeMeaning
  <2>2. put[j] = x
    BY <1>1, <1>3, <2>1
  <2> QED BY <1>1, <2>2, RangeMeaning
<1>4. e \in Range(put)
  BY <1>1, RangeMeaning
<1>5. Range(put) = (Range(array) \ {array[i]}) \cup {e}
  BY <1>2, <1>3, <1>4
<1> QED BY <1>1, <1>5 DEF put

\* The first match of a search, if there is one.
LEMMA FdIndexMeaning ==
    ASSUME NEW table \in Seq(Abstract!LiveFd), NEW pid, NEW fd
    PROVE  /\ FdIndex(table, pid, fd) \in 0 .. Len(table)
           /\ FdIndex(table, pid, fd) = 0 <=> Abstract!Entries(Range(table), pid, fd) = {}
           /\ FdIndex(table, pid, fd) # 0 =>
                table[FdIndex(table, pid, fd)] \in Abstract!Entries(Range(table), pid, fd)
<1> DEFINE S == {i \in 1 .. Len(table) : table[i].pid = pid /\ table[i].fd = fd}
<1>1. FdIndex(table, pid, fd) = IF S # {} THEN Min(S) ELSE 0
  BY DEF FdIndex, SelectInSeq
<1>2. S # {} => Min(S) \in S
  <2>1. ASSUME S # {} PROVE \E i \in S : \A j \in S : i <= j
    <3>1. S \subseteq Nat
      OBVIOUS
    <3> HIDE DEF S
    <3> QED BY <2>1, <3>1, LeastExists
  <2> QED BY <2>1 DEF Min
<1>3. S = {} <=> Abstract!Entries(Range(table), pid, fd) = {}
  BY RangeMeaning DEF Abstract!Entries
<1>4. \A i \in S : i \in 1 .. Len(table) /\ table[i] \in Abstract!Entries(Range(table), pid, fd)
  BY RangeMeaning DEF Abstract!Entries
<1>5. Len(table) \in Nat /\ \A i \in 1 .. Len(table) : i \in 0 .. Len(table) /\ i # 0
  BY RangeMeaning
<1> HIDE DEF S
<1> QED BY <1>1, <1>2, <1>3, <1>4, <1>5

-----------------------------------------------------------------------------
(* The table of live descriptors.                                          *)

\* No descriptor was entered twice by one record, and none by a record to come.
Table(table, n) ==
    /\ table \in Seq(Abstract!LiveFd)
    /\ \A i \in 1 .. Len(table) : table[i].sequence <= n
    /\ \A i, j \in 1 .. Len(table) :
         (/\ table[i].pid = table[j].pid /\ table[i].fd = table[j].fd
          /\ table[i].sequence = table[j].sequence) => i = j

LEMMA TableOnce ==
    ASSUME NEW table, NEW n, Table(table, n)
    PROVE  Once(table) /\ table \in Seq(Abstract!LiveFd) /\ Len(table) \in Nat
<1>1. Once(table)
  BY DEF Table, Once
<1> QED BY <1>1 DEF Table

LEMMA TableDrop ==
    ASSUME NEW table, NEW n, Table(table, n), NEW i \in 1 .. Len(table)
    PROVE  Table(Drop(table, i), n)
<1> DEFINE left == Drop(table, i)
           from(j) == IF j = i THEN Len(table) ELSE j
<1>1. /\ left \in Seq(Abstract!LiveFd) /\ Len(left) = Len(table) - 1 /\ Len(table) \in Nat
      /\ \A j \in 1 .. Len(table) - 1 : left[j] = table[from(j)]
  <2>1. table \in Seq(Abstract!LiveFd) /\ Len(table) \in Nat
    BY TableOnce
  <2> QED BY <2>1, DropMeaning
<1>2. \A j \in 1 .. Len(table) - 1 : from(j) \in 1 .. Len(table)
  BY <1>1
<1>3. \A j, k \in 1 .. Len(table) - 1 : from(j) = from(k) => j = k
  BY <1>1
<1> SUFFICES Table(left, n)
  OBVIOUS
<1> HIDE DEF left, from
<1>4. ASSUME NEW j \in 1 .. Len(left) PROVE left[j].sequence <= n
  <2>1. from(j) \in 1 .. Len(table) /\ left[j] = table[from(j)]
    BY <1>1, <1>2
  <2> QED BY <2>1 DEF Table
<1>5. ASSUME NEW j \in 1 .. Len(left), NEW k \in 1 .. Len(left),
             left[j].pid = left[k].pid, left[j].fd = left[k].fd,
             left[j].sequence = left[k].sequence
      PROVE  j = k
  <2>1. /\ from(j) \in 1 .. Len(table) /\ left[j] = table[from(j)]
        /\ from(k) \in 1 .. Len(table) /\ left[k] = table[from(k)]
    BY <1>1, <1>2
  <2>2. from(j) = from(k)
    BY <1>5, <2>1 DEF Table
  <2> QED BY <1>1, <1>3, <2>2
<1> QED BY <1>1, <1>4, <1>5 DEF Table

LEMMA TablePut ==
    ASSUME NEW table, NEW n, Table(table, n), NEW i \in 1 .. Len(table),
           NEW e \in Abstract!LiveFd,
           e.pid = table[i].pid, e.fd = table[i].fd, e.sequence = table[i].sequence
    PROVE  Table([table EXCEPT ![i] = e], n)
<1> DEFINE put == [table EXCEPT ![i] = e]
<1>1. /\ put \in Seq(Abstract!LiveFd) /\ Len(put) = Len(table)
      /\ \A j \in 1 .. Len(table) : put[j] = IF j = i THEN e ELSE table[j]
  BY TableOnce, PutRange
<1> HIDE DEF put
<1>2. \A j \in 1 .. Len(table) :
        put[j].pid = table[j].pid /\ put[j].fd = table[j].fd /\ put[j].sequence = table[j].sequence
  BY <1>1
<1> SUFFICES Table(put, n)
  BY DEF put
<1> QED BY <1>1, <1>2 DEF Table

LEMMA TableAppend ==
    ASSUME NEW table, NEW n \in Nat, NEW m \in Nat, n <= m, Table(table, n),
           NEW e \in Abstract!LiveFd, e.sequence <= m,
           \A x \in Range(table) : ~(x.pid = e.pid /\ x.fd = e.fd /\ x.sequence = e.sequence)
    PROVE  Table(Append(table, e), m)
<1> DEFINE more == Append(table, e)
<1>1. table \in Seq(Abstract!LiveFd) /\ Len(table) \in Nat
  BY TableOnce
<1>2. /\ more \in Seq(Abstract!LiveFd) /\ Len(more) = Len(table) + 1
      /\ \A i \in 1 .. Len(table) : more[i] = table[i]
      /\ more[Len(table) + 1] = e
  BY <1>1, RangeOfAppend
<1> HIDE DEF more
<1>3. \A i \in 1 .. Len(table) : table[i] \in Range(table) /\ table[i] \in Abstract!LiveFd
  BY <1>1, RangeMeaning
<1>4. \A i \in 1 .. Len(more) : i \in 1 .. Len(table) \/ i = Len(table) + 1
  BY <1>1, <1>2
<1>5. ASSUME NEW i \in 1 .. Len(more) PROVE more[i].sequence <= m
  <2>1. CASE i \in 1 .. Len(table)
    <3>1. table[i].sequence <= n /\ table[i].sequence \in Nat
      BY <1>3, <2>1 DEF Table, Abstract!LiveFd
    <3> QED BY <1>2, <2>1, <3>1
  <2> QED BY <1>2, <1>4, <2>1
<1>6. ASSUME NEW i \in 1 .. Len(more), NEW j \in 1 .. Len(more),
             more[i].pid = more[j].pid, more[i].fd = more[j].fd,
             more[i].sequence = more[j].sequence
      PROVE  i = j
  BY <1>2, <1>3, <1>4, <1>6 DEF Table
<1> SUFFICES Table(more, m)
  BY DEF more
<1> QED BY <1>2, <1>5, <1>6 DEF Table

\* A table that later records are added to.
LEMMA TableLater ==
    ASSUME NEW table, NEW n \in Nat, NEW m \in Nat, n <= m, Table(table, n)
    PROVE  Table(table, m)
<1>1. \A i \in 1 .. Len(table) : table[i] \in Abstract!LiveFd
  BY DEF Table
<1>2. \A i \in 1 .. Len(table) : table[i].sequence \in Nat /\ table[i].sequence <= n
  BY <1>1 DEF Table, Abstract!LiveFd
<1>3. \A i \in 1 .. Len(table) : table[i].sequence <= m
  BY <1>2
<1> QED BY <1>3 DEF Table

-----------------------------------------------------------------------------
(* What a sweep has done.                                                  *)

LEMMA ClearedMeaning ==
    ASSUME NEW e \in Abstract!LiveFd
    PROVE  /\ Abstract!Cleared(e) \in Abstract!LiveFd
           /\ ~Abstract!Cleared(e).exec_pending
           /\ Abstract!Cleared(e).pid = e.pid /\ Abstract!Cleared(e).fd = e.fd
           /\ Abstract!Cleared(e).sequence = e.sequence
BY DEF Abstract!LiveFd, Abstract!Cleared

LEMMA SweptMore ==
    ASSUME Range(fds) \subseteq Abstract!LiveFd, NEW W, W \subseteq Range(fds),
           NEW e \in Range(fds) \ W, e.exec_pending
    PROVE  /\ e.exec_cloexec =>
                /\ Abstract!SweptFds(W \cup {e}) = Abstract!SweptFds(W) \ {e}
                /\ Abstract!SweptClosed(W \cup {e}) = Abstract!SweptClosed(W) \cup {<<e.pid, e.fd>>}
           /\ ~e.exec_cloexec =>
                /\ Abstract!SweptFds(W \cup {e}) =
                     (Abstract!SweptFds(W) \ {e}) \cup {Abstract!Cleared(e)}
                /\ Abstract!SweptClosed(W \cup {e}) = Abstract!SweptClosed(W)
           /\ (W \cup {e}) \ {e} = W
<1> DEFINE C(X) == {Abstract!Cleared(x) : x \in {y \in X : ~y.exec_cloexec}}
           L(X) == {Abstract!Slot(x) : x \in {y \in X : y.exec_cloexec}}
<1>1. \A X : Abstract!SweptFds(X) = (Range(fds) \ X) \cup C(X)
             /\ Abstract!SweptClosed(X) = Range(closed_fds) \cup L(X)
  BY DEF Abstract!SweptFds, Abstract!SweptClosed
<1>2. e \notin C(W)
  BY ClearedMeaning
<1>3. e.exec_cloexec => C(W \cup {e}) = C(W) /\ L(W \cup {e}) = L(W) \cup {<<e.pid, e.fd>>}
  BY DEF Abstract!Slot
<1>4. ~e.exec_cloexec =>
        C(W \cup {e}) = C(W) \cup {Abstract!Cleared(e)} /\ L(W \cup {e}) = L(W)
  OBVIOUS
<1>5. Abstract!Cleared(e) # e
  BY ClearedMeaning
<1> HIDE DEF C, L
<1> QED BY <1>1, <1>2, <1>3, <1>4, <1>5

\* Every table while a sweep runs.
States ==
    [fds : Seq(Abstract!LiveFd), closed : Seq(Pid \X Fd), err : BOOLEAN,
     granted : Nat, index : Nat]

\* The entries of W have been handled, and no others; the last of them may have
\* set the error.
Handled(st, at_end, W) ==
    /\ Range(st.fds) = IF at_end THEN Range(fds) \ W ELSE Abstract!SweptFds(W)
    /\ ~st.err => Range(st.closed) = Abstract!SweptClosed(W)
    /\ st.err => \E e \in W : e.exec_cloexec /\ Range(st.closed) = Abstract!SweptClosed(W \ {e})

Swept(st, at_end, P) ==
    /\ st \in States /\ st.index # 0
    /\ Table(st.fds, Len(resources))
    /\ \E W \in SUBSET P : Handled(st, at_end, W)

\* P are entries whose attempts are open.
Open(P) == P \subseteq Range(fds) /\ \A e \in P : e.exec_pending

LEMMA HandledEntry ==
    ASSUME Range(fds) \subseteq Abstract!LiveFd, NEW st, NEW at_end \in BOOLEAN,
           NEW P, Open(P), NEW W \in SUBSET P, Handled(st, at_end, W),
           NEW e \in Range(st.fds), e.exec_pending
    PROVE  e \in Range(fds) \ W
<1>1. e \in (Range(fds) \ W) \cup {Abstract!Cleared(x) : x \in W}
  BY DEF Handled, Abstract!SweptFds
<1>2. \A x \in W : x \in Abstract!LiveFd
  BY DEF Open
<1> QED BY <1>1, <1>2, ClearedMeaning

\* The entries before the index are not for the sweep.
Behind(st, pid) ==
    \A j \in 1 .. Len(st.fds) :
      j < st.index => ~(st.fds[j].pid = pid /\ st.fds[j].exec_pending)

LEMMA SweepOneMeaning ==
    ASSUME Range(fds) \subseteq Abstract!LiveFd, Len(resources) \in Nat,
           NEW pid \in Pid, NEW at_end \in BOOLEAN, NEW P, Open(P),
           \A x \in Range(fds) : x.pid = pid /\ x.exec_pending => x \in P,
           NEW st, Swept(st, at_end, P), Behind(st, pid),
           ~st.err, st.index <= Len(st.fds),
           st.fds[st.index].pid = pid, st.fds[st.index].exec_pending
    PROVE  LET next == SweepOne(pid, at_end, st)
           IN  /\ Swept(next, at_end, P) /\ Behind(next, pid)
               /\ \/ next.index = st.index /\ Len(next.fds) = Len(st.fds) - 1
                  \/ ~at_end /\ next.index = st.index + 1 /\ Len(next.fds) = Len(st.fds)
<1> DEFINE i == st.index
           e == st.fds[i]
           next == SweepOne(pid, at_end, st)
           n == Len(resources)
<1>0. SUFFICES /\ Swept(next, at_end, P) /\ Behind(next, pid)
               /\ \/ next.index = i /\ Len(next.fds) = Len(st.fds) - 1
                  \/ ~at_end /\ next.index = i + 1 /\ Len(next.fds) = Len(st.fds)
  OBVIOUS
<1>1. /\ st \in States /\ i \in Nat /\ i # 0 /\ Table(st.fds, n)
      /\ st.fds \in Seq(Abstract!LiveFd) /\ st.closed \in Seq(Pid \X Fd)
      /\ st.granted \in Nat
  BY DEF Swept, States
<1>2. Len(st.fds) \in Nat /\ i \in 1 .. Len(st.fds)
  BY <1>1, RangeMeaning
<1>3. e \in Abstract!LiveFd /\ e \in Range(st.fds) /\ Once(st.fds)
  BY <1>1, <1>2, RangeMeaning, TableOnce
<1>4. PICK W \in SUBSET P : Handled(st, at_end, W)
  BY DEF Swept
<1>5. e \in Range(fds) \ W /\ e \in P /\ W \subseteq Range(fds) /\ W \cup {e} \in SUBSET P
  <2>1. e.exec_pending /\ e.pid = pid
    OBVIOUS
  <2>2. e \in Range(fds) \ W
    BY <1>3, <1>4, <2>1, HandledEntry
  <2> QED BY <1>4, <2>1, <2>2 DEF Open
<1>6. /\ e.exec_cloexec =>
           /\ Abstract!SweptFds(W \cup {e}) = Abstract!SweptFds(W) \ {e}
           /\ Abstract!SweptClosed(W \cup {e}) = Abstract!SweptClosed(W) \cup {<<e.pid, e.fd>>}
      /\ ~e.exec_cloexec =>
           /\ Abstract!SweptFds(W \cup {e}) =
                (Abstract!SweptFds(W) \ {e}) \cup {Abstract!Cleared(e)}
           /\ Abstract!SweptClosed(W \cup {e}) = Abstract!SweptClosed(W)
      /\ (W \cup {e}) \ {e} = W
  <2>1. e.exec_pending
    OBVIOUS
  <2> HIDE DEF e
  <2> QED BY <1>5, <2>1, SweptMore
<1> DEFINE left == Drop(st.fds, i)
<1>7. /\ left \in Seq(Abstract!LiveFd) /\ Len(left) = Len(st.fds) - 1
      /\ \A j \in 1 .. Len(st.fds) - 1 : j < i => left[j] = st.fds[j]
      /\ Range(left) = Range(st.fds) \ {e}
      /\ Table(left, n)
  <2>1. /\ left \in Seq(Abstract!LiveFd) /\ Len(left) = Len(st.fds) - 1
        /\ \A j \in 1 .. Len(st.fds) - 1 :
             left[j] = IF j = i THEN st.fds[Len(st.fds)] ELSE st.fds[j]
    BY <1>1, <1>2, DropMeaning, ZenonT(30)
  <2>2. Range(left) = Range(st.fds) \ {e}
    BY <1>1, <1>2, <1>3, DropRange
  <2>3. Table(left, n)
    BY <1>1, <1>2, TableDrop
  <2>4. \A j \in 1 .. Len(st.fds) - 1 : j < i => left[j] = st.fds[j]
    <3> HIDE DEF left
    <3> QED BY <1>1, <2>1
  <2> HIDE DEF left
  <2> QED BY <2>1, <2>2, <2>3, <2>4
<1>8. Range(st.fds) = (IF at_end THEN Range(fds) \ W ELSE Abstract!SweptFds(W))
      /\ Range(st.closed) = Abstract!SweptClosed(W)
  BY <1>4 DEF Handled
<1>9. ASSUME NEW after, after.fds = left, after.index = i
       PROVE  Behind(after, pid)
  <2>1. SUFFICES ASSUME NEW j \in 1 .. Len(left), j < i
        PROVE  ~(left[j].pid = pid /\ left[j].exec_pending)
    BY <1>9 DEF Behind
  <2> HIDE DEF left
  <2>2. j \in 1 .. Len(st.fds) /\ left[j] = st.fds[j]
    BY <1>2, <1>7, <2>1
  <2> QED BY <2>1, <2>2 DEF Behind
<1>10. <<e.pid, e.fd>> \in Pid \X Fd
  BY <1>3 DEF Abstract!LiveFd
<1>11. CASE e.exec_cloexec
  <2>1. next = CloseOnExec(st)
    BY <1>11 DEF SweepOne
  <2>2. CASE st.granted > 0
    <3>1. next = [st EXCEPT !.closed = Append(@, <<e.pid, e.fd>>), !.granted = @ - 1,
                            !.err = FALSE, !.fds = left]
      BY <2>1, <2>2 DEF CloseOnExec
    <3>2. Append(st.closed, <<e.pid, e.fd>>) \in Seq(Pid \X Fd)
          /\ Range(Append(st.closed, <<e.pid, e.fd>>)) = Range(st.closed) \cup {<<e.pid, e.fd>>}
      BY <1>1, <1>10, RangeOfAppend
    <3>3. st.granted - 1 \in Nat
      BY <1>1, <2>2
    <3> HIDE DEF left, e
    <3>4. /\ next \in States /\ next.fds = left /\ next.index = i /\ ~next.err
          /\ next.closed = Append(st.closed, <<e.pid, e.fd>>)
      BY <1>1, <1>7, <3>1, <3>2, <3>3 DEF States
    <3> HIDE DEF next, i
    <3>5. Handled(next, at_end, W \cup {e})
      BY <1>6, <1>7, <1>8, <1>11, <3>2, <3>4 DEF Handled
    <3>6. Swept(next, at_end, P)
      BY <1>1, <1>5, <1>7, <3>4, <3>5 DEF Swept
    <3>7. Behind(next, pid)
      BY <1>9, <3>4
    <3> QED BY <1>7, <3>4, <3>6, <3>7
  <2>3. CASE st.granted = 0
    <3>1. next = [st EXCEPT !.closed = @, !.granted = @, !.err = TRUE, !.fds = left]
      <4>1. ~(st.granted > 0)
        BY <2>3
      <4>2. next = [st EXCEPT
                      !.closed = IF st.granted > 0 THEN Append(@, <<e.pid, e.fd>>) ELSE @,
                      !.granted = IF st.granted > 0 THEN @ - 1 ELSE @,
                      !.err = ~(st.granted > 0), !.fds = left]
        BY <2>1 DEF CloseOnExec
      <4> HIDE DEF left, next
      <4> QED BY <4>1, <4>2
    <3> HIDE DEF left, e
    <3>4. /\ next \in States /\ next.fds = left /\ next.index = i /\ next.err
          /\ next.closed = st.closed
      BY <1>1, <1>7, <3>1 DEF States
    <3> HIDE DEF next, i
    <3>5. Handled(next, at_end, W \cup {e})
      BY <1>6, <1>7, <1>8, <1>11, <3>4 DEF Handled
    <3>6. Swept(next, at_end, P)
      BY <1>1, <1>5, <1>7, <3>4, <3>5 DEF Swept
    <3>7. Behind(next, pid)
      BY <1>9, <3>4
    <3> QED BY <1>7, <3>4, <3>6, <3>7
  <2> QED BY <1>1, <2>2, <2>3
<1>12. CASE ~e.exec_cloexec /\ at_end
  <2>1. next = [st EXCEPT !.fds = left]
    BY <1>12 DEF SweepOne
  <2> HIDE DEF left, e
  <2>4. /\ next \in States /\ next.fds = left /\ next.index = i /\ ~next.err
        /\ next.closed = st.closed
    BY <1>1, <1>7, <2>1 DEF States
  <2> HIDE DEF next, i
  <2>5. Handled(next, at_end, W \cup {e})
    BY <1>6, <1>7, <1>8, <1>12, <2>4 DEF Handled
  <2>6. Swept(next, at_end, P)
    BY <1>1, <1>5, <1>7, <2>4, <2>5 DEF Swept
  <2>7. Behind(next, pid)
    BY <1>9, <2>4
  <2> QED BY <1>7, <2>4, <2>6, <2>7
<1>13. CASE ~e.exec_cloexec /\ ~at_end
  <2> DEFINE put == [st.fds EXCEPT ![i] = Abstract!Cleared(e)]
  <2>1. next = [st EXCEPT !.fds = put, !.index = @ + 1]
    BY <1>13 DEF SweepOne
  <2>2. /\ Abstract!Cleared(e) \in Abstract!LiveFd /\ ~Abstract!Cleared(e).exec_pending
        /\ Abstract!Cleared(e).pid = e.pid /\ Abstract!Cleared(e).fd = e.fd
        /\ Abstract!Cleared(e).sequence = e.sequence
    BY <1>3, ClearedMeaning
  <2>3. /\ put \in Seq(Abstract!LiveFd) /\ Len(put) = Len(st.fds)
        /\ \A j \in 1 .. Len(st.fds) : put[j] = IF j = i THEN Abstract!Cleared(e) ELSE st.fds[j]
        /\ Range(put) = (Range(st.fds) \ {e}) \cup {Abstract!Cleared(e)}
    BY <1>1, <1>2, <1>3, <2>2, PutRange
  <2>4. Table(put, n)
    BY <1>1, <1>2, <2>2, TablePut
  <2> HIDE DEF put, e
  <2>5. /\ next \in States /\ next.fds = put /\ next.index = i + 1 /\ ~next.err
        /\ next.closed = st.closed
    <3>1. st.index + 1 \in Nat /\ i + 1 = st.index + 1
      BY <1>1
    <3>2. next = [st EXCEPT !.fds = put, !.index = st.index + 1]
      BY <2>1
    <3> HIDE DEF next, i
    <3> QED BY <1>1, <2>3, <3>1, <3>2 DEF States
  <2> HIDE DEF next, i
  <2>6. Handled(next, at_end, W \cup {e})
    BY <1>6, <1>8, <1>13, <2>3, <2>5 DEF Handled
  <2>7. Swept(next, at_end, P)
    BY <1>1, <1>5, <2>4, <2>5, <2>6 DEF Swept
  <2>8. Behind(next, pid)
    BY <1>1, <1>2, <2>2, <2>3, <2>5 DEF Behind, i
  <2> QED BY <1>13, <2>3, <2>5, <2>7, <2>8
<1> QED BY <1>11, <1>12, <1>13

\* Where a sweep for pid can be.
Sweeps(pid, at_end, P) == {st \in States : Swept(st, at_end, P) /\ Behind(st, pid)}

\* The entries it has not come to.
Left(st) == Len(st.fds) + 1 - st.index

Over(st) == st.err \/ st.index > Len(st.fds)

LEMMA SweepsMeaning ==
    ASSUME NEW pid, NEW at_end, NEW P, NEW st \in Sweeps(pid, at_end, P)
    PROVE  /\ st \in States /\ Swept(st, at_end, P) /\ Behind(st, pid)
           /\ st.fds \in Seq(Abstract!LiveFd) /\ Len(st.fds) \in Nat
           /\ st.index \in Nat \ {0} /\ st.err \in BOOLEAN
           /\ Left(st) \in Int
<1>1. st \in States /\ Swept(st, at_end, P) /\ Behind(st, pid)
  BY DEF Sweeps
<1>2. st.fds \in Seq(Abstract!LiveFd) /\ st.index \in Nat \ {0} /\ st.err \in BOOLEAN
  BY <1>1 DEF States, Swept
<1>3. Len(st.fds) \in Nat
  BY <1>2
<1> QED BY <1>1, <1>2, <1>3 DEF Left

LEMMA SweepRoundMeaning ==
    ASSUME Range(fds) \subseteq Abstract!LiveFd, Len(resources) \in Nat,
           NEW pid \in Pid, NEW at_end \in BOOLEAN, NEW P, Open(P),
           \A x \in Range(fds) : x.pid = pid /\ x.exec_pending => x \in P,
           NEW st \in Sweeps(pid, at_end, P)
    PROVE  /\ SweepRound(pid, at_end, st) \in Sweeps(pid, at_end, P)
           /\ Over(st) => SweepRound(pid, at_end, st) = st
           /\ ~Over(st) => Left(SweepRound(pid, at_end, st)) = Left(st) - 1
           /\ at_end => \/ SweepRound(pid, at_end, st).fds = st.fds
                        \/ Len(SweepRound(pid, at_end, st).fds) < Len(st.fds)
<1> DEFINE next == SweepRound(pid, at_end, st)
<1>0. SUFFICES /\ next \in Sweeps(pid, at_end, P)
               /\ Over(st) => next = st
               /\ ~Over(st) => Left(next) = Left(st) - 1
               /\ at_end => next.fds = st.fds \/ Len(next.fds) < Len(st.fds)
  OBVIOUS
<1>1. /\ st \in States /\ Swept(st, at_end, P) /\ Behind(st, pid)
      /\ st.fds \in Seq(Abstract!LiveFd) /\ Len(st.fds) \in Nat
      /\ st.index \in Nat \ {0} /\ st.err \in BOOLEAN /\ Left(st) \in Int
  BY SweepsMeaning
<1>2. CASE Over(st)
  <2>1. next = st
    BY <1>2 DEF SweepRound, Over
  <2> QED BY <1>2, <2>1
<1>3. CASE ~Over(st) /\ st.fds[st.index].pid = pid /\ st.fds[st.index].exec_pending
  <2>1. next = SweepOne(pid, at_end, st)
    BY <1>3 DEF SweepRound, Over
  <2>2. ~st.err /\ st.index <= Len(st.fds)
    BY <1>1, <1>3 DEF Over
  <2>3. /\ Swept(next, at_end, P) /\ Behind(next, pid)
        /\ \/ next.index = st.index /\ Len(next.fds) = Len(st.fds) - 1
           \/ ~at_end /\ next.index = st.index + 1 /\ Len(next.fds) = Len(st.fds)
    BY <1>1, <1>3, <2>1, <2>2, SweepOneMeaning
  <2> HIDE DEF next
  <2>4. next \in Sweeps(pid, at_end, P)
    BY <2>3 DEF Sweeps, Swept
  <2>5. Left(next) = Left(st) - 1
    BY <1>1, <2>3 DEF Left
  <2> QED BY <1>1, <1>3, <2>3, <2>4, <2>5
<1>4. CASE ~Over(st) /\ ~(st.fds[st.index].pid = pid /\ st.fds[st.index].exec_pending)
  <2>1. next = [st EXCEPT !.index = @ + 1]
    BY <1>4 DEF SweepRound, Over
  <2>2. /\ next \in States /\ next.fds = st.fds /\ next.closed = st.closed
        /\ next.err = st.err /\ next.index = st.index + 1
    <3>1. st.index + 1 \in Nat
      BY <1>1
    <3>2. next = [st EXCEPT !.index = st.index + 1]
      BY <2>1
    <3> HIDE DEF next
    <3> QED BY <1>1, <3>1, <3>2 DEF States
  <2> HIDE DEF next
  <2>3. \A W : Handled(st, at_end, W) => Handled(next, at_end, W)
    BY <2>2 DEF Handled
  <2>4. Swept(next, at_end, P)
    BY <1>1, <2>2, <2>3 DEF Swept
  <2>5. Behind(next, pid)
    <3>1. SUFFICES ASSUME NEW j \in 1 .. Len(st.fds), j < st.index + 1
          PROVE  ~(st.fds[j].pid = pid /\ st.fds[j].exec_pending)
      BY <2>2 DEF Behind
    <3>2. j < st.index \/ j = st.index
      BY <1>1, <3>1
    <3> QED BY <1>1, <1>4, <3>2 DEF Behind
  <2>6. Left(next) = Left(st) - 1
    BY <1>1, <2>2 DEF Left
  <2> QED BY <1>4, <2>2, <2>4, <2>5, <2>6 DEF Sweeps
<1> QED BY <1>2, <1>3, <1>4

-----------------------------------------------------------------------------
(* Loops.                                                                  *)

\* n rounds of a loop that starts with `first`.
Rounds(T, first, step, n) ==
    {h \in [0 .. n -> T] : h[0] = first /\ \A i \in 1 .. n : h[i] = step[<<i, h[i - 1]>>]}

LEMMA RoundsExist ==
    ASSUME NEW T, NEW first \in T, NEW N \in Nat, NEW step \in [(1 .. N) \X T -> T]
    PROVE  Rounds(T, first, step, N) # {}
<1> DEFINE S == {m \in Nat : m <= N /\ Rounds(T, first, step, m) = {}}
<1>1. SUFFICES ASSUME S # {} PROVE FALSE
  OBVIOUS
<1>2. PICK m \in S : \A l \in S : m <= l
  BY <1>1, LeastExists
<1>3. m # 0
  <2>1. [i \in 0 .. 0 |-> first] \in Rounds(T, first, step, 0)
    BY DEF Rounds
  <2> QED BY <1>2, <2>1
<1>4. m \in Nat /\ m \in 1 .. N /\ m - 1 \in Nat /\ m - 1 \notin S
  BY <1>2, <1>3
<1>5. PICK h : h \in Rounds(T, first, step, m - 1)
  BY <1>4
<1>6. h \in [0 .. m - 1 -> T] /\ h[0] = first /\ \A i \in 1 .. m - 1 : h[i] = step[<<i, h[i - 1]>>]
  BY <1>5 DEF Rounds
<1> DEFINE g == [i \in 0 .. m |-> IF i = m THEN step[<<m, h[m - 1]>>] ELSE h[i]]
<1>7. step[<<m, h[m - 1]>>] \in T
  <2>1. h[m - 1] \in T
    BY <1>4, <1>6
  <2> QED BY <1>4, <2>1
<1>8. g \in [0 .. m -> T]
  BY <1>4, <1>6, <1>7
<1>9. g[0] = first
  BY <1>3, <1>4, <1>6
<1>10. ASSUME NEW i \in 1 .. m PROVE g[i] = step[<<i, g[i - 1]>>]
  <2>1. i - 1 \in 0 .. m /\ i - 1 # m /\ g[i - 1] = h[i - 1]
    BY <1>4
  <2>2. CASE i = m
    BY <1>4, <2>1, <2>2
  <2>3. CASE i # m
    <3>1. i \in 1 .. m - 1 /\ g[i] = h[i]
      BY <1>4, <2>3
    <3> QED BY <1>6, <2>1, <3>1
  <2> QED BY <2>2, <2>3
<1> HIDE DEF g
<1>11. g \in Rounds(T, first, step, m)
  BY <1>8, <1>9, <1>10 DEF Rounds
<1> QED BY <1>2, <1>11

\* The rounds that Sweep goes through.
SweepLoop(pid, at_end, st) ==
    CHOOSE f : f = [n \in 0 .. Len(st.fds) |->
                      IF n = 0 THEN st ELSE SweepRound(pid, at_end, f[n - 1])]

LEMMA SweepLoopMeaning ==
    ASSUME Range(fds) \subseteq Abstract!LiveFd, Len(resources) \in Nat,
           NEW pid \in Pid, NEW at_end \in BOOLEAN, NEW P, Open(P),
           \A x \in Range(fds) : x.pid = pid /\ x.exec_pending => x \in P,
           NEW st \in Sweeps(pid, at_end, P)
    PROVE  /\ Sweep(pid, at_end, st) = SweepLoop(pid, at_end, st)[Len(st.fds)]
           /\ SweepLoop(pid, at_end, st)[0] = st
           /\ \A n \in 1 .. Len(st.fds) :
                SweepLoop(pid, at_end, st)[n] =
                  SweepRound(pid, at_end, SweepLoop(pid, at_end, st)[n - 1])
<1> DEFINE N == Len(st.fds)
           T == Sweeps(pid, at_end, P)
           step == [x \in (1 .. N) \X T |-> SweepRound(pid, at_end, x[2])]
           goal(f) == [n \in 0 .. N |-> IF n = 0 THEN st ELSE SweepRound(pid, at_end, f[n - 1])]
           loop == SweepLoop(pid, at_end, st)
<1>1. N \in Nat
  BY SweepsMeaning
<1>2. \A x \in T : SweepRound(pid, at_end, x) \in T
  BY SweepRoundMeaning
<1> HIDE DEF N, T
<1>3. step \in [(1 .. N) \X T -> T]
  BY <1>2
<1>4. \A i \in 1 .. N, x \in T : step[<<i, x>>] = SweepRound(pid, at_end, x)
  OBVIOUS
<1> HIDE DEF step
<1>5. PICK h : h \in Rounds(T, st, step, N)
  <2>1. st \in T
    BY DEF T
  <2> QED BY <1>1, <1>3, <2>1, RoundsExist
<1>6. h = goal(h)
  <2>1. h \in [0 .. N -> T] /\ h[0] = st /\ \A i \in 1 .. N : h[i] = step[<<i, h[i - 1]>>]
    BY <1>5 DEF Rounds
  <2>2. \A i \in 1 .. N : i - 1 \in 0 .. N
    BY <1>1
  <2>3. \A i \in 1 .. N : h[i] = SweepRound(pid, at_end, h[i - 1])
    BY <1>4, <2>1, <2>2
  <2>4. \A i \in 0 .. N : h[i] = IF i = 0 THEN st ELSE SweepRound(pid, at_end, h[i - 1])
    BY <1>1, <2>1, <2>3
  <2> QED BY <2>1, <2>4
<1>7. loop = goal(loop)
  <2>1. loop = CHOOSE f : f = goal(f)
    BY DEF SweepLoop, N
  <2> HIDE DEF loop, goal
  <2> QED BY <1>6, <2>1
<1>8. Sweep(pid, at_end, st) = loop[N]
  BY DEF Sweep, SweepLoop, N
<1> HIDE DEF loop
<1>9. loop[0] = st /\ \A n \in 1 .. N : loop[n] = SweepRound(pid, at_end, loop[n - 1])
  <2>1. 0 \in 0 .. N /\ \A n \in 1 .. N : n \in 0 .. N /\ n # 0
    BY <1>1
  <2>2. \A n \in 0 .. N : loop[n] = IF n = 0 THEN st ELSE SweepRound(pid, at_end, loop[n - 1])
    BY <1>7
  <2> QED BY <2>1, <2>2
<1> QED BY <1>8, <1>9 DEF loop, N

\* Where the sweep ends.
LEMMA SweepMeaning ==
    ASSUME Range(fds) \subseteq Abstract!LiveFd, Len(resources) \in Nat,
           NEW pid \in Pid, NEW at_end \in BOOLEAN, NEW P, Open(P),
           \A x \in Range(fds) : x.pid = pid /\ x.exec_pending => x \in P,
           NEW st, Swept(st, at_end, P), st.index = 1
    PROVE  LET now == Sweep(pid, at_end, st)
           IN  /\ Swept(now, at_end, P)
               /\ ~now.err => \A x \in Range(now.fds) : ~(x.pid = pid /\ x.exec_pending)
               /\ at_end => now.fds = st.fds \/ Len(now.fds) < Len(st.fds)
<1> DEFINE N == Len(st.fds)
           f == SweepLoop(pid, at_end, st)
           now == Sweep(pid, at_end, st)
           Done(n) == /\ f[n] \in Sweeps(pid, at_end, P)
                      /\ Over(f[n]) \/ Left(f[n]) <= N - n
                      /\ at_end => f[n].fds = st.fds \/ Len(f[n].fds) < N
<1>0. SUFFICES /\ Swept(now, at_end, P)
               /\ ~now.err => \A x \in Range(now.fds) : ~(x.pid = pid /\ x.exec_pending)
               /\ at_end => now.fds = st.fds \/ Len(now.fds) < Len(st.fds)
  OBVIOUS
<1>1. st \in Sweeps(pid, at_end, P)
  <2>1. st \in States /\ st.fds \in Seq(Abstract!LiveFd)
    BY DEF Swept, States
  <2>2. Behind(st, pid)
    BY DEF Behind
  <2> QED BY <2>1, <2>2 DEF Sweeps
<1>2. N \in Nat /\ Left(st) = N
  BY <1>1, SweepsMeaning DEF Left
<1>3. /\ now = f[N] /\ f[0] = st
      /\ \A n \in 1 .. N : f[n] = SweepRound(pid, at_end, f[n - 1])
  BY <1>1, SweepLoopMeaning
<1> HIDE DEF f, N, now
<1>4. Done(0)
  BY <1>1, <1>2, <1>3 DEF N
<1>5. ASSUME NEW n \in 1 .. N, Done(n - 1) PROVE Done(n)
  <2> DEFINE was == f[n - 1]
             is == f[n]
  <2>1. is = SweepRound(pid, at_end, was)
    BY <1>3
  <2>2. /\ was \in Sweeps(pid, at_end, P) /\ (Over(was) \/ Left(was) <= N - (n - 1))
        /\ at_end => was.fds = st.fds \/ Len(was.fds) < N
    BY <1>5
  <2> HIDE DEF was, is
  <2>3. /\ is \in Sweeps(pid, at_end, P)
        /\ Over(was) => is = was
        /\ ~Over(was) => Left(is) = Left(was) - 1
        /\ at_end => is.fds = was.fds \/ Len(is.fds) < Len(was.fds)
    BY <2>1, <2>2, SweepRoundMeaning
  <2>4. Left(was) \in Int /\ Len(was.fds) \in Nat /\ Len(is.fds) \in Nat
    BY <2>2, <2>3, SweepsMeaning
  <2>5. Over(is) \/ Left(is) <= N - n
    BY <1>2, <2>2, <2>3, <2>4
  <2>6. at_end => is.fds = st.fds \/ Len(is.fds) < N
    BY <1>2, <2>2, <2>3, <2>4 DEF N
  <2>7. /\ is \in Sweeps(pid, at_end, P) /\ (Over(is) \/ Left(is) <= N - n)
        /\ at_end => is.fds = st.fds \/ Len(is.fds) < N
    BY <2>3, <2>5, <2>6
  <2> QED BY <2>7 DEF is
<1>6. \A n \in 0 .. N : Done(n)
  <2> HIDE DEF Done
  <2> DEFINE Bad == {n \in 0 .. N : ~Done(n)}
  <2>1. SUFFICES ASSUME Bad # {} PROVE FALSE
    OBVIOUS
  <2>2. Bad \subseteq Nat
    OBVIOUS
  <2>3. PICK n \in Bad : \A m \in Bad : n <= m
    <3> HIDE DEF Bad
    <3> QED BY <2>1, <2>2, LeastExists
  <2>4. n # 0 /\ n \in 1 .. N /\ n - 1 \in 0 .. N /\ n - 1 \notin Bad
    BY <1>2, <1>4, <2>3
  <2> QED BY <1>5, <2>3, <2>4
<1>7. Done(N)
  BY <1>2, <1>6
<1>8. /\ now \in Sweeps(pid, at_end, P) /\ (Over(now) \/ Left(now) <= 0)
      /\ at_end => now.fds = st.fds \/ Len(now.fds) < N
  BY <1>2, <1>3, <1>7
<1> HIDE DEF Done
<1>9. /\ now \in States /\ Swept(now, at_end, P) /\ Behind(now, pid)
      /\ now.fds \in Seq(Abstract!LiveFd) /\ Len(now.fds) \in Nat
      /\ now.index \in Nat \ {0} /\ now.err \in BOOLEAN
  BY <1>8, SweepsMeaning
<1>10. ASSUME ~now.err, NEW x \in Range(now.fds) PROVE ~(x.pid = pid /\ x.exec_pending)
  <2>1. PICK j \in 1 .. Len(now.fds) : now.fds[j] = x
    BY <1>9, <1>10, RangeMeaning
  <2>2. now.index > Len(now.fds)
    BY <1>8, <1>9, <1>10 DEF Over, Left
  <2>3. j < now.index
    BY <1>9, <2>1, <2>2
  <2> QED BY <1>9, <2>1, <2>3 DEF Behind
<1> QED BY <1>8, <1>9, <1>10 DEF N

\* The sweep before a record does what Replay says, or fails as it says.
LEMMA SettleMeaning ==
    ASSUME Table(fds, Len(resources)), Len(resources) \in Nat, closed_fds \in Seq(Pid \X Fd),
           NEW ev, ev.pid \in Pid, NEW granted \in Nat
    PROVE  LET now == Settle(ev, granted)
           IN  /\ now \in States /\ Table(now.fds, Len(resources))
               /\ ~now.err => /\ Range(now.fds) = Abstract!SettledFds(ev)
                              /\ Range(now.closed) = Abstract!SettledClosed(ev)
               /\ now.err => \E swept \in SUBSET Abstract!Settling(ev) : \E e \in swept :
                               /\ e.exec_cloexec
                               /\ Range(now.fds) = Abstract!SweptFds(swept)
                               /\ Range(now.closed) = Abstract!SweptClosed(swept \ {e})
<1> DEFINE start == Sweeping(granted)
           now == Settle(ev, granted)
           P == Abstract!Settling(ev)
<1>1. Range(fds) \subseteq Abstract!LiveFd /\ fds \in Seq(Abstract!LiveFd)
  BY TableOnce, RangeMeaning
<1>2. start \in States /\ start.index = 1 /\ ~start.err
      /\ start.fds = fds /\ start.closed = closed_fds
  BY <1>1 DEF Sweeping, States
<1>3. Abstract!SweptFds({}) = Range(fds) /\ Abstract!SweptClosed({}) = Range(closed_fds)
  BY DEF Abstract!SweptFds, Abstract!SweptClosed
<1> HIDE DEF start
<1>4. ASSUME NEW no \in BOOLEAN, ~no, NEW S PROVE Swept(start, no, S)
  <2>1. Handled(start, no, {})
    BY <1>2, <1>3, <1>4 DEF Handled
  <2> QED BY <1>2, <2>1 DEF Swept
<1>5. ASSUME NEW no \in BOOLEAN, no = FALSE
      PROVE  /\ Swept(now, no, P) /\ Open(P)
             /\ ~now.err => \A x \in Range(now.fds) : x \notin P
  <2>1. CASE ev.kind \in {"EXEC", "EXEC_FAIL"}
    <3>1. now = start /\ P = {}
      BY <2>1 DEF Settle, start, Abstract!Settling
    <3> HIDE DEF now, P
    <3> QED BY <1>4, <1>5, <3>1 DEF Open
  <2>2. CASE ~(ev.kind \in {"EXEC", "EXEC_FAIL"})
    <3>1. now = Sweep(ev.pid, FALSE, start) /\ P = Abstract!Pending(ev.pid)
      BY <2>2 DEF Settle, start, Abstract!Settling
    <3>2. Open(P) /\ (\A x \in Range(fds) : x.pid = ev.pid /\ x.exec_pending => x \in P)
          /\ (\A x \in P : x.pid = ev.pid /\ x.exec_pending)
      BY <3>1 DEF Open, Abstract!Pending
    <3> HIDE DEF now, P
    <3>3. Swept(start, no, P) /\ now = Sweep(ev.pid, no, start)
      BY <1>4, <1>5, <3>1
    <3>4. /\ Swept(now, no, P)
          /\ ~now.err => \A x \in Range(now.fds) : ~(x.pid = ev.pid /\ x.exec_pending)
      BY <1>1, <1>2, <3>2, <3>3, SweepMeaning
    <3> QED BY <3>2, <3>3, <3>4
  <2> QED BY <2>1, <2>2
<1> HIDE DEF now, P
<1> SUFFICES ASSUME NEW no \in BOOLEAN, no = FALSE
             PROVE  /\ now \in States /\ Table(now.fds, Len(resources))
                    /\ ~now.err => /\ Range(now.fds) = Abstract!SettledFds(ev)
                                   /\ Range(now.closed) = Abstract!SettledClosed(ev)
                    /\ now.err => \E swept \in SUBSET P : \E e \in swept :
                                    /\ e.exec_cloexec
                                    /\ Range(now.fds) = Abstract!SweptFds(swept)
                                    /\ Range(now.closed) = Abstract!SweptClosed(swept \ {e})
  BY DEF now, P
<1>6. PICK W \in SUBSET P : Handled(now, no, W)
  BY <1>5 DEF Swept
<1>7. Range(now.fds) = Abstract!SweptFds(W)
  BY <1>6 DEF Handled
<1>8. now \in States /\ Table(now.fds, Len(resources))
  BY <1>5 DEF Swept
<1>9. ASSUME ~now.err
      PROVE  /\ Range(now.fds) = Abstract!SettledFds(ev)
             /\ Range(now.closed) = Abstract!SettledClosed(ev)
  <2>1. Range(now.closed) = Abstract!SweptClosed(W)
    BY <1>6, <1>9 DEF Handled
  <2>2. W = P
    BY <1>5, <1>7, <1>9 DEF Open, Abstract!SweptFds
  <2> QED BY <1>7, <2>1, <2>2 DEF P, Abstract!SettledFds, Abstract!SettledClosed
<1>10. ASSUME now.err
       PROVE  \E swept \in SUBSET P : \E e \in swept :
                /\ e.exec_cloexec
                /\ Range(now.fds) = Abstract!SweptFds(swept)
                /\ Range(now.closed) = Abstract!SweptClosed(swept \ {e})
  BY <1>6, <1>7, <1>10 DEF Handled
<1> QED BY <1>8, <1>9, <1>10

-----------------------------------------------------------------------------
(* The sweep at the end of the stream.                                     *)

PendingEntries == {e \in Range(fds) : e.exec_pending}

\* Where that sweep can be.
Endings == {st \in States : Swept(st, TRUE, PendingEntries)}

\* It has nothing left to do.
Quiet(st) == st.err \/ \A x \in Range(st.fds) : ~x.exec_pending

LEMMA EndingsMeaning ==
    ASSUME NEW st
    PROVE  /\ st \in Endings => /\ st \in States /\ st.fds \in Seq(Abstract!LiveFd)
                                /\ Len(st.fds) \in Nat /\ st.err \in BOOLEAN
           /\ \A yes \in BOOLEAN : yes = TRUE =>
                (st \in Endings <=> Swept(st, yes, PendingEntries))
<1>1. st \in Endings => /\ st \in States /\ st.fds \in Seq(Abstract!LiveFd)
                        /\ Len(st.fds) \in Nat /\ st.err \in BOOLEAN
  BY DEF Endings, States
<1>2. ASSUME NEW yes \in BOOLEAN, yes = TRUE
      PROVE  st \in Endings <=> Swept(st, yes, PendingEntries)
  <2>1. Swept(st, yes, PendingEntries) => st \in States
    BY DEF Swept
  <2>2. st \in Endings <=> st \in States /\ Swept(st, TRUE, PendingEntries)
    BY DEF Endings
  <2>3. Swept(st, yes, PendingEntries) <=> Swept(st, TRUE, PendingEntries)
    BY ONLY <1>2
  <2> QED BY <2>1, <2>2, <2>3
<1> QED BY <1>1, <1>2

\* The search for an entry whose attempt is open.
LEMMA PendingIndex ==
    ASSUME NEW table \in Seq(Abstract!LiveFd)
    PROVE  LET at == SelectInSeq(table, LAMBDA e : e.exec_pending)
           IN  /\ at \in 0 .. Len(table)
               /\ at = 0 <=> \A x \in Range(table) : ~x.exec_pending
               /\ at # 0 => table[at] \in Range(table) /\ table[at].exec_pending
<1> DEFINE S == {i \in 1 .. Len(table) : table[i].exec_pending}
           at == SelectInSeq(table, LAMBDA e : e.exec_pending)
<1>1. at = IF S # {} THEN Min(S) ELSE 0
  BY DEF SelectInSeq
<1>2. S # {} => Min(S) \in S
  <2>1. ASSUME S # {} PROVE \E i \in S : \A j \in S : i <= j
    <3>1. S \subseteq Nat
      OBVIOUS
    <3> HIDE DEF S
    <3> QED BY <2>1, <3>1, LeastExists
  <2> QED BY <2>1 DEF Min
<1>3. S = {} <=> \A x \in Range(table) : ~x.exec_pending
  BY RangeMeaning
<1>4. \A i \in S : i \in 1 .. Len(table) /\ table[i] \in Range(table) /\ table[i].exec_pending
  BY RangeMeaning
<1>5. Len(table) \in Nat /\ \A i \in 1 .. Len(table) : i \in 0 .. Len(table) /\ i # 0
  BY RangeMeaning
<1> HIDE DEF S, at
<1>6. /\ at \in 0 .. Len(table)
      /\ at = 0 <=> \A x \in Range(table) : ~x.exec_pending
      /\ at # 0 => table[at] \in Range(table) /\ table[at].exec_pending
  BY <1>1, <1>2, <1>3, <1>4, <1>5
<1> QED BY <1>6 DEF at

LEMMA EndRoundMeaning ==
    ASSUME Range(fds) \subseteq Abstract!LiveFd, Len(resources) \in Nat, NEW st \in Endings
    PROVE  /\ EndRound(st) \in Endings
           /\ Quiet(st) => EndRound(st) = st
           /\ ~Quiet(st) => Quiet(EndRound(st)) \/ Len(EndRound(st).fds) < Len(st.fds)
<1> DEFINE at == SelectInSeq(st.fds, LAMBDA e : e.exec_pending)
           next == EndRound(st)
           from == [st EXCEPT !.index = 1]
<1>1. st \in States /\ st.fds \in Seq(Abstract!LiveFd) /\ Len(st.fds) \in Nat /\ st.err \in BOOLEAN
  BY EndingsMeaning
<1>2. /\ at \in 0 .. Len(st.fds)
      /\ at = 0 <=> \A x \in Range(st.fds) : ~x.exec_pending
      /\ at # 0 => st.fds[at] \in Range(st.fds) /\ st.fds[at].exec_pending
  BY <1>1, PendingIndex
<1>3. next = IF st.err \/ at = 0 THEN st ELSE Sweep(st.fds[at].pid, TRUE, from)
  BY DEF EndRound
<1> HIDE DEF at, next
<1>4. CASE st.err \/ at = 0
  <2>1. Quiet(st) /\ next = st
    BY <1>2, <1>3, <1>4 DEF Quiet
  <2> QED BY <2>1 DEF next
<1>5. CASE ~(st.err \/ at = 0)
  <2> SUFFICES ASSUME NEW yes \in BOOLEAN, yes = TRUE
               PROVE  /\ next \in Endings /\ ~Quiet(st)
                      /\ Quiet(next) \/ Len(next.fds) < Len(st.fds)
    BY DEF next
  <2> DEFINE pid == st.fds[at].pid
             e == st.fds[at]
  <2>1. e \in Range(st.fds) /\ e.exec_pending /\ pid = e.pid /\ pid \in Pid
    <3>1. e \in Abstract!LiveFd
      BY <1>1, <1>2, <1>5, RangeMeaning
    <3> QED BY <1>2, <1>5, <3>1 DEF Abstract!LiveFd
  <2>2. next = Sweep(pid, yes, from)
    BY <1>3, <1>5
  <2>3. from \in States /\ from.index = 1 /\ from.fds = st.fds /\ from.err = st.err
        /\ from.closed = st.closed
    BY <1>1 DEF States
  <2> HIDE DEF e, pid, from
  <2>4. Swept(from, yes, PendingEntries)
    <3>1. Swept(st, yes, PendingEntries)
      BY EndingsMeaning
    <3>2. \A W : Handled(st, yes, W) => Handled(from, yes, W)
      BY <2>3 DEF Handled
    <3>3. PICK W \in SUBSET PendingEntries : Handled(st, yes, W)
      BY <3>1 DEF Swept
    <3>4. Table(from.fds, Len(resources))
      BY <2>3, <3>1 DEF Swept
    <3>5. Handled(from, yes, W)
      BY <3>2, <3>3
    <3>6. from.index # 0 /\ from \in States
      BY <2>3
    <3>7. \E V \in SUBSET PendingEntries : Handled(from, yes, V)
      BY <3>5
    <3> QED BY ONLY <3>4, <3>6, <3>7 DEF Swept
  <2>5. Open(PendingEntries) /\ \A x \in Range(fds) : x.pid = pid /\ x.exec_pending => x \in PendingEntries
    BY DEF Open, PendingEntries
  <2>6. /\ Swept(next, yes, PendingEntries)
        /\ ~next.err => \A x \in Range(next.fds) : ~(x.pid = pid /\ x.exec_pending)
        /\ next.fds = from.fds \/ Len(next.fds) < Len(from.fds)
    BY <2>1, <2>2, <2>3, <2>4, <2>5, SweepMeaning
  <2>7. next \in Endings
    BY <2>6, EndingsMeaning
  <2>8. ~Quiet(st)
    BY <1>5, <2>1 DEF Quiet
  <2>9. Quiet(next) \/ Len(next.fds) < Len(st.fds)
    BY <2>1, <2>3, <2>6 DEF Quiet
  <2> QED BY <2>7, <2>8, <2>9
<1> QED BY <1>4, <1>5

\* The rounds that SweepAll goes through.
EndLoop(granted) ==
    CHOOSE f : f = [n \in 0 .. Len(fds) |->
                      IF n = 0 THEN Sweeping(granted) ELSE EndRound(f[n - 1])]

LEMMA EndLoopMeaning ==
    ASSUME Range(fds) \subseteq Abstract!LiveFd, Len(resources) \in Nat, Len(fds) \in Nat,
           NEW granted, Sweeping(granted) \in Endings
    PROVE  /\ SweepAll(granted) = EndLoop(granted)[Len(fds)]
           /\ EndLoop(granted)[0] = Sweeping(granted)
           /\ \A n \in 1 .. Len(fds) : EndLoop(granted)[n] = EndRound(EndLoop(granted)[n - 1])
<1> DEFINE N == Len(fds)
           st == Sweeping(granted)
           step == [x \in (1 .. N) \X Endings |-> EndRound(x[2])]
           goal(f) == [n \in 0 .. N |-> IF n = 0 THEN st ELSE EndRound(f[n - 1])]
           loop == EndLoop(granted)
<1>1. N \in Nat /\ st \in Endings
  OBVIOUS
<1>2. \A x \in Endings : EndRound(x) \in Endings
  BY EndRoundMeaning
<1> HIDE DEF N, st
<1>3. step \in [(1 .. N) \X Endings -> Endings]
  BY <1>2
<1>4. \A i \in 1 .. N, x \in Endings : step[<<i, x>>] = EndRound(x)
  OBVIOUS
<1> HIDE DEF step
<1>5. PICK h : h \in Rounds(Endings, st, step, N)
  BY <1>1, <1>3, RoundsExist
<1>6. h = goal(h)
  <2>1. h \in [0 .. N -> Endings] /\ h[0] = st /\ \A i \in 1 .. N : h[i] = step[<<i, h[i - 1]>>]
    BY <1>5 DEF Rounds
  <2>2. \A i \in 1 .. N : i - 1 \in 0 .. N
    BY <1>1
  <2>3. \A i \in 1 .. N : h[i] = EndRound(h[i - 1])
    BY <1>4, <2>1, <2>2
  <2>4. \A i \in 0 .. N : h[i] = IF i = 0 THEN st ELSE EndRound(h[i - 1])
    BY <1>1, <2>1, <2>3
  <2> QED BY <2>1, <2>4
<1>7. loop = goal(loop)
  <2>1. loop = CHOOSE f : f = goal(f)
    BY DEF EndLoop, N, st
  <2> HIDE DEF loop, goal
  <2> QED BY <1>6, <2>1
<1>8. SweepAll(granted) = loop[N]
  BY DEF SweepAll, EndLoop, N
<1> HIDE DEF loop
<1>9. loop[0] = st /\ \A n \in 1 .. N : loop[n] = EndRound(loop[n - 1])
  <2>1. 0 \in 0 .. N /\ \A n \in 1 .. N : n \in 0 .. N /\ n # 0
    BY <1>1
  <2>2. \A n \in 0 .. N : loop[n] = IF n = 0 THEN st ELSE EndRound(loop[n - 1])
    BY <1>7
  <2> QED BY <2>1, <2>2
<1> QED BY <1>8, <1>9 DEF loop, N, st

LEMMA SweepAllMeaning ==
    ASSUME Table(fds, Len(resources)), Len(resources) \in Nat, closed_fds \in Seq(Pid \X Fd),
           NEW granted \in Nat
    PROVE  LET now == SweepAll(granted)
           IN  /\ now \in States /\ Table(now.fds, Len(resources))
               /\ ~now.err => /\ Range(now.fds) = Range(fds) \ PendingEntries
                              /\ Range(now.closed) = Abstract!SweptClosed(PendingEntries)
               /\ now.err => \E swept \in SUBSET PendingEntries : \E e \in swept :
                               /\ e.exec_cloexec
                               /\ Range(now.fds) = Range(fds) \ swept
                               /\ Range(now.closed) = Abstract!SweptClosed(swept \ {e})
<1> DEFINE N == Len(fds)
           start == Sweeping(granted)
           f == EndLoop(granted)
           now == SweepAll(granted)
           Done(n) == f[n] \in Endings /\ (Quiet(f[n]) \/ Len(f[n].fds) <= N - n)
<1>1. Range(fds) \subseteq Abstract!LiveFd /\ fds \in Seq(Abstract!LiveFd) /\ N \in Nat
  BY TableOnce, RangeMeaning
<1>2. start \in States /\ start.index = 1 /\ ~start.err
      /\ start.fds = fds /\ start.closed = closed_fds
  BY <1>1 DEF Sweeping, States
<1> HIDE DEF start
<1>3. start \in Endings
  <2>1. Abstract!SweptClosed({}) = Range(closed_fds)
    BY DEF Abstract!SweptClosed
  <2>2. ASSUME NEW yes \in BOOLEAN, yes = TRUE PROVE Swept(start, yes, PendingEntries)
    <3>1. Handled(start, yes, {})
      BY <1>2, <2>1, <2>2 DEF Handled
    <3> QED BY <1>2, <3>1 DEF Swept
  <2> QED BY <2>2, EndingsMeaning
<1>4. now = f[N] /\ f[0] = start /\ \A n \in 1 .. N : f[n] = EndRound(f[n - 1])
  BY <1>1, <1>3, EndLoopMeaning DEF start
<1> HIDE DEF f, N, now
<1>5. Done(0)
  BY <1>1, <1>2, <1>3, <1>4 DEF N
<1>6. ASSUME NEW n \in 1 .. N, Done(n - 1) PROVE Done(n)
  <2> DEFINE was == f[n - 1]
             is == f[n]
  <2>1. is = EndRound(was) /\ was \in Endings /\ (Quiet(was) \/ Len(was.fds) <= N - (n - 1))
    BY <1>4, <1>6
  <2> HIDE DEF was, is
  <2>2. /\ is \in Endings /\ (Quiet(was) => is = was)
        /\ (~Quiet(was) => Quiet(is) \/ Len(is.fds) < Len(was.fds))
    BY <1>1, <2>1, EndRoundMeaning
  <2>3. Len(was.fds) \in Nat /\ Len(is.fds) \in Nat
    BY <2>1, <2>2, EndingsMeaning
  <2>4. is \in Endings /\ (Quiet(is) \/ Len(is.fds) <= N - n)
    BY <1>1, <2>1, <2>2, <2>3
  <2> QED BY <2>4 DEF is
<1>7. \A n \in 0 .. N : Done(n)
  <2> HIDE DEF Done
  <2> DEFINE Bad == {n \in 0 .. N : ~Done(n)}
  <2>1. SUFFICES ASSUME Bad # {} PROVE FALSE
    OBVIOUS
  <2>2. Bad \subseteq Nat
    OBVIOUS
  <2>3. PICK n \in Bad : \A m \in Bad : n <= m
    <3> HIDE DEF Bad
    <3> QED BY <2>1, <2>2, LeastExists
  <2>4. n # 0 /\ n \in 1 .. N /\ n - 1 \in 0 .. N /\ n - 1 \notin Bad
    BY <1>1, <1>5, <2>3
  <2> QED BY <1>6, <2>3, <2>4
<1>8. Done(N)
  BY <1>1, <1>7
<1>9. now \in Endings /\ (Quiet(now) \/ Len(now.fds) <= 0)
  BY <1>1, <1>4, <1>8
<1> HIDE DEF Done
<1>10. now \in States /\ now.fds \in Seq(Abstract!LiveFd) /\ Len(now.fds) \in Nat
       /\ now.err \in BOOLEAN
  BY <1>9, EndingsMeaning
<1>11. Quiet(now)
  <2>1. CASE Len(now.fds) <= 0
    <3>1. 1 .. Len(now.fds) = {}
      BY <1>10, <2>1
    <3>2. Range(now.fds) = {}
      BY <1>10, <3>1, RangeMeaning
    <3> QED BY <3>2 DEF Quiet
  <2> QED BY <1>9, <2>1
<1> SUFFICES ASSUME NEW yes \in BOOLEAN, yes = TRUE
             PROVE  /\ now \in States /\ Table(now.fds, Len(resources))
                    /\ ~now.err => /\ Range(now.fds) = Range(fds) \ PendingEntries
                                   /\ Range(now.closed) = Abstract!SweptClosed(PendingEntries)
                    /\ now.err => \E swept \in SUBSET PendingEntries : \E e \in swept :
                                    /\ e.exec_cloexec
                                    /\ Range(now.fds) = Range(fds) \ swept
                                    /\ Range(now.closed) = Abstract!SweptClosed(swept \ {e})
  BY DEF now
<1>12. Swept(now, yes, PendingEntries)
  BY <1>9, EndingsMeaning
<1>13. PICK W \in SUBSET PendingEntries : Handled(now, yes, W)
  BY <1>12 DEF Swept
<1>14. Range(now.fds) = Range(fds) \ W /\ Table(now.fds, Len(resources))
  BY <1>12, <1>13 DEF Handled, Swept
<1>15. ASSUME ~now.err
       PROVE  /\ Range(now.fds) = Range(fds) \ PendingEntries
              /\ Range(now.closed) = Abstract!SweptClosed(PendingEntries)
  <2>1. Range(now.closed) = Abstract!SweptClosed(W)
    BY <1>13, <1>15 DEF Handled
  <2>2. W = PendingEntries
    BY <1>11, <1>14, <1>15 DEF Quiet, PendingEntries
  <2> QED BY <1>14, <2>1, <2>2
<1>16. ASSUME now.err
       PROVE  \E swept \in SUBSET PendingEntries : \E e \in swept :
                /\ e.exec_cloexec
                /\ Range(now.fds) = Range(fds) \ swept
                /\ Range(now.closed) = Abstract!SweptClosed(swept \ {e})
  BY <1>13, <1>14, <1>16 DEF Handled
<1> QED BY <1>10, <1>14, <1>15, <1>16

-----------------------------------------------------------------------------
(* The loop of FORK.                                                       *)

\* What the loop has to give, from the tables it starts with.
ToGive(ev, start) ==
    {d \in Fd : /\ Abstract!Entries(Range(start.fds), ev.pid, d) # {}
                /\ Abstract!Entries(Range(start.fds), ev.child_pid, d) = {}
                /\ <<ev.child_pid, d>> \notin Range(start.closed)}

\* The entries of `given`, each from an entry of the parent's.
Gifts(ev, given, source) ==
    {Abstract!NewFd(ev.child_pid, d, source[d].site) : d \in given}

\* `given` has been given so far, out of the first n entries.
Gave(st, ev, start, n, given, source) ==
    /\ \A d \in given : source[d] \in Abstract!Entries(Range(start.fds), ev.pid, d)
    /\ Range(st.fds) = Range(start.fds) \cup Gifts(ev, given, source)
    /\ start.err => given = {} /\ st.err
    /\ st.err /\ ~start.err => given # ToGive(ev, start)
    /\ ~st.err => \A i \in 1 .. n :
         /\ start.fds[i].pid = ev.pid
         /\ start.fds[i].fd \in ToGive(ev, start)
         => start.fds[i].fd \in given

Giving(st, ev, start, n) ==
    /\ st \in States /\ Table(st.fds, Len(resources) + 1)
    /\ Len(start.fds) <= Len(st.fds)
    /\ \A i \in 1 .. Len(start.fds) : st.fds[i] = start.fds[i]
    /\ st.closed = start.closed
    /\ \E given \in SUBSET ToGive(ev, start) : \E source \in [given -> Range(start.fds)] :
         Gave(st, ev, start, n, given, source)

LEMMA StatesMeaning ==
    ASSUME NEW st \in States
    PROVE  /\ st.fds \in Seq(Abstract!LiveFd) /\ Len(st.fds) \in Nat
           /\ st.closed \in Seq(Pid \X Fd)
           /\ st.err \in BOOLEAN /\ st.granted \in Nat /\ st.index \in Nat
<1>1. st.fds \in Seq(Abstract!LiveFd) /\ st.closed \in Seq(Pid \X Fd)
      /\ st.err \in BOOLEAN /\ st.granted \in Nat /\ st.index \in Nat
  BY DEF States
<1>2. Len(st.fds) \in Nat
  BY <1>1
<1> QED BY <1>1, <1>2

LEMMA NewFdMeaning ==
    ASSUME NEW pid \in Pid, NEW fd \in Fd, NEW site \in Site, Len(resources) \in Nat
    PROVE  LET e == Abstract!NewFd(pid, fd, site)
           IN  /\ e \in Abstract!LiveFd /\ ~e.exec_pending
               /\ e.pid = pid /\ e.fd = fd /\ e.site = site
               /\ e.sequence = Len(resources) + 1
BY DEF Abstract!NewFd, Abstract!LiveFd, Abstract!Sequence

\* What a round of the loop may do.
LEMMA GiveCases ==
    ASSUME NEW ev, ev.pid \in Pid, ev.child_pid \in Pid, Len(resources) \in Nat,
           NEW st \in States, NEW e \in Abstract!LiveFd
    PROVE  LET next == Give(ev, e, st)
               takes == /\ ~st.err /\ e.pid = ev.pid
                        /\ Abstract!Entries(Range(st.fds), ev.child_pid, e.fd) = {}
                        /\ <<ev.child_pid, e.fd>> \notin Range(st.closed)
               new == Abstract!NewFd(ev.child_pid, e.fd, e.site)
           IN  /\ next \in States /\ next.closed = st.closed
               /\ ~takes => next = st
               /\ takes /\ st.granted = 0 => next.err /\ next.fds = st.fds
               /\ takes /\ st.granted # 0 => ~next.err /\ next.fds = Append(st.fds, new)
<1> DEFINE next == Give(ev, e, st)
           takes == /\ ~st.err /\ e.pid = ev.pid
                    /\ Abstract!Entries(Range(st.fds), ev.child_pid, e.fd) = {}
                    /\ <<ev.child_pid, e.fd>> \notin Range(st.closed)
           new == Abstract!NewFd(ev.child_pid, e.fd, e.site)
<1>1. /\ st.fds \in Seq(Abstract!LiveFd) /\ st.closed \in Seq(Pid \X Fd)
      /\ st.err \in BOOLEAN /\ st.granted \in Nat
  BY StatesMeaning
<1>2. FdIndex(st.fds, ev.child_pid, e.fd) # 0
        <=> Abstract!Entries(Range(st.fds), ev.child_pid, e.fd) # {}
  BY <1>1, FdIndexMeaning
<1>3. Contains(st.closed, <<ev.child_pid, e.fd>>) <=> <<ev.child_pid, e.fd>> \in Range(st.closed)
  <2>1. \A x : Contains(st.closed, x) <=> \E i \in 1 .. Len(st.closed) : st.closed[i] = x
    BY <1>1 DEF Contains
  <2> QED BY <1>1, <2>1, RangeMeaning
<1>4. next = IF ~takes THEN st
             ELSE IF st.granted = 0 THEN [st EXCEPT !.err = TRUE]
             ELSE [st EXCEPT !.granted = st.granted - 1, !.fds = Append(st.fds, new)]
  BY <1>2, <1>3 DEF Give
<1>5. new \in Abstract!LiveFd
  <2>1. e.fd \in Fd /\ e.site \in Site
    BY DEF Abstract!LiveFd
  <2> QED BY <2>1, NewFdMeaning
<1>6. Append(st.fds, new) \in Seq(Abstract!LiveFd)
  BY <1>1, <1>5, RangeOfAppend
<1>7. takes => ~st.err
  OBVIOUS
<1> HIDE DEF next, takes, new
<1>8. CASE ~takes
  BY <1>4, <1>8 DEF next, takes, new
<1>9. CASE takes /\ st.granted = 0
  <2>1. next \in States /\ next.closed = st.closed /\ next.err /\ next.fds = st.fds
    BY <1>1, <1>4, <1>9 DEF States
  <2> QED BY <1>9, <2>1 DEF next, takes, new
<1>10. CASE takes /\ st.granted # 0
  <2>1. st.granted - 1 \in Nat
    BY <1>1, <1>10
  <2>2. next \in States /\ next.closed = st.closed /\ ~next.err
        /\ next.fds = Append(st.fds, new)
    BY <1>1, <1>4, <1>6, <1>7, <1>10, <2>1 DEF States
  <2> QED BY <1>10, <2>2 DEF next, takes, new
<1> QED BY <1>8, <1>9, <1>10

LEMMA GiveMeaning ==
    ASSUME NEW ev, ev.pid \in Pid, ev.child_pid \in Pid, Len(resources) \in Nat,
           NEW start \in States, NEW n \in 1 .. Len(start.fds),
           NEW st, Giving(st, ev, start, n - 1)
    PROVE  Giving(Give(ev, st.fds[n], st), ev, start, n)
<1> DEFINE e == start.fds[n]
           next == Give(ev, st.fds[n], st)
           all == ToGive(ev, start)
           new == Abstract!NewFd(ev.child_pid, e.fd, e.site)
           takes == /\ ~st.err /\ e.pid = ev.pid
                    /\ Abstract!Entries(Range(st.fds), ev.child_pid, e.fd) = {}
                    /\ <<ev.child_pid, e.fd>> \notin Range(st.closed)
<1>1. /\ start.fds \in Seq(Abstract!LiveFd) /\ Len(start.fds) \in Nat
      /\ start.closed \in Seq(Pid \X Fd) /\ start.err \in BOOLEAN
  BY StatesMeaning
<1>2. /\ st \in States /\ Table(st.fds, Len(resources) + 1)
      /\ Len(start.fds) <= Len(st.fds)
      /\ \A i \in 1 .. Len(start.fds) : st.fds[i] = start.fds[i]
      /\ st.closed = start.closed
  BY DEF Giving
<1>30. PICK given \in SUBSET all : \E source \in [given -> Range(start.fds)] :
         Gave(st, ev, start, n - 1, given, source)
  BY DEF Giving
<1>3. PICK source \in [given -> Range(start.fds)] : Gave(st, ev, start, n - 1, given, source)
  BY <1>30
<1>4. /\ st.fds \in Seq(Abstract!LiveFd) /\ Len(st.fds) \in Nat /\ st.granted \in Nat
      /\ st.err \in BOOLEAN
  BY <1>2, StatesMeaning
<1>5. /\ e \in Abstract!LiveFd /\ e \in Range(start.fds) /\ st.fds[n] = e
      /\ e.fd \in Fd /\ e.site \in Site
  <2>1. e \in Abstract!LiveFd /\ e \in Range(start.fds) /\ st.fds[n] = e
    BY <1>1, <1>2, RangeMeaning
  <2> QED BY <2>1 DEF Abstract!LiveFd
<1>6. /\ next \in States /\ next.closed = st.closed
      /\ ~takes => next = st
      /\ takes /\ st.granted = 0 => next.err /\ next.fds = st.fds
      /\ takes /\ st.granted # 0 => ~next.err /\ next.fds = Append(st.fds, new)
  <2>1. next = Give(ev, e, st) /\ st \in States /\ e \in Abstract!LiveFd
    BY <1>2, <1>5
  <2> HIDE DEF e, next
  <2>2. LET give == Give(ev, e, st)
            mine == /\ ~st.err /\ e.pid = ev.pid
                    /\ Abstract!Entries(Range(st.fds), ev.child_pid, e.fd) = {}
                    /\ <<ev.child_pid, e.fd>> \notin Range(st.closed)
        IN  /\ give \in States /\ give.closed = st.closed
            /\ ~mine => give = st
            /\ mine /\ st.granted = 0 => give.err /\ give.fds = st.fds
            /\ mine /\ st.granted # 0 => ~give.err /\ give.fds = Append(st.fds, new)
    BY <2>1, GiveCases
  <2> QED BY <2>1, <2>2
<1> HIDE DEF next
<1>7. takes => e.fd \in all /\ e.fd \notin given
  <2>1. SUFFICES ASSUME takes PROVE e.fd \in all /\ e.fd \notin given
    OBVIOUS
  <2>2. Range(st.fds) = Range(start.fds) \cup Gifts(ev, given, source)
    BY <1>3 DEF Gave
  <2>3. e.fd \notin given
    <3>1. SUFFICES ASSUME e.fd \in given PROVE FALSE
      OBVIOUS
    <3>2. source[e.fd] \in Abstract!LiveFd
      BY <1>1, <1>3, <3>1, RangeMeaning
    <3>3. source[e.fd].site \in Site
      BY <3>2 DEF Abstract!LiveFd
    <3>4. LET g == Abstract!NewFd(ev.child_pid, e.fd, source[e.fd].site)
          IN  g \in Range(st.fds) /\ g.pid = ev.child_pid /\ g.fd = e.fd
      BY <1>5, <2>2, <3>1, <3>3, NewFdMeaning DEF Gifts
    <3> QED BY <2>1, <3>4 DEF Abstract!Entries
  <2>4. /\ e \in Abstract!Entries(Range(start.fds), ev.pid, e.fd)
        /\ Abstract!Entries(Range(start.fds), ev.child_pid, e.fd) = {}
    BY <1>5, <2>1, <2>2 DEF Abstract!Entries
  <2>5. <<ev.child_pid, e.fd>> \notin Range(start.closed)
    BY <1>2, <2>1
  <2> QED BY <1>5, <2>3, <2>4, <2>5 DEF ToGive
<1>8. ASSUME ~takes, ~st.err, e.pid = ev.pid, e.fd \in all PROVE e.fd \in given
  <2>1. <<ev.child_pid, e.fd>> \notin Range(st.closed)
    BY <1>2, <1>8 DEF ToGive
  <2>2. PICK x \in Range(st.fds) : x.pid = ev.child_pid /\ x.fd = e.fd
    BY <1>8, <2>1 DEF Abstract!Entries
  <2>3. x \in Range(start.fds) \/ x \in Gifts(ev, given, source)
    BY <1>3, <2>2 DEF Gave
  <2>4. x \notin Range(start.fds)
    BY <1>8, <2>2 DEF ToGive, Abstract!Entries
  <2>5. PICK d \in given : x = Abstract!NewFd(ev.child_pid, d, source[d].site)
    BY <2>3, <2>4 DEF Gifts
  <2>6. x.fd = d
    BY <2>5 DEF Abstract!NewFd
  <2> QED BY <2>2, <2>5, <2>6
<1>9. \A i \in 1 .. n : i \in 1 .. n - 1 \/ i = n
  BY <1>1
<1> HIDE DEF e, takes, all, new
<1>10. CASE ~takes
  <2>1. next = st
    BY <1>6, <1>10
  <2>2. Gave(st, ev, start, n, given, source)
    <3>1. ~st.err => \A i \in 1 .. n :
            start.fds[i].pid = ev.pid /\ start.fds[i].fd \in all => start.fds[i].fd \in given
      <4>1. SUFFICES ASSUME ~st.err, NEW i \in 1 .. n,
                            start.fds[i].pid = ev.pid, start.fds[i].fd \in all
            PROVE  start.fds[i].fd \in given
        OBVIOUS
      <4>2. CASE i \in 1 .. n - 1
        BY <1>3, <4>1, <4>2 DEF Gave, all
      <4>3. CASE i = n
        BY <1>8, <1>10, <4>1, <4>3 DEF e
      <4> QED BY <1>9, <4>2, <4>3
    <3> QED BY <1>3, <3>1 DEF Gave, all
  <2>3. Giving(st, ev, start, n)
    BY <1>2, <2>2 DEF Giving, all
  <2> QED BY <2>1, <2>3 DEF next
<1>11. CASE takes /\ st.granted = 0
  <2>1. next \in States /\ next.closed = st.closed /\ next.err /\ next.fds = st.fds
    BY <1>6, <1>11
  <2>2. given # all /\ ~st.err
    BY <1>7, <1>11 DEF takes
  <2>3. Gave(next, ev, start, n, given, source)
    BY <1>3, <2>1, <2>2 DEF Gave, all
  <2>4. Giving(next, ev, start, n)
    BY <1>2, <2>1, <2>3 DEF Giving, all
  <2> QED BY <2>4 DEF next
<1>12. CASE takes /\ st.granted # 0
  <2> DEFINE more == given \cup {e.fd}
             sources == [d \in more |-> IF d = e.fd THEN e ELSE source[d]]
  <2>1. next \in States /\ next.closed = st.closed /\ ~next.err /\ next.fds = Append(st.fds, new)
    BY <1>6, <1>12
  <2>2. /\ new \in Abstract!LiveFd /\ new.pid = ev.child_pid /\ new.fd = e.fd
        /\ new.sequence = Len(resources) + 1
    BY <1>5, NewFdMeaning DEF new
  <2>3. /\ next.fds \in Seq(Abstract!LiveFd) /\ Len(next.fds) = Len(st.fds) + 1
        /\ \A i \in 1 .. Len(st.fds) : next.fds[i] = st.fds[i]
        /\ Range(next.fds) = Range(st.fds) \cup {new}
    BY <1>4, <2>1, <2>2, RangeOfAppend
  <2>4. Table(next.fds, Len(resources) + 1)
    <3>1. \A x \in Range(st.fds) : ~(x.pid = new.pid /\ x.fd = new.fd /\ x.sequence = new.sequence)
      BY <1>12, <2>2 DEF takes, Abstract!Entries
    <3>2. Len(resources) + 1 \in Nat /\ Len(resources) + 1 <= Len(resources) + 1
          /\ new.sequence <= Len(resources) + 1
      BY <2>2
    <3> QED BY <1>2, <2>1, <2>2, <3>1, <3>2, TableAppend
  <2>5. more \in SUBSET all /\ sources \in [more -> Range(start.fds)]
    BY <1>3, <1>5, <1>7, <1>12
  <2>6. /\ \A d \in given : sources[d] = source[d]
        /\ sources[e.fd] = e
    BY <1>7, <1>12
  <2> HIDE DEF sources
  <2>7. Gifts(ev, more, sources) = Gifts(ev, given, source) \cup {new}
    BY <2>6 DEF Gifts, new
  <2>8. \A d \in more : sources[d] \in Abstract!Entries(Range(start.fds), ev.pid, d)
    <3>1. e \in Abstract!Entries(Range(start.fds), ev.pid, e.fd)
      BY <1>5, <1>12 DEF Abstract!Entries, takes
    <3> QED BY <1>3, <2>6, <3>1 DEF Gave
  <2>9. Range(next.fds) = Range(start.fds) \cup Gifts(ev, more, sources)
    BY <1>3, <2>3, <2>7 DEF Gave
  <2>10. ~start.err
    BY <1>3, <1>12 DEF Gave, takes
  <2>11. \A i \in 1 .. n :
           start.fds[i].pid = ev.pid /\ start.fds[i].fd \in all => start.fds[i].fd \in more
    <3>1. ASSUME NEW i \in 1 .. n, start.fds[i].pid = ev.pid, start.fds[i].fd \in all
          PROVE  start.fds[i].fd \in more
      <4>1. CASE i \in 1 .. n - 1
        BY <1>3, <1>12, <3>1, <4>1 DEF Gave, all, takes
      <4>2. CASE i = n
        BY <4>2 DEF e
      <4> QED BY <1>9, <4>1, <4>2
    <3> QED BY <3>1
  <2> HIDE DEF more
  <2>12. Gave(next, ev, start, n, more, sources)
    BY <2>1, <2>8, <2>9, <2>10, <2>11 DEF Gave, all
  <2>13. /\ Len(start.fds) <= Len(next.fds)
         /\ \A i \in 1 .. Len(start.fds) : next.fds[i] = start.fds[i]
    BY <1>1, <1>2, <1>4, <2>3
  <2>14. next.closed = start.closed
    BY <1>2, <2>1
  <2>15. \E g \in SUBSET ToGive(ev, start) : \E s \in [g -> Range(start.fds)] :
           Gave(next, ev, start, n, g, s)
    BY <2>5, <2>12 DEF all
  <2>16. Giving(next, ev, start, n)
    BY <2>1, <2>4, <2>13, <2>14, <2>15 DEF Giving
  <2> QED BY <2>16 DEF next
<1> QED BY <1>4, <1>10, <1>11, <1>12

\* The rounds that Inherit goes through.
GiveLoop(ev, start) ==
    CHOOSE f : f = [n \in 0 .. Len(start.fds) |->
                      IF n = 0 THEN start ELSE Give(ev, f[n - 1].fds[n], f[n - 1])]

LEMMA GiveLoopMeaning ==
    ASSUME NEW ev, ev.pid \in Pid, ev.child_pid \in Pid, Len(resources) \in Nat,
           NEW start \in States
    PROVE  LET f == GiveLoop(ev, start)
           IN  /\ Inherit(ev, start) = f[Len(start.fds)]
               /\ f[0] = start
               /\ \A n \in 1 .. Len(start.fds) : f[n] = Give(ev, f[n - 1].fds[n], f[n - 1])
<1> DEFINE N == Len(start.fds)
           T == {st \in States : N <= Len(st.fds)}
           step == [x \in (1 .. N) \X T |-> Give(ev, x[2].fds[x[1]], x[2])]
           goal(f) == [n \in 0 .. N |-> IF n = 0 THEN start ELSE Give(ev, f[n - 1].fds[n], f[n - 1])]
           loop == GiveLoop(ev, start)
<1>1. N \in Nat /\ start \in T
  BY StatesMeaning
<1>2. ASSUME NEW n \in 1 .. N, NEW x \in T PROVE Give(ev, x.fds[n], x) \in T
  <2> DEFINE e == x.fds[n]
             next == Give(ev, e, x)
  <2>1. x \in States /\ N <= Len(x.fds) /\ x.fds \in Seq(Abstract!LiveFd) /\ Len(x.fds) \in Nat
    BY StatesMeaning
  <2>2. e \in Abstract!LiveFd
    BY <1>1, <2>1
  <2>3. /\ next \in States
        /\ \/ next = x \/ next.fds = x.fds
           \/ next.fds = Append(x.fds, Abstract!NewFd(ev.child_pid, e.fd, e.site))
    <3> DEFINE new == Abstract!NewFd(ev.child_pid, e.fd, e.site)
               takes == /\ ~x.err /\ e.pid = ev.pid
                        /\ Abstract!Entries(Range(x.fds), ev.child_pid, e.fd) = {}
                        /\ <<ev.child_pid, e.fd>> \notin Range(x.closed)
    <3> HIDE DEF e
    <3>1. /\ next \in States /\ next.closed = x.closed
          /\ ~takes => next = x
          /\ takes /\ x.granted = 0 => next.err /\ next.fds = x.fds
          /\ takes /\ x.granted # 0 => ~next.err /\ next.fds = Append(x.fds, new)
      <4>1. next = Give(ev, e, x) /\ x \in States /\ e \in Abstract!LiveFd
        BY <2>1, <2>2
      <4> HIDE DEF next
      <4>2. LET give == Give(ev, e, x)
                mine == /\ ~x.err /\ e.pid = ev.pid
                        /\ Abstract!Entries(Range(x.fds), ev.child_pid, e.fd) = {}
                        /\ <<ev.child_pid, e.fd>> \notin Range(x.closed)
            IN  /\ give \in States /\ give.closed = x.closed
                /\ ~mine => give = x
                /\ mine /\ x.granted = 0 => give.err /\ give.fds = x.fds
                /\ mine /\ x.granted # 0 => ~give.err /\ give.fds = Append(x.fds, new)
        BY <4>1, GiveCases
      <4> QED BY <4>1, <4>2
    <3>3. x.granted = 0 \/ x.granted # 0
      OBVIOUS
    <3> HIDE DEF next, takes, new
    <3>2. next \in States /\ (next = x \/ next.fds = x.fds \/ next.fds = Append(x.fds, new))
      BY <3>1, <3>3
    <3> QED BY <3>2 DEF new
  <2>4. Abstract!NewFd(ev.child_pid, e.fd, e.site) \in Abstract!LiveFd
    <3>1. e.fd \in Fd /\ e.site \in Site
      BY <2>2 DEF Abstract!LiveFd
    <3> QED BY <3>1, NewFdMeaning
  <2> HIDE DEF next, e
  <2>5. Len(Append(x.fds, Abstract!NewFd(ev.child_pid, e.fd, e.site))) = Len(x.fds) + 1
    BY <2>1, <2>4, RangeOfAppend
  <2>6. N <= Len(next.fds)
    BY <1>1, <2>1, <2>3, <2>5
  <2> QED BY <2>3, <2>6 DEF next, e
<1> HIDE DEF N, T
<1>3. step \in [(1 .. N) \X T -> T]
  BY <1>2
<1>4. \A i \in 1 .. N, x \in T : step[<<i, x>>] = Give(ev, x.fds[i], x)
  OBVIOUS
<1> HIDE DEF step
<1>5. PICK h : h \in Rounds(T, start, step, N)
  BY <1>1, <1>3, RoundsExist
<1>6. h = goal(h)
  <2>1. h \in [0 .. N -> T] /\ h[0] = start /\ \A i \in 1 .. N : h[i] = step[<<i, h[i - 1]>>]
    BY <1>5 DEF Rounds
  <2>2. \A i \in 1 .. N : i - 1 \in 0 .. N
    BY <1>1
  <2>3. \A i \in 1 .. N : h[i] = Give(ev, h[i - 1].fds[i], h[i - 1])
    BY <1>4, <2>1, <2>2
  <2>4. \A i \in 0 .. N : h[i] = IF i = 0 THEN start ELSE Give(ev, h[i - 1].fds[i], h[i - 1])
    BY <1>1, <2>1, <2>3
  <2> QED BY <2>1, <2>4
<1>7. loop = goal(loop)
  <2>1. loop = CHOOSE f : f = goal(f)
    BY DEF GiveLoop, N
  <2> HIDE DEF loop, goal
  <2> QED BY <1>6, <2>1
<1>8. Inherit(ev, start) = loop[N]
  BY DEF Inherit, GiveLoop, N
<1> HIDE DEF loop
<1>9. loop[0] = start /\ \A n \in 1 .. N : loop[n] = Give(ev, loop[n - 1].fds[n], loop[n - 1])
  <2>1. 0 \in 0 .. N /\ \A n \in 1 .. N : n \in 0 .. N /\ n # 0
    BY <1>1
  <2>2. \A n \in 0 .. N : loop[n] = IF n = 0 THEN start ELSE Give(ev, loop[n - 1].fds[n], loop[n - 1])
    BY <1>7
  <2> QED BY <2>1, <2>2
<1> QED BY <1>8, <1>9 DEF loop, N

\* The child gets descriptors it neither holds nor has closed: all of them, unless
\* the error is set.
LEMMA InheritMeaning ==
    ASSUME NEW ev, ev.pid \in Pid, ev.child_pid \in Pid, Len(resources) \in Nat,
           NEW start \in States, Table(start.fds, Len(resources))
    PROVE  LET after == Inherit(ev, start)
           IN  /\ after \in States /\ Table(after.fds, Len(resources) + 1)
               /\ after.closed = start.closed
               /\ \E given \in SUBSET ToGive(ev, start) : \E source \in [given -> Range(start.fds)] :
                    /\ \A d \in given : source[d] \in Abstract!Entries(Range(start.fds), ev.pid, d)
                    /\ Range(after.fds) = Range(start.fds) \cup Gifts(ev, given, source)
                    /\ start.err => given = {}
                    /\ after.err <=> ~(~start.err /\ given = ToGive(ev, start))
<1> DEFINE N == Len(start.fds)
           f == GiveLoop(ev, start)
           after == Inherit(ev, start)
           Done(n) == Giving(f[n], ev, start, n)
<1>1. /\ N \in Nat /\ start.err \in BOOLEAN /\ start.fds \in Seq(Abstract!LiveFd)
  BY StatesMeaning
<1>2. after = f[N] /\ f[0] = start /\ \A n \in 1 .. N : f[n] = Give(ev, f[n - 1].fds[n], f[n - 1])
  BY GiveLoopMeaning
<1>3. Giving(start, ev, start, 0)
  <2>1. Table(start.fds, Len(resources) + 1)
    BY TableLater
  <2> DEFINE none == [d \in {} |-> CHOOSE e \in Range(start.fds) : TRUE]
  <2>2. none \in [{} -> Range(start.fds)]
    OBVIOUS
  <2>3. Gave(start, ev, start, 0, {}, none)
    <3>1. Gifts(ev, {}, none) = {}
      BY DEF Gifts
    <3>2. 1 .. 0 = {}
      OBVIOUS
    <3> HIDE DEF none
    <3> QED BY <1>1, <3>1, <3>2 DEF Gave
  <2> HIDE DEF none
  <2>4. \E given \in SUBSET ToGive(ev, start) : \E source \in [given -> Range(start.fds)] :
          Gave(start, ev, start, 0, given, source)
    BY <2>2, <2>3
  <2> QED BY <1>1, <2>1, <2>4 DEF Giving
<1> HIDE DEF f, N, after
<1>4. ASSUME NEW n \in 1 .. N, Done(n - 1) PROVE Done(n)
  <2> DEFINE was == f[n - 1]
  <2>1. f[n] = Give(ev, was.fds[n], was) /\ Giving(was, ev, start, n - 1)
    BY <1>2, <1>4
  <2> HIDE DEF was
  <2>2. n \in 1 .. Len(start.fds)
    BY DEF N
  <2>3. Giving(Give(ev, was.fds[n], was), ev, start, n)
    BY <2>1, <2>2, GiveMeaning
  <2> QED BY <2>1, <2>3
<1>5. Done(0)
  BY <1>2, <1>3
<1>6. \A n \in 0 .. N : Done(n)
  <2> HIDE DEF Done
  <2> DEFINE Bad == {n \in 0 .. N : ~Done(n)}
  <2>1. SUFFICES ASSUME Bad # {} PROVE FALSE
    OBVIOUS
  <2>2. Bad \subseteq Nat
    OBVIOUS
  <2>3. PICK n \in Bad : \A m \in Bad : n <= m
    <3> HIDE DEF Bad
    <3> QED BY <2>1, <2>2, LeastExists
  <2>4. n # 0 /\ n \in 1 .. N /\ n - 1 \in 0 .. N /\ n - 1 \notin Bad
    BY <1>1, <1>5, <2>3
  <2> QED BY <1>4, <2>3, <2>4
<1>7. Giving(after, ev, start, N)
  BY <1>1, <1>2, <1>6
<1> HIDE DEF Done
<1>8. after \in States /\ Table(after.fds, Len(resources) + 1) /\ after.closed = start.closed
  BY <1>7 DEF Giving
<1>9. PICK given \in SUBSET ToGive(ev, start) : \E source \in [given -> Range(start.fds)] :
        Gave(after, ev, start, N, given, source)
  BY <1>7 DEF Giving
<1>10. PICK source \in [given -> Range(start.fds)] : Gave(after, ev, start, N, given, source)
  BY <1>9
<1>11. ~after.err => ~start.err /\ given = ToGive(ev, start)
  <2>1. SUFFICES ASSUME ~after.err, NEW d \in ToGive(ev, start) PROVE d \in given
    BY <1>10 DEF Gave
  <2>2. PICK e \in Range(start.fds) : e.pid = ev.pid /\ e.fd = d
    BY DEF ToGive, Abstract!Entries
  <2>3. PICK i \in 1 .. N : start.fds[i] = e
    BY <1>1, RangeMeaning DEF N
  <2> QED BY <1>10, <2>1, <2>2, <2>3 DEF Gave
<1>12. after.err /\ ~start.err => given # ToGive(ev, start)
  BY <1>10 DEF Gave
<1>13. /\ \A d \in given : source[d] \in Abstract!Entries(Range(start.fds), ev.pid, d)
       /\ Range(after.fds) = Range(start.fds) \cup Gifts(ev, given, source)
       /\ start.err => given = {}
       /\ after.err <=> ~(~start.err /\ given = ToGive(ev, start))
  BY <1>10, <1>11, <1>12 DEF Gave
<1> QED BY <1>8, <1>13 DEF after

-----------------------------------------------------------------------------
(* The rollback.                                                           *)

\* While the log is read, the findings are those of EXEC, one for a record, in the
\* order of the log.
Stack(array, log) ==
    /\ array \in Seq(Abstract!Finding)
    /\ \A i \in 1 .. Len(array) :
         /\ array[i].kind = "EXEC_INHERIT"
         /\ array[i].sequence \in 1 .. Len(log)
         /\ log[array[i].sequence].kind = "EXEC"
         /\ log[array[i].sequence].pid = array[i].pid
         /\ log[array[i].sequence].target = array[i].target
    /\ \A i, j \in 1 .. Len(array) : i < j => array[i].sequence < array[j].sequence

FirstLoop(ev) ==
    CHOOSE f : f = [n \in 0 .. Len(resources) |->
                      IF n > 0 /\ Abstract!AttemptMatches(resources[n], ev) THEN f[n - 1]
                      ELSE n + 1]

\* From the first sequence on, every record matches, and the one before does not.
LEMMA FirstSequenceMeaning ==
    ASSUME NEW ev, Len(resources) \in Nat
    PROVE  /\ FirstSequence(ev) \in Nat
           /\ \A k \in 1 .. Len(resources) :
                k >= FirstSequence(ev) <=>
                  \A i \in k .. Len(resources) : Abstract!AttemptMatches(resources[i], ev)
<1> DEFINE N == Len(resources)
           M(i) == Abstract!AttemptMatches(resources[i], ev)
           step == [x \in (1 .. N) \X Nat |-> IF M(x[1]) THEN x[2] ELSE x[1] + 1]
           goal(f) == [n \in 0 .. N |-> IF n > 0 /\ M(n) THEN f[n - 1] ELSE n + 1]
           loop == FirstLoop(ev)
           Done(n) == /\ loop[n] \in Nat
                      /\ \A k \in 1 .. n : k >= loop[n] <=> \A i \in k .. n : M(i)
                      /\ loop[n] <= n + 1
<1>1. N \in Nat
  OBVIOUS
<1>2. loop = CHOOSE f : f = goal(f)
  BY DEF FirstLoop
<1>3. FirstSequence(ev) = loop[N]
  BY DEF FirstSequence, FirstLoop
<1> HIDE DEF N, M
<1>4. step \in [(1 .. N) \X Nat -> Nat]
  BY <1>1
<1>5. \A i \in 1 .. N, x \in Nat : step[<<i, x>>] = IF M(i) THEN x ELSE i + 1
  OBVIOUS
<1> HIDE DEF step
<1>6. PICK h : h \in Rounds(Nat, 1, step, N)
  BY <1>1, <1>4, RoundsExist
<1>7. h = goal(h)
  <2>1. h \in [0 .. N -> Nat] /\ h[0] = 1 /\ \A i \in 1 .. N : h[i] = step[<<i, h[i - 1]>>]
    BY <1>6 DEF Rounds
  <2>2. \A i \in 1 .. N : i - 1 \in 0 .. N /\ i > 0
    BY <1>1
  <2>3. \A i \in 1 .. N : h[i] = IF M(i) THEN h[i - 1] ELSE i + 1
    BY <1>5, <2>1, <2>2
  <2>4. \A i \in 0 .. N : h[i] = IF i > 0 /\ M(i) THEN h[i - 1] ELSE i + 1
    <3>1. ASSUME NEW i \in 0 .. N PROVE h[i] = IF i > 0 /\ M(i) THEN h[i - 1] ELSE i + 1
      <4>1. CASE i = 0
        BY <2>1, <4>1
      <4>2. CASE i # 0
        <5>1. i \in 1 .. N
          BY <1>1, <4>2
        <5> QED BY <2>2, <2>3, <5>1
      <4> QED BY <4>1, <4>2
    <3> QED BY <3>1
  <2> QED BY <2>1, <2>4
<1> HIDE DEF loop
<1>8. loop = goal(loop)
  <2> HIDE DEF goal
  <2> QED BY <1>2, <1>7
<1>9. loop[0] = 1 /\ \A n \in 1 .. N : loop[n] = IF M(n) THEN loop[n - 1] ELSE n + 1
  <2>1. 0 \in 0 .. N /\ \A n \in 1 .. N : n \in 0 .. N /\ n > 0
    BY <1>1
  <2>2. \A n \in 0 .. N : loop[n] = IF n > 0 /\ M(n) THEN loop[n - 1] ELSE n + 1
    BY <1>8
  <2> QED BY <2>1, <2>2
<1>10. Done(0)
  BY <1>9
<1>11. ASSUME NEW n \in 1 .. N, Done(n - 1) PROVE Done(n)
  <2>1. n \in Nat /\ n >= 1 /\ loop[n] = IF M(n) THEN loop[n - 1] ELSE n + 1
    BY <1>1, <1>9
  <2>2. CASE M(n)
    <3>1. loop[n] = loop[n - 1] /\ loop[n] \in Nat /\ loop[n] <= n + 1
      BY <1>11, <2>1, <2>2
    <3>2. ASSUME NEW k \in 1 .. n PROVE k >= loop[n] <=> \A i \in k .. n : M(i)
      <4>1. CASE k = n
        <5>1. k >= loop[n]
          BY <1>11, <2>1, <3>1, <4>1
        <5> QED BY <2>1, <2>2, <4>1, <5>1
      <4>2. CASE k # n
        <5>1. k \in 1 .. n - 1
          BY <2>1, <4>2
        <5>2. k >= loop[n] <=> \A i \in k .. n - 1 : M(i)
          BY <1>11, <3>1, <5>1
        <5>3. \A i \in k .. n : i \in k .. n - 1 \/ i = n
          BY <2>1
        <5>4. \A i \in k .. n - 1 : i \in k .. n
          BY <2>1
        <5> QED BY <2>2, <5>2, <5>3, <5>4
      <4> QED BY <4>1, <4>2
    <3> QED BY <3>1, <3>2
  <2>3. CASE ~M(n)
    <3>1. loop[n] = n + 1
      BY <2>1, <2>3
    <3>2. \A k \in 1 .. n : n \in k .. n /\ ~(k >= n + 1)
      BY <2>1
    <3> QED BY <2>1, <2>3, <3>1, <3>2
  <2> QED BY <2>2, <2>3
<1>12. \A n \in 0 .. N : Done(n)
  <2> HIDE DEF Done
  <2> DEFINE Bad == {n \in 0 .. N : ~Done(n)}
  <2>1. SUFFICES ASSUME Bad # {} PROVE FALSE
    OBVIOUS
  <2>2. Bad \subseteq Nat
    OBVIOUS
  <2>3. PICK n \in Bad : \A m \in Bad : n <= m
    <3> HIDE DEF Bad
    <3> QED BY <2>1, <2>2, LeastExists
  <2>4. n # 0 /\ n \in 1 .. N /\ n - 1 \in 0 .. N /\ n - 1 \notin Bad
    BY <1>1, <1>10, <2>3
  <2> QED BY <1>11, <2>3, <2>4
<1>13. Done(N)
  BY <1>1, <1>12
<1> QED BY <1>3, <1>13 DEF N, M

LEMMA FindingMatchesMeaning ==
    ASSUME Len(resources) \in Nat, NEW ev, NEW f, f.sequence \in 1 .. Len(resources)
    PROVE  FindingMatches(f, ev) <=> Abstract!FindingMatches(f, ev)
<1>1. f.sequence >= FirstSequence(ev) <=>
        \A i \in f.sequence .. Len(resources) : Abstract!AttemptMatches(resources[i], ev)
  BY FirstSequenceMeaning
<1> QED BY <1>1 DEF FindingMatches, Abstract!FindingMatches

\* The findings of the attempt lie on top of the others.
LEMMA MatchesOnTop ==
    ASSUME Len(resources) \in Nat, Stack(findings, resources), NEW ev,
           NEW i \in 1 .. Len(findings), NEW j \in 1 .. Len(findings), i < j,
           FindingMatches(findings[i], ev)
    PROVE  FindingMatches(findings[j], ev)
<1> DEFINE f == findings[i]
           g == findings[j]
           N == Len(resources)
<1>1. f.sequence \in 1 .. N /\ g.sequence \in 1 .. N /\ f.sequence < g.sequence
  BY DEF Stack
<1>2. FirstSequence(ev) \in Nat
  BY FirstSequenceMeaning
<1>3. f.sequence >= FirstSequence(ev)
  BY DEF FindingMatches
<1>4. g.sequence >= FirstSequence(ev)
  BY <1>1, <1>2, <1>3
<1>5. g.sequence \in f.sequence .. N
  BY <1>1
<1>6. Abstract!AttemptMatches(resources[g.sequence], ev)
  BY <1>1, <1>3, <1>5, FirstSequenceMeaning
<1>7. g.kind = "EXEC_INHERIT" /\ g.pid = ev.pid /\ g.target # Null /\ g.target = ev.target
  BY <1>6 DEF Stack, Abstract!AttemptMatches
<1> QED BY <1>4, <1>7 DEF FindingMatches

CompactLoop(ev) ==
    CHOOSE f : f = [n \in 0 .. Len(findings) |->
                      IF n = 0 THEN [items |-> findings, write |-> 0] ELSE Copy(ev, n, f[n - 1])]

\* The compaction leaves the findings below the attempt, where they are.
LEMMA CompactMeaning ==
    ASSUME Len(resources) \in Nat, Stack(findings, resources), NEW ev
    PROVE  /\ \E k \in 0 .. Len(findings) : Compact(ev) = SubSeq(findings, 1, k)
           /\ Range(Compact(ev)) =
                {f \in Range(findings) : ~Abstract!FindingMatches(f, ev)}
<1> DEFINE N == Len(findings)
           M(i) == FindingMatches(findings[i], ev)
           S == {n \in Nat : n = N \/ (n + 1 \in 1 .. N /\ M(n + 1))}
<1>1. N \in Nat /\ findings \in Seq(Abstract!Finding)
      /\ \A i \in 1 .. N : findings[i].sequence \in 1 .. Len(resources)
  BY DEF Stack
<1>2. PICK k \in S : \A n \in S : k <= n
  <2>1. S \subseteq Nat /\ N \in S
    BY <1>1
  <2> HIDE DEF S
  <2> QED BY <2>1, LeastExists
<1>3. k \in 0 .. N
  BY <1>1, <1>2
<1>4. ASSUME NEW i \in 1 .. N PROVE M(i) <=> i > k
  <2>1. CASE i <= k
    <3>1. i - 1 \in Nat /\ i - 1 < k /\ i - 1 + 1 = i
      BY <1>3, <2>1
    <3>2. i - 1 \notin S
      <4> HIDE DEF S
      <4> QED BY <1>2, <1>3, <3>1
    <3>3. M(i) => i - 1 \in S
      <4> HIDE DEF M
      <4>1. M(i) => i - 1 + 1 \in 1 .. N /\ M(i - 1 + 1)
        BY <3>1
      <4> QED BY <3>1, <4>1
    <3>4. ~M(i) /\ ~(i > k)
      BY <1>3, <2>1, <3>2, <3>3
    <3> QED BY <3>4
  <2>2. CASE i > k
    <3>1. k + 1 \in 1 .. N /\ M(k + 1) /\ (i = k + 1 \/ k + 1 < i)
      BY <1>1, <1>2, <1>3, <2>2
    <3>2. CASE k + 1 < i
      BY <2>2, <3>1, <3>2, MatchesOnTop
    <3>3. CASE i = k + 1
      <4> HIDE DEF M
      <4> QED BY <2>2, <3>1, <3>3
    <3> QED BY <3>1, <3>2, <3>3
  <2> QED BY <1>1, <1>3, <2>1, <2>2
<1> HIDE DEF M, S
<1> DEFINE at(n) == [items |-> findings, write |-> IF n <= k THEN n ELSE k]
           goal(f) == [n \in 0 .. N |-> IF n = 0 THEN [items |-> findings, write |-> 0]
                                        ELSE Copy(ev, n, f[n - 1])]
           h == [n \in 0 .. N |-> at(n)]
           loop == CompactLoop(ev)
<1>5. at(0) = [items |-> findings, write |-> 0]
  BY <1>3
<1>6. ASSUME NEW n \in 1 .. N PROVE Copy(ev, n, at(n - 1)) = at(n)
  <2>1. at(n - 1).items = findings /\ at(n - 1).write = IF n - 1 <= k THEN n - 1 ELSE k
    OBVIOUS
  <2>2. Copy(ev, n, at(n - 1)) =
          IF M(n) THEN at(n - 1)
          ELSE [items |-> [findings EXCEPT ![at(n - 1).write + 1] = findings[n]],
                write |-> at(n - 1).write + 1]
    BY <2>1 DEF Copy, M
  <2>3. CASE n > k
    <3>1. M(n)
      BY <1>4, <2>3
    <3>2. (IF n - 1 <= k THEN n - 1 ELSE k) = k /\ (IF n <= k THEN n ELSE k) = k
      BY <1>3, <2>3
    <3>3. at(n - 1) = at(n)
      BY <3>2
    <3> QED BY <2>2, <3>1, <3>3
  <2>4. CASE n <= k
    <3>1. ~M(n)
      BY <1>1, <1>3, <1>4, <2>4
    <3>2. at(n - 1).write = n - 1 /\ n - 1 + 1 = n
      BY <1>3, <2>1, <2>4
    <3>3. [findings EXCEPT ![n] = findings[n]] = findings
      BY <1>1
    <3>4. Copy(ev, n, at(n - 1)) = [items |-> findings, write |-> n]
      <4> HIDE DEF at
      <4> QED BY <2>2, <3>1, <3>2, <3>3
    <3> QED BY <2>4, <3>4
  <2> QED BY <1>1, <1>3, <2>3, <2>4
<1>7. h = goal(h)
  <2>1. \A n \in 1 .. N : n - 1 \in 0 .. N
    BY <1>1
  <2> HIDE DEF at
  <2>2. \A n \in 0 .. N : h[n] = IF n = 0 THEN [items |-> findings, write |-> 0]
                                 ELSE Copy(ev, n, h[n - 1])
    <3>1. ASSUME NEW n \in 0 .. N
          PROVE  h[n] = IF n = 0 THEN [items |-> findings, write |-> 0]
                        ELSE Copy(ev, n, h[n - 1])
      <4>1. CASE n = 0
        BY <1>5, <4>1
      <4>2. CASE n # 0
        <5>1. n \in 1 .. N
          BY <1>1, <4>2
        <5> QED BY <1>6, <2>1, <4>2, <5>1
      <4> QED BY <4>1, <4>2
    <3> QED BY <3>1
  <2> QED BY <2>2
<1>8. loop = goal(loop)
  <2>1. loop = CHOOSE f : f = goal(f)
    BY DEF CompactLoop
  <2> HIDE DEF loop, goal, h
  <2> QED BY <1>7, <2>1
<1>9. Compact(ev) = SubSeq(loop[N].items, 1, loop[N].write)
  BY DEF Compact, CompactLoop
<1> HIDE DEF loop, at
<1>10. loop[0] = at(0) /\ \A n \in 1 .. N : loop[n] = Copy(ev, n, loop[n - 1])
  <2>1. 0 \in 0 .. N /\ \A n \in 1 .. N : n \in 0 .. N /\ n # 0
    BY <1>1
  <2>2. \A n \in 0 .. N : loop[n] = IF n = 0 THEN [items |-> findings, write |-> 0]
                                    ELSE Copy(ev, n, loop[n - 1])
    BY <1>8
  <2> QED BY <1>5, <2>1, <2>2
<1>11. \A n \in 0 .. N : loop[n] = at(n)
  <2> DEFINE Bad == {n \in 0 .. N : loop[n] # at(n)}
  <2>1. SUFFICES ASSUME Bad # {} PROVE FALSE
    OBVIOUS
  <2>2. Bad \subseteq Nat
    OBVIOUS
  <2>3. PICK n \in Bad : \A m \in Bad : n <= m
    <3> HIDE DEF Bad
    <3> QED BY <2>1, <2>2, LeastExists
  <2>4. n # 0 /\ n \in 1 .. N /\ n - 1 \in 0 .. N /\ n - 1 \notin Bad
    BY <1>1, <1>10, <2>3
  <2> QED BY <1>6, <1>10, <2>3, <2>4
<1>12. loop[N].items = findings /\ loop[N].write = k
  <2>1. loop[N] = at(N)
    BY <1>1, <1>11
  <2>2. (IF N <= k THEN N ELSE k) = k
    BY <1>1, <1>3
  <2> QED BY <2>1, <2>2 DEF at
<1> DEFINE kept == SubSeq(findings, 1, k)
<1>13. Compact(ev) = kept
  BY <1>9, <1>12
<1>14. kept \in Seq(Abstract!Finding) /\ Len(kept) = k /\ \A j \in 1 .. k : kept[j] = findings[j]
  BY <1>1, <1>3, Beginning
<1> HIDE DEF kept
<1>15. \A i \in 1 .. N : M(i) <=> Abstract!FindingMatches(findings[i], ev)
  BY <1>1, FindingMatchesMeaning DEF M
<1>16. ASSUME NEW f \in Range(kept)
       PROVE  f \in Range(findings) /\ ~Abstract!FindingMatches(f, ev)
  <2>1. PICK j \in 1 .. k : kept[j] = f
    BY <1>14, RangeMeaning
  <2>2. j \in 1 .. N /\ ~(j > k) /\ findings[j] = f
    BY <1>1, <1>3, <1>14, <2>1
  <2> QED BY <1>1, <1>4, <1>15, <2>2, RangeMeaning
<1>17. ASSUME NEW f \in Range(findings), ~Abstract!FindingMatches(f, ev)
       PROVE  f \in Range(kept)
  <2>1. PICK j \in 1 .. N : findings[j] = f
    BY <1>1, RangeMeaning
  <2>2. j \in 1 .. k
    BY <1>1, <1>3, <1>4, <1>15, <1>17, <2>1
  <2> QED BY <1>14, <2>1, <2>2, RangeMeaning
<1> QED BY <1>3, <1>13, <1>16, <1>17 DEF kept

LEMMA StackLater ==
    ASSUME NEW S, NEW log \in Seq(S), NEW ev \in S, NEW array, Stack(array, log)
    PROVE  Stack(array, Append(log, ev))
<1> DEFINE more == Append(log, ev)
<1>1. /\ Len(log) \in Nat /\ Len(more) = Len(log) + 1
      /\ \A i \in 1 .. Len(log) : more[i] = log[i]
  BY RangeMeaning, RangeOfAppend
<1> HIDE DEF more
<1>2. \A i \in 1 .. Len(array) :
        array[i].sequence \in 1 .. Len(more) /\ more[array[i].sequence] = log[array[i].sequence]
  BY <1>1 DEF Stack
<1>3. Stack(array, more)
  BY <1>2 DEF Stack
<1> QED BY <1>3 DEF more

LEMMA StackPush ==
    ASSUME NEW S, NEW log \in Seq(S), NEW ev \in S, NEW array, Stack(array, log),
           NEW f \in Abstract!Finding, f.kind = "EXEC_INHERIT", f.sequence = Len(log) + 1,
           ev.kind = "EXEC", f.pid = ev.pid, f.target = ev.target
    PROVE  Stack(Append(array, f), Append(log, ev))
<1> DEFINE more == Append(log, ev)
           pushed == Append(array, f)
<1>1. /\ Len(log) \in Nat /\ Len(more) = Len(log) + 1
      /\ more[Len(log) + 1] = ev
  BY RangeMeaning, RangeOfAppend
<1>2. /\ array \in Seq(Abstract!Finding) /\ Len(array) \in Nat
      /\ pushed \in Seq(Abstract!Finding) /\ Len(pushed) = Len(array) + 1
      /\ \A i \in 1 .. Len(array) : pushed[i] = array[i]
      /\ pushed[Len(array) + 1] = f
  <2>1. array \in Seq(Abstract!Finding)
    BY DEF Stack
  <2> QED BY <2>1, RangeMeaning, RangeOfAppend
<1>3. Stack(array, more)
  BY StackLater
<1>4. \A i \in 1 .. Len(array) : array[i].sequence \in 1 .. Len(log)
  BY DEF Stack
<1> HIDE DEF more, pushed
<1>5. \A i \in 1 .. Len(pushed) : i \in 1 .. Len(array) \/ i = Len(array) + 1
  BY <1>2
<1>6. ASSUME NEW i \in 1 .. Len(pushed)
      PROVE  /\ pushed[i].kind = "EXEC_INHERIT"
             /\ pushed[i].sequence \in 1 .. Len(more)
             /\ more[pushed[i].sequence].kind = "EXEC"
             /\ more[pushed[i].sequence].pid = pushed[i].pid
             /\ more[pushed[i].sequence].target = pushed[i].target
  <2>1. CASE i \in 1 .. Len(array)
    BY <1>2, <1>3, <2>1 DEF Stack
  <2>2. CASE i = Len(array) + 1
    <3>1. Len(log) + 1 \in 1 .. Len(more)
      BY <1>1
    <3> QED BY <1>1, <1>2, <2>2, <3>1
  <2> QED BY <1>5, <2>1, <2>2
<1>7. ASSUME NEW i \in 1 .. Len(pushed), NEW j \in 1 .. Len(pushed), i < j
      PROVE  pushed[i].sequence < pushed[j].sequence
  <2>1. i \in 1 .. Len(array)
    BY <1>2, <1>7
  <2>2. CASE j \in 1 .. Len(array)
    BY <1>2, <1>7, <2>1, <2>2 DEF Stack
  <2>3. CASE j = Len(array) + 1
    <3>1. pushed[i].sequence \in 1 .. Len(log) /\ pushed[j].sequence = Len(log) + 1
      BY <1>2, <1>4, <2>1, <2>3
    <3> QED BY <1>1, <3>1
  <2> QED BY <1>5, <2>2, <2>3
<1>8. Stack(pushed, more)
  BY <1>2, <1>6, <1>7 DEF Stack
<1> QED BY <1>8 DEF pushed, more

LEMMA StackBeginning ==
    ASSUME NEW log, NEW array, Stack(array, log), NEW k \in 0 .. Len(array)
    PROVE  Stack(SubSeq(array, 1, k), log)
<1> DEFINE kept == SubSeq(array, 1, k)
<1>1. array \in Seq(Abstract!Finding) /\ Len(array) \in Nat
  <2>1. array \in Seq(Abstract!Finding)
    BY DEF Stack
  <2> QED BY <2>1, RangeMeaning
<1>2. /\ kept \in Seq(Abstract!Finding) /\ Len(kept) = k
      /\ \A j \in 1 .. k : kept[j] = array[j]
  BY <1>1, Beginning
<1>3. \A j \in 1 .. k : j \in 1 .. Len(array)
  BY <1>1
<1> HIDE DEF kept
<1>4. Stack(kept, log)
  BY <1>2, <1>3 DEF Stack
<1> QED BY <1>4 DEF kept

-----------------------------------------------------------------------------
(* The tables of allocations.                                              *)

\* While nothing has failed, every block has its address, and its own record.
BlockTable(array, n) ==
    /\ array \in Seq(Abstract!Alloc)
    /\ \A i \in 1 .. Len(array) : array[i].ptr \in Ptr /\ array[i].sequence <= n
    /\ \A i, j \in 1 .. Len(array) : array[i].sequence = array[j].sequence => i = j

LEMMA BlockTableMeaning ==
    ASSUME NEW array, NEW n, BlockTable(array, n)
    PROVE  array \in Seq(Abstract!Alloc) /\ Len(array) \in Nat /\ Once(array)
<1>1. array \in Seq(Abstract!Alloc)
  BY DEF BlockTable
<1>2. Once(array)
  BY DEF BlockTable, Once
<1> QED BY <1>1, <1>2, RangeMeaning

LEMMA BlockDrop ==
    ASSUME NEW array, NEW n, BlockTable(array, n), NEW i \in 1 .. Len(array)
    PROVE  /\ BlockTable(Drop(array, i), n)
           /\ Range(Drop(array, i)) = Range(array) \ {array[i]}
<1> DEFINE left == Drop(array, i)
           from(j) == IF j = i THEN Len(array) ELSE j
<1>1. array \in Seq(Abstract!Alloc) /\ Len(array) \in Nat /\ Once(array)
  BY BlockTableMeaning
<1>2. /\ left \in Seq(Abstract!Alloc) /\ Len(left) = Len(array) - 1
      /\ \A j \in 1 .. Len(array) - 1 : left[j] = array[from(j)]
  BY <1>1, DropMeaning
<1>3. \A j \in 1 .. Len(array) - 1 : from(j) \in 1 .. Len(array)
  BY <1>1
<1>4. \A j, k \in 1 .. Len(array) - 1 : from(j) = from(k) => j = k
  BY <1>1
<1>5. Range(left) = Range(array) \ {array[i]}
  BY <1>1, DropRange
<1> HIDE DEF left, from
<1>6. ASSUME NEW j \in 1 .. Len(left) PROVE left[j].ptr \in Ptr /\ left[j].sequence <= n
  <2>1. from(j) \in 1 .. Len(array) /\ left[j] = array[from(j)]
    BY <1>2, <1>3
  <2> QED BY <2>1 DEF BlockTable
<1>7. ASSUME NEW j \in 1 .. Len(left), NEW k \in 1 .. Len(left), left[j].sequence = left[k].sequence
      PROVE  j = k
  <2>1. /\ from(j) \in 1 .. Len(array) /\ left[j] = array[from(j)]
        /\ from(k) \in 1 .. Len(array) /\ left[k] = array[from(k)]
    BY <1>2, <1>3
  <2>2. from(j) = from(k)
    BY <1>7, <2>1 DEF BlockTable
  <2> QED BY <1>2, <1>4, <2>2
<1>8. BlockTable(left, n)
  BY <1>2, <1>6, <1>7 DEF BlockTable
<1> QED BY <1>5, <1>8 DEF left

LEMMA BlockLater ==
    ASSUME NEW array, NEW n \in Nat, BlockTable(array, n)
    PROVE  BlockTable(array, n + 1)
<1>1. \A i \in 1 .. Len(array) : array[i].sequence \in Nat /\ array[i].sequence <= n
  <2>1. \A i \in 1 .. Len(array) : array[i] \in Abstract!Alloc
    BY DEF BlockTable
  <2> QED BY <2>1 DEF BlockTable, Abstract!Alloc
<1>2. \A i \in 1 .. Len(array) : array[i].sequence <= n + 1
  BY <1>1
<1> QED BY <1>2 DEF BlockTable

LEMMA BlockAppend ==
    ASSUME NEW array, NEW n \in Nat, BlockTable(array, n),
           NEW a \in Abstract!Alloc, a.ptr \in Ptr, a.sequence = n + 1
    PROVE  BlockTable(Append(array, a), n + 1)
<1> DEFINE more == Append(array, a)
<1>1. array \in Seq(Abstract!Alloc) /\ Len(array) \in Nat
  BY BlockTableMeaning
<1>2. /\ more \in Seq(Abstract!Alloc) /\ Len(more) = Len(array) + 1
      /\ \A i \in 1 .. Len(array) : more[i] = array[i]
      /\ more[Len(array) + 1] = a
  BY <1>1, RangeOfAppend
<1>3. BlockTable(array, n + 1)
  BY BlockLater
<1>4. \A i \in 1 .. Len(array) : array[i].sequence # n + 1
  <2>1. \A i \in 1 .. Len(array) : array[i] \in Abstract!Alloc /\ array[i].sequence <= n
    BY DEF BlockTable
  <2> QED BY <2>1 DEF Abstract!Alloc
<1> HIDE DEF more
<1>5. \A i \in 1 .. Len(more) : i \in 1 .. Len(array) \/ i = Len(array) + 1
  BY <1>1, <1>2
<1>6. n + 1 <= n + 1
  OBVIOUS
<1>7. ASSUME NEW i \in 1 .. Len(more) PROVE more[i].ptr \in Ptr /\ more[i].sequence <= n + 1
  BY <1>2, <1>3, <1>5, <1>6 DEF BlockTable
<1>8. ASSUME NEW i \in 1 .. Len(more), NEW j \in 1 .. Len(more),
             more[i].sequence = more[j].sequence
      PROVE  i = j
  <2>1. i \in 1 .. Len(array) /\ j \in 1 .. Len(array) => i = j
    BY <1>2, <1>3, <1>8 DEF BlockTable
  <2> QED BY <1>2, <1>4, <1>5, <1>8, <2>1
<1>9. BlockTable(more, n + 1)
  BY <1>2, <1>7, <1>8 DEF BlockTable
<1> QED BY <1>9 DEF more

LEMMA BlockIndexMeaning ==
    ASSUME allocs \in Seq(Abstract!Alloc), NEW pid, NEW ptr
    PROVE  /\ BlockIndex(pid, ptr) \in 0 .. Len(allocs)
           /\ BlockIndex(pid, ptr) = 0 <=> Abstract!Blocks(pid, ptr) = {}
           /\ BlockIndex(pid, ptr) # 0 => allocs[BlockIndex(pid, ptr)] \in Abstract!Blocks(pid, ptr)
<1> DEFINE S == {i \in 1 .. Len(allocs) : allocs[i].pid = pid /\ allocs[i].ptr = ptr}
<1>1. BlockIndex(pid, ptr) = IF S # {} THEN Min(S) ELSE 0
  BY DEF BlockIndex, SelectInSeq
<1>2. S # {} => Min(S) \in S
  <2>1. ASSUME S # {} PROVE \E i \in S : \A j \in S : i <= j
    <3>1. S \subseteq Nat
      OBVIOUS
    <3> HIDE DEF S
    <3> QED BY <2>1, <3>1, LeastExists
  <2> QED BY <2>1 DEF Min
<1>3. S = {} <=> Abstract!Blocks(pid, ptr) = {}
  BY RangeMeaning DEF Abstract!Blocks
<1>4. \A i \in S : i \in 1 .. Len(allocs) /\ allocs[i] \in Abstract!Blocks(pid, ptr)
  BY RangeMeaning DEF Abstract!Blocks
<1>5. Len(allocs) \in Nat /\ \A i \in 1 .. Len(allocs) : i \in 0 .. Len(allocs) /\ i # 0
  BY RangeMeaning
<1> HIDE DEF S
<1> QED BY <1>1, <1>2, <1>3, <1>4, <1>5

-----------------------------------------------------------------------------
(* The steps.                                                              *)

\* What holds of the arrays while the log is read.
Intact ==
    /\ Table(fds, Len(resources))
    /\ closed_fds \in Seq(Pid \X Fd)
    /\ BlockTable(allocs, Len(resources))
    /\ freed_allocs \in Seq(Abstract!Alloc)
    /\ Stack(findings, resources)

\* The record has been swept for.
Settled(ev, now) ==
    /\ now \in States /\ ~now.err
    /\ Table(now.fds, Len(resources))
    /\ Range(now.fds) = Abstract!SettledFds(ev)
    /\ Range(now.closed) = Abstract!SettledClosed(ev)

LEMMA Assumed ==
    ASSUME ArraysAssumption
    PROVE  /\ Granted \subseteq Nat /\ Outcomes \subseteq BOOLEAN
           /\ TRUE \in Outcomes /\ FALSE \in Outcomes
           /\ \A yes \in BOOLEAN : yes \in Outcomes
           /\ MaxReported \in Nat
           /\ \A ev \in Inputs :
                /\ ev.kind \in Abstract!Kind /\ ev.pid \in Pid /\ ev.fd \in Fd \cup {Null}
                /\ ev.cloexec \in BOOLEAN
                /\ ev.ptr \in Ptr \cup {Null} /\ ev.new_ptr \in Ptr \cup {Null}
                /\ ev.target \in Target \cup {Null} /\ ev.site \in Site
                /\ ev.kind \in {"FD_OPEN", "FD_CLOSE", "EXEC"} => ev.fd \in Fd
                /\ ev.kind = "FORK" => ev.child_pid \in Pid
<1>1. /\ Granted \subseteq Nat /\ Outcomes \subseteq BOOLEAN
      /\ TRUE \in Outcomes /\ FALSE \in Outcomes /\ MaxReported \in Nat
  BY DEF ArraysAssumption, Abstract!ReplayAssumption
<1>2. ASSUME NEW ev \in Inputs
      PROVE  /\ ev.kind \in Abstract!Kind /\ ev.pid \in Pid /\ ev.fd \in Fd \cup {Null}
             /\ ev.cloexec \in BOOLEAN
             /\ ev.ptr \in Ptr \cup {Null} /\ ev.new_ptr \in Ptr \cup {Null}
             /\ ev.target \in Target \cup {Null} /\ ev.site \in Site
             /\ ev.kind \in {"FD_OPEN", "FD_CLOSE", "EXEC"} => ev.fd \in Fd
             /\ ev.kind = "FORK" => ev.child_pid \in Pid
  <2>1. ev \in Abstract!ResourceEvent
    BY DEF ArraysAssumption, Abstract!ReplayAssumption
  <2>2. /\ ev.kind \in {"FD_OPEN", "FD_CLOSE", "EXEC"} => ev.fd \in Fd
        /\ ev.kind = "FORK" => ev.child_pid \in Pid
    BY DEF ArraysAssumption, Abstract!ReplayAssumption
  <2> QED BY <2>1, <2>2 DEF Abstract!ResourceEvent
<1>3. \A yes \in BOOLEAN : yes \in Outcomes
  BY <1>1
<1> QED BY <1>1, <1>2, <1>3

\* What every stored record does and leaves alone.
LEMMA StoredMeaning ==
    ASSUME ArraysAssumption, resources \in Seq(Inputs), Intact, NEW ev \in Inputs,
           NEW now, Settled(ev, now), Stored(ev, now)
    PROVE  /\ Abstract!Stored(ev)
           /\ Len(resources) \in Nat /\ Len(resources') = Len(resources) + 1
           /\ resources' = Append(resources, ev)
           /\ \A table : Table(table, Len(resources)) => Table(table, Len(resources'))
           /\ BlockTable(allocs, Len(resources'))
           /\ Stack(findings, resources')
<1>1. Len(resources) \in Nat
  BY RangeMeaning
<1>2. resources' = Append(resources, ev) /\ Len(resources') = Len(resources) + 1
  BY RangeOfAppend DEF Stored
<1>3. Abstract!Stored(ev)
  BY DEF Stored, Reading, Abstract!Stored, Abstract!Reading
<1>4. \A table : Table(table, Len(resources)) => Table(table, Len(resources) + 1)
  <2>1. Len(resources) + 1 \in Nat /\ Len(resources) <= Len(resources) + 1
    BY <1>1
  <2> QED BY <1>1, <2>1, TableLater
<1>5. BlockTable(allocs, Len(resources) + 1)
  BY <1>1, BlockLater DEF Intact
<1>6. Stack(findings, Append(resources, ev))
  BY StackLater DEF Intact
<1> QED BY <1>1, <1>2, <1>3, <1>4, <1>5, <1>6

\* A record that leaves allocations and findings alone.
LEMMA IntactFds ==
    ASSUME ArraysAssumption, resources \in Seq(Inputs), Intact, NEW ev \in Inputs,
           NEW now, Settled(ev, now), Stored(ev, now),
           Table(fds', Len(resources')), closed_fds' \in Seq(Pid \X Fd),
           KeepAllocs, findings' = findings
    PROVE  Intact' /\ Abstract!KeepAllocs
<1>1. BlockTable(allocs, Len(resources')) /\ Stack(findings, resources')
  BY StoredMeaning
<1>2. allocs' = allocs /\ freed_allocs' = freed_allocs /\ findings' = findings
  BY DEF KeepAllocs
<1>3. BlockTable(allocs', Len(resources')) /\ Stack(findings', resources')
      /\ freed_allocs' \in Seq(Abstract!Alloc)
  BY <1>1, <1>2 DEF Intact
<1>4. Abstract!KeepAllocs
  BY <1>2 DEF Abstract!KeepAllocs
<1> QED BY <1>3, <1>4 DEF Intact

LEMMA FdOpenStep ==
    ASSUME ArraysAssumption, resources \in Seq(Inputs), Intact, NEW ev \in Inputs,
           NEW now, Settled(ev, now), Stored(ev, now), FdOpen(ev, now)
    PROVE  Abstract!FdOpen(ev) /\ (~err' => Intact')
<1>1. PICK adopted \in Outcomes, grows \in Outcomes :
         /\ ev.kind = "FD_OPEN"
         /\ fds' = Pushed(now.fds, Abstract!NewFd(ev.pid, ev.fd, ev.site), grows)
         /\ closed_fds' = now.closed
         /\ err' = ~(adopted /\ grows)
         /\ KeepAllocs /\ findings' = findings
  BY DEF FdOpen
<1> DEFINE new == Abstract!NewFd(ev.pid, ev.fd, ev.site)
<1>2. /\ Abstract!Stored(ev) /\ Len(resources) \in Nat
      /\ Len(resources') = Len(resources) + 1
      /\ Table(now.fds, Len(resources'))
  BY StoredMeaning DEF Settled
<1>3. ev.pid \in Pid /\ ev.fd \in Fd /\ ev.site \in Site /\ grows \in BOOLEAN
  BY <1>1, Assumed
<1>4. new \in Abstract!LiveFd /\ new.sequence = Len(resources) + 1
  BY <1>2, <1>3, NewFdMeaning
<1>5. now.fds \in Seq(Abstract!LiveFd) /\ now.closed \in Seq(Pid \X Fd)
  BY StatesMeaning DEF Settled
<1> HIDE DEF new
<1>6. Range(fds') = Range(now.fds) \cup (IF grows THEN {new} ELSE {})
  BY <1>1, <1>4, <1>5, RangeOfAppend DEF Pushed, new
<1>7. Table(fds', Len(resources'))
  <2>1. ASSUME NEW x \in Range(now.fds) PROVE x.sequence # new.sequence
    <3>1. PICK i \in 1 .. Len(now.fds) : now.fds[i] = x
      BY <1>5, RangeMeaning, SMTT(30)
    <3>2. x.sequence <= Len(resources) /\ x \in Abstract!LiveFd
      BY <1>5, <3>1 DEF Settled, Table
    <3>3. x.sequence \in Nat
      BY <3>2 DEF Abstract!LiveFd
    <3> QED BY <1>2, <1>4, <3>2, <3>3
  <2>2. Table(Append(now.fds, new), Len(resources) + 1)
    <3>1. /\ Len(resources) + 1 \in Nat /\ Len(resources) <= Len(resources) + 1
          /\ new.sequence <= Len(resources) + 1
      BY <1>2, <1>4
    <3> QED BY <1>2, <1>4, <2>1, <3>1, TableAppend DEF Settled
  <2> QED BY <1>1, <1>2, <2>2 DEF Pushed, new
<1>8. Intact' /\ Abstract!KeepAllocs
  BY <1>1, <1>5, <1>7, IntactFds
<1>9. Range(fds)' = Abstract!SettledFds(ev) \cup (IF grows THEN {new} ELSE {})
      /\ Range(closed_fds)' = Abstract!SettledClosed(ev)
  BY <1>1, <1>6 DEF Settled
<1>10. Abstract!FdOpen(ev)
  BY <1>1, <1>2, <1>8, <1>9 DEF Abstract!FdOpen, new
<1> QED BY <1>8, <1>10

LEMMA FdCloseStep ==
    ASSUME ArraysAssumption, resources \in Seq(Inputs), Intact, NEW ev \in Inputs,
           NEW now, Settled(ev, now), Stored(ev, now), FdClose(ev, now)
    PROVE  (Abstract!FdClose(ev) \/ Abstract!FdCloseStray(ev)) /\ Intact'
<1> DEFINE at == FdIndex(now.fds, ev.pid, ev.fd)
<1>1. PICK adopted \in Outcomes, grows \in Outcomes :
         /\ ev.kind = "FD_CLOSE"
         /\ IF at = 0
              THEN Tables(now) /\ err' = ~adopted
              ELSE /\ fds' = Drop(now.fds, at)
                   /\ closed_fds' = Pushed(now.closed, <<ev.pid, ev.fd>>, grows)
                   /\ err' = ~(adopted /\ grows)
         /\ KeepAllocs /\ findings' = findings
  BY DEF FdClose
<1>2. /\ Abstract!Stored(ev) /\ Len(resources) \in Nat
      /\ \A table : Table(table, Len(resources)) => Table(table, Len(resources'))
  BY StoredMeaning
<1>3. ev.pid \in Pid /\ ev.fd \in Fd /\ grows \in BOOLEAN
  BY <1>1, Assumed
<1>4. now.fds \in Seq(Abstract!LiveFd) /\ now.closed \in Seq(Pid \X Fd)
  BY StatesMeaning DEF Settled
<1>5. /\ at \in 0 .. Len(now.fds) /\ Len(now.fds) \in Nat
      /\ at = 0 <=> Abstract!Entries(Range(now.fds), ev.pid, ev.fd) = {}
      /\ at # 0 => now.fds[at] \in Abstract!Entries(Range(now.fds), ev.pid, ev.fd)
  BY <1>4, FdIndexMeaning, RangeMeaning
<1>6. Table(now.fds, Len(resources)) /\ Range(now.fds) = Abstract!SettledFds(ev)
      /\ Range(now.closed) = Abstract!SettledClosed(ev)
  BY DEF Settled
<1> HIDE DEF at
<1>7. CASE at = 0
  <2>1. fds' = now.fds /\ closed_fds' = now.closed /\ err' = ~adopted
    BY <1>1, <1>7 DEF Tables
  <2>2. Intact' /\ Abstract!KeepAllocs
    BY <1>1, <1>2, <1>4, <1>6, <2>1, IntactFds
  <2>3. Range(fds)' = Abstract!SettledFds(ev) /\ Range(closed_fds)' = Abstract!SettledClosed(ev)
    BY <1>6, <2>1
  <2>4. Abstract!FdCloseStray(ev)
    BY <1>1, <1>2, <1>5, <1>6, <1>7, <2>1, <2>2, <2>3 DEF Abstract!FdCloseStray, Abstract!Settle
  <2> QED BY <2>2, <2>4
<1>8. CASE at # 0
  <2> DEFINE e == now.fds[at]
  <2>1. /\ fds' = Drop(now.fds, at)
        /\ closed_fds' = Pushed(now.closed, <<ev.pid, ev.fd>>, grows)
        /\ err' = ~(adopted /\ grows)
    BY <1>1, <1>8
  <2>2. at \in 1 .. Len(now.fds)
    BY <1>5, <1>8
  <2>3. Range(Drop(now.fds, at)) = Range(now.fds) \ {e}
    BY <1>4, <1>6, <2>2, TableOnce, DropRange
  <2>4. Table(fds', Len(resources'))
    BY <1>2, <1>6, <2>1, <2>2, TableDrop
  <2>5. /\ closed_fds' \in Seq(Pid \X Fd)
        /\ Range(closed_fds') = Range(now.closed) \cup (IF grows THEN {<<ev.pid, ev.fd>>} ELSE {})
    <3> DEFINE S == Pid \X Fd
               slot == <<ev.pid, ev.fd>>
    <3>1. slot \in S /\ now.closed \in Seq(S)
      BY <1>3, <1>4
    <3> HIDE DEF S, slot
    <3>2. /\ Append(now.closed, slot) \in Seq(S)
          /\ Range(Append(now.closed, slot)) = Range(now.closed) \cup {slot}
      BY <3>1, RangeOfAppend
    <3>3. closed_fds' = IF grows THEN Append(now.closed, slot) ELSE now.closed
      BY <2>1 DEF Pushed, slot
    <3>4. closed_fds' \in Seq(S)
          /\ Range(closed_fds') = Range(now.closed) \cup (IF grows THEN {slot} ELSE {})
      BY <3>1, <3>2, <3>3
    <3> QED BY <3>4 DEF S, slot
  <2>6. Intact' /\ Abstract!KeepAllocs
    BY <1>1, <2>4, <2>5, IntactFds
  <2>7. /\ Range(fds)' = Abstract!SettledFds(ev) \ {e}
        /\ Range(closed_fds)' =
             Abstract!SettledClosed(ev) \cup (IF grows THEN {<<ev.pid, ev.fd>>} ELSE {})
        /\ e \in Abstract!Entries(Abstract!SettledFds(ev), ev.pid, ev.fd)
    BY <1>5, <1>6, <1>8, <2>1, <2>3, <2>5
  <2> HIDE DEF e
  <2>8. Abstract!FdClose(ev)
    BY <1>1, <1>2, <2>1, <2>6, <2>7 DEF Abstract!FdClose
  <2> QED BY <2>6, <2>8
<1> QED BY <1>7, <1>8

\* What a table gains for a block.
Added(pid, ptr, grows, copied) ==
    IF grows THEN {[pid |-> pid, ptr |-> IF copied THEN ptr ELSE Null,
                    sequence |-> Abstract!Sequence]}
    ELSE {}

\* It is what Replay says, and the table stays in order if nothing failed.
LEMMA GainMeaning ==
    ASSUME NEW array \in Seq(Abstract!Alloc), NEW pid \in Pid, NEW ptr \in Ptr \cup {Null},
           Outcomes \subseteq BOOLEAN, NEW grows \in Outcomes, NEW copied \in Outcomes,
           Len(resources) \in Nat
    PROVE  LET gain == Gain(array, pid, ptr, grows, copied)
           IN  /\ gain \in Seq(Abstract!Alloc)
               /\ \A x : x \in Range(gain) <=>
                          x \in Range(array) \/ x \in Added(pid, ptr, grows, copied)
               /\ grows /\ copied /\ ptr \in Ptr /\ BlockTable(array, Len(resources)) =>
                    BlockTable(gain, Len(resources) + 1)
<1> DEFINE a(p) == [pid |-> pid, ptr |-> p, sequence |-> Abstract!Sequence]
           address == IF copied THEN ptr ELSE Null
           gain == Gain(array, pid, ptr, grows, copied)
<1>1. \A p \in Ptr \cup {Null} :
        a(p) \in Abstract!Alloc /\ a(p).ptr = p /\ a(p).sequence = Len(resources) + 1
  BY DEF Abstract!Alloc, Abstract!Sequence
<1>2. Added(pid, ptr, grows, copied) = IF grows THEN {a(address)} ELSE {}
  BY DEF Added
<1>3. gain = IF grows THEN Append(array, a(address)) ELSE array
  BY DEF Gain, Pushed
<1>4. \A p \in Ptr \cup {Null} :
        /\ Append(array, a(p)) \in Seq(Abstract!Alloc)
        /\ Range(Append(array, a(p))) = Range(array) \cup {a(p)}
  BY <1>1, RangeOfAppend
<1>5. \A p \in Ptr : BlockTable(array, Len(resources)) =>
                       BlockTable(Append(array, a(p)), Len(resources) + 1)
  BY <1>1, BlockAppend
<1>6. address \in Ptr \cup {Null} /\ (copied => address = ptr)
  OBVIOUS
<1> HIDE DEF a, address
<1>7. CASE grows
  <2>1. gain = Append(array, a(address)) /\ Added(pid, ptr, grows, copied) = {a(address)}
    BY <1>2, <1>3, <1>7
  <2> HIDE DEF gain
  <2>2. /\ gain \in Seq(Abstract!Alloc)
        /\ Range(gain) = Range(array) \cup Added(pid, ptr, grows, copied)
        /\ copied /\ ptr \in Ptr /\ BlockTable(array, Len(resources)) =>
             BlockTable(gain, Len(resources) + 1)
    BY <1>4, <1>5, <1>6, <2>1
  <2> QED BY <2>2 DEF gain
<1>8. CASE ~grows
  <2>1. gain = array /\ Added(pid, ptr, grows, copied) = {}
    BY <1>2, <1>3, <1>8
  <2> HIDE DEF gain
  <2>2. gain \in Seq(Abstract!Alloc) /\ Range(gain) = Range(array) \cup Added(pid, ptr, grows, copied)
    BY <2>1
  <2> QED BY <1>8, <2>2 DEF gain
<1> QED BY <1>7, <1>8

LEMMA AddedMeaning ==
    ASSUME Outcomes \subseteq BOOLEAN, NEW grows \in Outcomes, NEW copied \in Outcomes,
           NEW both \in Outcomes, both <=> (grows /\ copied), NEW pid, NEW ptr
    PROVE  Added(pid, ptr, grows, copied) \in Abstract!Gained(pid, ptr, both)
BY DEF Added, Abstract!Gained

\* A record that leaves descriptors and findings alone.
LEMMA IntactBlocks ==
    ASSUME ArraysAssumption, resources \in Seq(Inputs), Intact, NEW ev \in Inputs,
           NEW now, Settled(ev, now), Stored(ev, now), Tables(now),
           BlockTable(allocs', Len(resources')), freed_allocs' \in Seq(Abstract!Alloc),
           findings' = findings
    PROVE  Intact'
<1>1. Table(now.fds, Len(resources')) /\ Stack(findings, resources')
  BY StoredMeaning DEF Settled
<1>2. now.closed \in Seq(Pid \X Fd)
  BY StatesMeaning DEF Settled
<1>3. Table(fds', Len(resources')) /\ Stack(findings', resources') /\ closed_fds' \in Seq(Pid \X Fd)
  BY <1>1, <1>2 DEF Tables
<1> QED BY <1>3 DEF Intact

LEMMA SettleStep ==
    ASSUME NEW ev, NEW now, Settled(ev, now), Tables(now)
    PROVE  Abstract!Settle(ev)
<1>1. Range(fds') = Abstract!SettledFds(ev) /\ Range(closed_fds') = Abstract!SettledClosed(ev)
  BY DEF Settled, Tables
<1> QED BY <1>1 DEF Abstract!Settle

LEMMA AllocStep ==
    ASSUME ArraysAssumption, resources \in Seq(Inputs), Intact, NEW ev \in Inputs,
           NEW now, Settled(ev, now), Stored(ev, now), AllocStore(ev, now)
    PROVE  Abstract!AllocStore(ev) /\ (~err' => Intact')
<1>1. PICK adopted \in Outcomes, grows \in Outcomes, copied \in Outcomes :
         /\ ev.kind = "ALLOC" /\ Tables(now)
         /\ allocs' = IF ev.ptr = Null THEN allocs ELSE Gain(allocs, ev.pid, ev.ptr, grows, copied)
         /\ err' = ~(adopted /\ (ev.ptr = Null \/ (grows /\ copied)))
         /\ freed_allocs' = freed_allocs /\ findings' = findings
  BY DEF AllocStore
<1>2. PICK both \in Outcomes : both <=> (grows /\ copied)
  BY Assumed
<1>3. /\ ev.pid \in Pid /\ ev.ptr \in Ptr \cup {Null}
      /\ Outcomes \subseteq BOOLEAN
  BY Assumed
<1>4. /\ Abstract!Stored(ev) /\ Len(resources) \in Nat /\ Len(resources') = Len(resources) + 1
      /\ BlockTable(allocs, Len(resources'))
  BY StoredMeaning
<1>5. Abstract!Settle(ev)
  BY <1>1, SettleStep
<1>6. allocs \in Seq(Abstract!Alloc) /\ BlockTable(allocs, Len(resources))
      /\ freed_allocs \in Seq(Abstract!Alloc)
  BY BlockTableMeaning DEF Intact
<1>7. CASE ev.ptr = Null
  <2>1. allocs' = allocs /\ err' = ~adopted
    BY <1>1, <1>7
  <2>2. Intact'
    BY <1>1, <1>4, <1>6, <2>1, IntactBlocks
  <2>3. Range(allocs)' = Range(allocs) /\ Range(freed_allocs)' = Range(freed_allocs)
        /\ Range(findings)' = Range(findings)
    BY <1>1, <2>1
  <2>4. Abstract!AllocStore(ev)
    BY <1>1, <1>3, <1>4, <1>5, <1>7, <2>1, <2>3 DEF Abstract!AllocStore
  <2> QED BY <2>2, <2>4
<1>8. CASE ev.ptr # Null
  <2>1. allocs' = Gain(allocs, ev.pid, ev.ptr, grows, copied) /\ err' = ~(adopted /\ both)
    BY <1>1, <1>2, <1>8
  <2>2. /\ \E new \in Abstract!Gained(ev.pid, ev.ptr, both) : Range(allocs') = Range(allocs) \cup new
        /\ both => BlockTable(allocs', Len(resources'))
    <3> DEFINE new == Added(ev.pid, ev.ptr, grows, copied)
    <3>1. ev.ptr \in Ptr
      BY <1>3, <1>8
    <3>2. new \in Abstract!Gained(ev.pid, ev.ptr, both)
      BY <1>2, <1>3, AddedMeaning
    <3> DEFINE gain == Gain(allocs, ev.pid, ev.ptr, grows, copied)
    <3>5. ev.pid \in Pid /\ ev.ptr \in Ptr \cup {Null} /\ allocs \in Seq(Abstract!Alloc)
          /\ Outcomes \subseteq BOOLEAN /\ Len(resources) \in Nat
      BY <1>3, <1>4, <1>6
    <3>6. /\ gain \in Seq(Abstract!Alloc)
          /\ \A x : x \in Range(gain) <=> x \in Range(allocs) \/ x \in new
      BY ONLY <3>5, GainMeaning
    <3>8. Range(gain) = Range(allocs) \cup new
      BY <3>6
    <3>7. grows /\ copied /\ ev.ptr \in Ptr /\ BlockTable(allocs, Len(resources)) =>
           BlockTable(gain, Len(resources) + 1)
      BY ONLY <3>5, GainMeaning
    <3> HIDE DEF gain, new
    <3>3. allocs' = gain
      BY <2>1 DEF gain
    <3> QED BY <1>2, <1>4, <1>6, <3>1, <3>2, <3>3, <3>7, <3>8
  <2>3. ~err' => Intact'
    BY <1>1, <1>6, <2>1, <2>2, IntactBlocks
  <2>4. Range(freed_allocs)' = Range(freed_allocs) /\ Range(findings)' = Range(findings)
    BY <1>1
  <2>5. \E new \in Abstract!Gained(ev.pid, ev.ptr, both) : Range(allocs)' = Range(allocs) \cup new
    BY <2>2
  <2>6. Abstract!AllocStore(ev)
    BY <1>1, <1>3, <1>4, <1>5, <1>8, <2>1, <2>4, <2>5 DEF Abstract!AllocStore
  <2> QED BY <2>3, <2>6
<1> QED BY <1>7, <1>8

LEMMA FreeStep ==
    ASSUME ArraysAssumption, resources \in Seq(Inputs), Intact, NEW ev \in Inputs,
           NEW now, Settled(ev, now), Stored(ev, now), Free(ev, now)
    PROVE  (Abstract!FreeBlock(ev) \/ Abstract!FreeStray(ev)) /\ Intact'
<1> DEFINE at == BlockIndex(ev.pid, ev.ptr)
<1>1. PICK adopted \in Outcomes, grows \in Outcomes, copied \in Outcomes :
         /\ ev.kind = "FREE" /\ Tables(now)
         /\ IF at = 0
              THEN KeepAllocs /\ err' = ~adopted
              ELSE /\ allocs' = Drop(allocs, at)
                   /\ freed_allocs' = Gain(freed_allocs, ev.pid, ev.ptr, grows, copied)
                   /\ err' = ~(adopted /\ grows /\ copied)
         /\ findings' = findings
  BY DEF Free
<1>2. PICK both \in Outcomes : both <=> (grows /\ copied)
  BY Assumed
<1>3. /\ ev.pid \in Pid /\ ev.ptr \in Ptr \cup {Null}
      /\ Outcomes \subseteq BOOLEAN
  BY Assumed
<1>4. /\ Abstract!Stored(ev) /\ Len(resources) \in Nat /\ Len(resources') = Len(resources) + 1
      /\ BlockTable(allocs, Len(resources'))
  BY StoredMeaning
<1>5. Abstract!Settle(ev)
  BY <1>1, SettleStep
<1>6. allocs \in Seq(Abstract!Alloc) /\ freed_allocs \in Seq(Abstract!Alloc)
  BY BlockTableMeaning DEF Intact
<1>7. /\ at \in 0 .. Len(allocs) /\ Len(allocs) \in Nat
      /\ at = 0 <=> Abstract!Blocks(ev.pid, ev.ptr) = {}
      /\ at # 0 => allocs[at] \in Abstract!Blocks(ev.pid, ev.ptr)
  BY <1>6, BlockIndexMeaning, RangeMeaning
<1> HIDE DEF at
<1>8. CASE at = 0
  <2>1. allocs' = allocs /\ freed_allocs' = freed_allocs /\ err' = ~adopted
    BY <1>1, <1>8 DEF KeepAllocs
  <2>2. Intact'
    BY <1>1, <1>4, <1>6, <2>1, IntactBlocks
  <2>3. Abstract!FreeStray(ev)
    BY <1>1, <1>4, <1>5, <1>7, <1>8, <2>1 DEF Abstract!FreeStray, Abstract!KeepAllocs
  <2> QED BY <2>2, <2>3
<1>9. CASE at # 0
  <2>1. /\ allocs' = Drop(allocs, at)
        /\ freed_allocs' = Gain(freed_allocs, ev.pid, ev.ptr, grows, copied)
        /\ err' = ~(adopted /\ both)
    BY <1>1, <1>2, <1>9
  <2>2. at \in 1 .. Len(allocs)
    BY <1>7, <1>9
  <2>3. BlockTable(allocs', Len(resources')) /\ Range(allocs') = Range(allocs) \ {allocs[at]}
    BY <1>4, <2>1, <2>2, BlockDrop
  <2>4. /\ freed_allocs' \in Seq(Abstract!Alloc)
        /\ \E new \in Abstract!Gained(ev.pid, ev.ptr, both) :
             Range(freed_allocs') = Range(freed_allocs) \cup new
    <3> DEFINE new == Added(ev.pid, ev.ptr, grows, copied)
    <3>2. new \in Abstract!Gained(ev.pid, ev.ptr, both)
      BY <1>2, <1>3, AddedMeaning
    <3> DEFINE gain == Gain(freed_allocs, ev.pid, ev.ptr, grows, copied)
    <3>5. ev.pid \in Pid /\ ev.ptr \in Ptr \cup {Null} /\ freed_allocs \in Seq(Abstract!Alloc)
          /\ Outcomes \subseteq BOOLEAN /\ Len(resources) \in Nat
      BY <1>3, <1>4, <1>6
    <3>6. /\ gain \in Seq(Abstract!Alloc)
          /\ \A x : x \in Range(gain) <=> x \in Range(freed_allocs) \/ x \in new
      BY ONLY <3>5, GainMeaning
    <3>8. Range(gain) = Range(freed_allocs) \cup new
      BY <3>6
    <3>7. grows /\ copied /\ ev.ptr \in Ptr /\ BlockTable(freed_allocs, Len(resources)) =>
           BlockTable(gain, Len(resources) + 1)
      BY ONLY <3>5, GainMeaning
    <3> HIDE DEF gain, new
    <3>3. freed_allocs' = gain
      BY <2>1 DEF gain
    <3> QED BY <3>2, <3>3, <3>6, <3>8
  <2>5. Intact'
    BY <1>1, <2>3, <2>4, IntactBlocks
  <2>6. /\ \E a \in Abstract!Blocks(ev.pid, ev.ptr) : Range(allocs)' = Range(allocs) \ {a}
        /\ \E new \in Abstract!Gained(ev.pid, ev.ptr, both) :
             Range(freed_allocs)' = Range(freed_allocs) \cup new
        /\ Range(findings)' = Range(findings)
    BY <1>1, <1>7, <1>9, <2>3, <2>4
  <2>7. Abstract!FreeBlock(ev)
    BY <1>1, <1>3, <1>4, <1>5, <2>1, <2>6 DEF Abstract!FreeBlock
  <2> QED BY <2>5, <2>7
<1> QED BY <1>8, <1>9

LEMMA ReallocStep ==
    ASSUME ArraysAssumption, resources \in Seq(Inputs), Intact, NEW ev \in Inputs,
           NEW now, Settled(ev, now), Stored(ev, now), Realloc(ev, now)
    PROVE  Abstract!Realloc(ev) /\ (~err' => Intact')
<1> DEFINE at == IF ev.ptr = Null THEN 0 ELSE BlockIndex(ev.pid, ev.ptr)
           left == IF at = 0 THEN allocs ELSE Drop(allocs, at)
           old == IF at = 0 THEN {} ELSE {allocs[at]}
<1>1. PICK adopted \in Outcomes, grows \in Outcomes, copied \in Outcomes :
         /\ ev.kind = "REALLOC" /\ Tables(now)
         /\ allocs' = IF ev.new_ptr = Null THEN left ELSE Gain(left, ev.pid, ev.new_ptr, grows, copied)
         /\ err' = ~(adopted /\ (ev.new_ptr = Null \/ (grows /\ copied)))
         /\ freed_allocs' = freed_allocs /\ findings' = findings
  BY DEF Realloc
<1>2. PICK both \in Outcomes : both <=> (grows /\ copied)
  BY Assumed
<1>3. /\ ev.pid \in Pid /\ ev.new_ptr \in Ptr \cup {Null}
      /\ Outcomes \subseteq BOOLEAN
  BY Assumed
<1>4. /\ Abstract!Stored(ev) /\ Len(resources) \in Nat /\ Len(resources') = Len(resources) + 1
  BY StoredMeaning
<1>5. Abstract!Settle(ev)
  BY <1>1, SettleStep
<1>6. /\ allocs \in Seq(Abstract!Alloc) /\ freed_allocs \in Seq(Abstract!Alloc)
      /\ BlockTable(allocs, Len(resources))
  BY BlockTableMeaning DEF Intact
<1>7. /\ at \in 0 .. Len(allocs) /\ Len(allocs) \in Nat
      /\ at = 0 <=> Abstract!Blocks(ev.pid, ev.ptr) = {}
      /\ at # 0 => allocs[at] \in Abstract!Blocks(ev.pid, ev.ptr)
  <2>1. Len(allocs) \in Nat
    BY <1>6, RangeMeaning
  <2>2. CASE ev.ptr = Null
    <3>1. \A i \in 1 .. Len(allocs) : allocs[i].ptr # Null
      BY <1>6 DEF BlockTable, ArraysAssumption, Abstract!ReplayAssumption
    <3>2. Abstract!Blocks(ev.pid, ev.ptr) = {}
      BY <1>6, <2>2, <3>1, RangeMeaning DEF Abstract!Blocks
    <3> QED BY <2>1, <2>2, <3>2
  <2>3. CASE ev.ptr # Null
    BY <1>6, <2>1, <2>3, BlockIndexMeaning
  <2> QED BY <2>2, <2>3
<1>8. /\ left \in Seq(Abstract!Alloc) /\ BlockTable(left, Len(resources))
      /\ Range(left) = Range(allocs) \ old
      /\ old \in SUBSET Abstract!Blocks(ev.pid, ev.ptr)
      /\ (old = {}) <=> (Abstract!Blocks(ev.pid, ev.ptr) = {})
      /\ \A a, b \in old : a = b
  <2> HIDE DEF at
  <2>1. CASE at = 0
    BY <1>6, <1>7, <2>1
  <2>2. CASE at # 0
    <3>1. at \in 1 .. Len(allocs)
      BY <1>7, <2>2
    <3>2. BlockTable(Drop(allocs, at), Len(resources))
          /\ Range(Drop(allocs, at)) = Range(allocs) \ {allocs[at]}
      BY <1>6, <3>1, BlockDrop
    <3>3. Drop(allocs, at) \in Seq(Abstract!Alloc)
      BY <3>2, BlockTableMeaning
    <3> QED BY <1>7, <2>2, <3>2, <3>3
  <2> QED BY <2>1, <2>2
<1> HIDE DEF at, left, old
<1>9. /\ \E new \in IF ev.new_ptr = Null THEN {{}} ELSE Abstract!Gained(ev.pid, ev.new_ptr, both) :
           Range(allocs') = (Range(allocs) \ old) \cup new
      /\ err' = ~(adopted /\ (ev.new_ptr = Null \/ both))
      /\ ~err' => BlockTable(allocs', Len(resources'))
  <2>1. err' = ~(adopted /\ (ev.new_ptr = Null \/ both))
    BY <1>1, <1>2
  <2>2. CASE ev.new_ptr = Null
    <3>1. allocs' = left /\ BlockTable(left, Len(resources) + 1)
      BY <1>1, <1>4, <1>8, <2>2, BlockLater
    <3> QED BY <1>4, <1>8, <2>1, <2>2, <3>1
  <2>3. CASE ev.new_ptr # Null
    <3>1. allocs' = Gain(left, ev.pid, ev.new_ptr, grows, copied)
      BY <1>1, <2>3
    <3>2. /\ \E new \in Abstract!Gained(ev.pid, ev.new_ptr, both) : Range(allocs') = Range(left) \cup new
          /\ both => BlockTable(allocs', Len(resources'))
      <4> DEFINE new == Added(ev.pid, ev.new_ptr, grows, copied)
      <4>1. ev.new_ptr \in Ptr
        BY <1>3, <2>3
      <4>2. new \in Abstract!Gained(ev.pid, ev.new_ptr, both)
        BY <1>2, <1>3, AddedMeaning
      <4> DEFINE gain == Gain(left, ev.pid, ev.new_ptr, grows, copied)
      <4>5. ev.pid \in Pid /\ ev.new_ptr \in Ptr \cup {Null} /\ left \in Seq(Abstract!Alloc)
            /\ Outcomes \subseteq BOOLEAN /\ Len(resources) \in Nat
        BY <1>3, <1>4, <1>8
      <4>6. /\ gain \in Seq(Abstract!Alloc)
            /\ \A x : x \in Range(gain) <=> x \in Range(left) \/ x \in new
        BY ONLY <4>5, GainMeaning
      <4>8. Range(gain) = Range(left) \cup new
        BY <4>6
      <4>7. grows /\ copied /\ ev.new_ptr \in Ptr /\ BlockTable(left, Len(resources)) =>
             BlockTable(gain, Len(resources) + 1)
        BY ONLY <4>5, GainMeaning
      <4> HIDE DEF gain, new
      <4>3. allocs' = gain
        BY <3>1 DEF gain
      <4> QED BY <1>2, <1>4, <1>8, <4>1, <4>2, <4>3, <4>7, <4>8
    <3> QED BY <1>8, <2>1, <2>3, <3>2
  <2> QED BY <2>2, <2>3
<1>10. ~err' => Intact'
  BY <1>1, <1>6, <1>9, IntactBlocks
<1>11. /\ Range(freed_allocs)' = Range(freed_allocs) /\ Range(findings)' = Range(findings)
       /\ \E new \in IF ev.new_ptr = Null THEN {{}} ELSE Abstract!Gained(ev.pid, ev.new_ptr, both) :
            Range(allocs)' = (Range(allocs) \ old) \cup new
  BY <1>1, <1>9
<1>12. Abstract!Realloc(ev)
  BY <1>1, <1>3, <1>4, <1>5, <1>8, <1>9, <1>11 DEF Abstract!Realloc
<1> QED BY <1>10, <1>12

LEMMA ForkStep ==
    ASSUME ArraysAssumption, resources \in Seq(Inputs), Intact, NEW ev \in Inputs,
           NEW now, Settled(ev, now), Stored(ev, now), Fork(ev, now)
    PROVE  Abstract!Fork(ev) /\ Intact'
<1>1. PICK adopted \in Outcomes, granted \in Granted :
         LET after == Inherit(ev, [now EXCEPT !.err = ~adopted, !.granted = granted])
         IN  /\ ev.kind = "FORK"
             /\ Tables(after)
             /\ err' = after.err
             /\ KeepAllocs /\ findings' = findings
  BY DEF Fork
<1> DEFINE start == [now EXCEPT !.err = ~adopted, !.granted = granted]
           after == Inherit(ev, start)
           table == Abstract!SettledFds(ev)
           all == Abstract!Inherited(ev, table)
<1>2. /\ Abstract!Stored(ev) /\ Len(resources) \in Nat
      /\ Len(resources') = Len(resources) + 1
  BY StoredMeaning
<1>3. /\ ev.pid \in Pid /\ ev.child_pid \in Pid /\ adopted \in BOOLEAN /\ granted \in Nat
      /\ FALSE \in Outcomes
  BY <1>1, Assumed
<1>4. /\ start \in States /\ start.fds = now.fds /\ start.closed = now.closed
      /\ start.err = ~adopted
  BY <1>3 DEF Settled, States
<1>5. /\ Table(now.fds, Len(resources)) /\ Range(now.fds) = table
      /\ Range(now.closed) = Abstract!SettledClosed(ev)
  BY DEF Settled
<1>6. /\ ev.kind = "FORK" /\ fds' = after.fds /\ closed_fds' = after.closed
      /\ err' = after.err /\ KeepAllocs /\ findings' = findings
  BY <1>1 DEF Tables
<1> HIDE DEF start, after
<1>7. /\ after \in States /\ Table(after.fds, Len(resources) + 1) /\ after.closed = start.closed
      /\ \E given \in SUBSET ToGive(ev, start) : \E source \in [given -> Range(start.fds)] :
           /\ \A d \in given : source[d] \in Abstract!Entries(Range(start.fds), ev.pid, d)
           /\ Range(after.fds) = Range(start.fds) \cup Gifts(ev, given, source)
           /\ start.err => given = {}
           /\ after.err <=> ~(~start.err /\ given = ToGive(ev, start))
  <2>1. Table(start.fds, Len(resources))
    BY <1>4, <1>5
  <2> QED BY <1>2, <1>3, <1>4, <2>1, InheritMeaning DEF after
<1>8. ToGive(ev, start) = all
  BY <1>4, <1>5 DEF ToGive, Abstract!Inherited
<1>9. PICK given \in SUBSET all : \E source \in [given -> table] :
        /\ \A d \in given : source[d] \in Abstract!Entries(table, ev.pid, d)
        /\ Range(after.fds) = table \cup Gifts(ev, given, source)
        /\ start.err => given = {}
        /\ after.err <=> ~(~start.err /\ given = all)
  BY <1>4, <1>5, <1>7, <1>8
<1>10. PICK source \in [given -> table] :
        /\ \A d \in given : source[d] \in Abstract!Entries(table, ev.pid, d)
        /\ Range(after.fds) = table \cup Gifts(ev, given, source)
        /\ start.err => given = {}
        /\ after.err <=> ~(~start.err /\ given = all)
  BY <1>9
<1>11. Intact' /\ Abstract!KeepAllocs
  <2>1. closed_fds' \in Seq(Pid \X Fd) /\ Table(fds', Len(resources'))
    BY <1>2, <1>6, <1>7, StatesMeaning
  <2> QED BY <1>6, <2>1, IntactFds
<1>12. /\ Range(fds)' = table \cup
             {Abstract!NewFd(ev.child_pid, d, source[d].site) : d \in given}
       /\ Range(closed_fds)' = Abstract!SettledClosed(ev)
       /\ Range(findings)' = Range(findings)
  BY <1>4, <1>5, <1>6, <1>7, <1>10 DEF Gifts
<1>13. given \in IF ~adopted THEN {{}} ELSE IF FALSE \in Outcomes THEN SUBSET all ELSE {all}
  BY <1>3, <1>4, <1>10
<1>14. err' = ~(adopted /\ given = all)
  <2>1. after.err \in BOOLEAN
    BY <1>7, StatesMeaning
  <2> QED BY <1>3, <1>4, <1>6, <1>10, <2>1
<1> HIDE DEF table, all
<1>15. Abstract!Fork(ev)
  BY <1>1, <1>2, <1>6, <1>10, <1>11, <1>12, <1>13, <1>14 DEF Abstract!Fork, table, all
<1> QED BY <1>11, <1>15

LEMMA OtherStep ==
    ASSUME ArraysAssumption, resources \in Seq(Inputs), Intact, NEW ev \in Inputs,
           NEW now, Settled(ev, now), Stored(ev, now), Other(ev, now)
    PROVE  (Abstract!Spawn(ev) \/ Abstract!Generic(ev)) /\ Intact'
<1>1. PICK adopted \in Outcomes :
         /\ ev.kind \in {"SPAWN", "GENERIC"}
         /\ Tables(now)
         /\ err' = (ev.kind = "GENERIC" /\ ~adopted)
         /\ KeepAllocs /\ findings' = findings
  BY DEF Other
<1>2. /\ Abstract!Stored(ev)
      /\ \A table : Table(table, Len(resources)) => Table(table, Len(resources'))
  BY StoredMeaning
<1>3. Abstract!Settle(ev)
  BY <1>1, SettleStep
<1>4. Table(fds', Len(resources')) /\ closed_fds' \in Seq(Pid \X Fd)
  BY <1>1, <1>2, StatesMeaning DEF Settled, Tables
<1>5. Intact' /\ Abstract!KeepAllocs
  BY <1>1, <1>4, IntactFds
<1>6. CASE ev.kind = "SPAWN"
  <2>1. ~err' /\ err' = FALSE
    BY <1>1, <1>6
  <2>2. Abstract!Spawn(ev)
    BY <1>1, <1>2, <1>3, <1>5, <1>6, <2>1 DEF Abstract!Spawn
  <2> QED BY <1>5, <2>2
<1>7. CASE ev.kind = "GENERIC"
  <2>1. err' = ~adopted
    BY <1>1, <1>7
  <2>2. Abstract!Generic(ev)
    BY <1>1, <1>2, <1>3, <1>5, <1>7, <2>1 DEF Abstract!Generic
  <2> QED BY <1>5, <2>2
<1> QED BY <1>1, <1>6, <1>7

LEMMA ExecStep ==
    ASSUME ArraysAssumption, resources \in Seq(Inputs), Intact, NEW ev \in Inputs,
           NEW now, Settled(ev, now), Stored(ev, now), Exec(ev, now)
    PROVE  /\ Abstract!Exec(ev) \/ Abstract!ExecUnknown(ev)
           /\ Intact'
           /\ findings' = findings \/ \E f \in Abstract!Finding : findings' = Append(findings, f)
<1> DEFINE at == FdIndex(now.fds, ev.pid, ev.fd)
           e == now.fds[at]
           marked == [e EXCEPT !.exec_pending = TRUE, !.exec_cloexec = ev.cloexec,
                               !.exec_sequence = Abstract!Sequence]
           f == Abstract!InheritFinding(ev, e)
<1>1. PICK adopted \in Outcomes, grows \in Outcomes :
         /\ ev.kind = "EXEC"
         /\ fds' = IF at = 0 THEN now.fds
                   ELSE [now.fds EXCEPT ![at].exec_pending = TRUE,
                                        ![at].exec_cloexec = ev.cloexec,
                                        ![at].exec_sequence = Abstract!Sequence]
         /\ closed_fds' = now.closed
         /\ findings' = Pushed(findings, f, at # 0 /\ ~ev.cloexec /\ adopted /\ grows)
         /\ err' = ~(adopted /\ (at # 0 /\ ~ev.cloexec => grows))
         /\ KeepAllocs
  BY DEF Exec, Abstract!ExecInherits
<1>2. /\ Abstract!Stored(ev) /\ Len(resources) \in Nat /\ Len(resources') = Len(resources) + 1
      /\ resources' = Append(resources, ev)
      /\ \A table : Table(table, Len(resources)) => Table(table, Len(resources'))
      /\ BlockTable(allocs, Len(resources')) /\ Stack(findings, resources')
  BY StoredMeaning
<1>3. /\ ev.pid \in Pid /\ ev.fd \in Fd /\ ev.cloexec \in BOOLEAN /\ ev.site \in Site
      /\ ev.target \in Target \cup {Null} /\ adopted \in BOOLEAN /\ grows \in BOOLEAN
  BY <1>1, Assumed
<1>4. now.fds \in Seq(Abstract!LiveFd) /\ now.closed \in Seq(Pid \X Fd)
  BY StatesMeaning DEF Settled
<1>5. /\ at \in 0 .. Len(now.fds) /\ Len(now.fds) \in Nat
      /\ at = 0 <=> Abstract!Entries(Range(now.fds), ev.pid, ev.fd) = {}
      /\ at # 0 => e \in Abstract!Entries(Range(now.fds), ev.pid, ev.fd)
  BY <1>4, FdIndexMeaning, RangeMeaning
<1>6. Table(now.fds, Len(resources)) /\ Range(now.fds) = Abstract!SettledFds(ev)
      /\ Range(now.closed) = Abstract!SettledClosed(ev)
  BY DEF Settled
<1>7. /\ closed_fds' = now.closed /\ closed_fds' \in Seq(Pid \X Fd)
      /\ Range(closed_fds)' = Abstract!SettledClosed(ev)
      /\ BlockTable(allocs', Len(resources')) /\ freed_allocs' \in Seq(Abstract!Alloc)
      /\ Abstract!KeepAllocs
  BY <1>1, <1>2, <1>4, <1>6 DEF KeepAllocs, Abstract!KeepAllocs, Intact
<1> HIDE DEF at
<1>8. CASE at = 0
  <2>1. fds' = now.fds /\ err' = ~adopted /\ findings' = findings
    BY <1>1, <1>3, <1>8 DEF Pushed
  <2>2. Intact'
    BY <1>2, <1>6, <1>7, <2>1 DEF Intact
  <2>3. Range(fds)' = Abstract!SettledFds(ev) /\ Range(findings)' = Range(findings)
    BY <1>6, <2>1
  <2>4. Abstract!ExecUnknown(ev)
    BY <1>1, <1>2, <1>5, <1>6, <1>7, <1>8, <2>1, <2>3
    DEF Abstract!ExecUnknown, Abstract!Settle
  <2> QED BY <2>1, <2>2, <2>4
<1>9. CASE at # 0
  <2>1. at \in 1 .. Len(now.fds)
    BY <1>5, <1>9
  <2>2. e \in Abstract!LiveFd /\ e \in Range(now.fds) /\ e.pid = ev.pid /\ e.fd = ev.fd
        /\ e \in Abstract!Entries(Abstract!SettledFds(ev), ev.pid, ev.fd)
    BY <1>4, <1>5, <1>6, <1>9, <2>1, RangeMeaning DEF Abstract!Entries
  <2>3. marked \in Abstract!LiveFd /\ marked.pid = e.pid /\ marked.fd = e.fd
        /\ marked.sequence = e.sequence
    <3>1. Abstract!Sequence \in Nat
      BY <1>2 DEF Abstract!Sequence
    <3> HIDE DEF e
    <3> QED BY <1>3, <2>2, <3>1 DEF Abstract!LiveFd
  <2>4. fds' = [now.fds EXCEPT ![at] = marked]
    BY <1>1, <1>9
  <2>5. Range(fds') = (Range(now.fds) \ {e}) \cup {marked}
    <3>1. Once(now.fds)
      BY <1>6, TableOnce
    <3> HIDE DEF marked
    <3>2. Range([now.fds EXCEPT ![at] = marked])
            = (Range(now.fds) \ {now.fds[at]}) \cup {marked}
      BY <1>4, <2>1, <2>3, <3>1, PutRange, SMTT(30)
    <3> QED BY <2>4, <3>2
  <2>6. Table(fds', Len(resources'))
    <3>1. Table([now.fds EXCEPT ![at] = marked], Len(resources))
      <4> HIDE DEF marked
      <4> QED BY <1>6, <2>1, <2>3, TablePut
    <3> QED BY <1>2, <2>4, <3>1
  <2>7. /\ f \in Abstract!Finding /\ f.kind = "EXEC_INHERIT" /\ f.sequence = Len(resources) + 1
        /\ f.pid = ev.pid /\ f.target = ev.target
    <3>1. e.site \in Site /\ e.sequence \in Nat
      BY <2>2 DEF Abstract!LiveFd
    <3> HIDE DEF e
    <3> QED BY <1>2, <1>3, <3>1 DEF Abstract!InheritFinding, Abstract!Finding, Abstract!Sequence
  <2>8. Range(fds)' = (Abstract!SettledFds(ev) \ {e}) \cup {marked}
    BY <1>6, <2>5
  <2> HIDE DEF f
  <2>9. CASE ev.cloexec \/ ~adopted \/ ~grows
    <3>1. findings' = findings
      BY <1>1, <2>9 DEF Pushed
    <3>2. Intact'
      BY <1>2, <1>7, <2>6, <3>1 DEF Intact
    <3>3. IF ~Abstract!ExecInherits(ev.cloexec)
            THEN Range(findings)' = Range(findings) /\ err' = ~adopted
            ELSE /\ err' = ~(adopted /\ grows)
                 /\ Range(findings)' = Range(findings)
                      \cup (IF adopted /\ grows THEN {Abstract!InheritFinding(ev, e)} ELSE {})
      BY <1>1, <1>3, <1>9, <2>9, <3>1 DEF Abstract!ExecInherits
    <3> HIDE DEF e
    <3>4. Abstract!Exec(ev)
      BY <1>1, <1>2, <1>7, <2>2, <2>8, <3>3 DEF Abstract!Exec, marked
    <3> QED BY <3>1, <3>2, <3>4
  <2>10. CASE ~(ev.cloexec \/ ~adopted \/ ~grows)
    <3>1. findings' = Append(findings, f) /\ err' = FALSE
      BY <1>1, <1>9, <2>10 DEF Pushed
    <3>2. Stack(findings', resources')
      BY <1>1, <1>2, <2>7, <3>1, StackPush DEF Intact
    <3>3. Intact'
      BY <1>7, <2>6, <3>2 DEF Intact
    <3>4. Range(findings') = Range(findings) \cup {f}
      <4>1. findings \in Seq(Abstract!Finding)
        BY DEF Intact, Stack
      <4> QED BY <2>7, <3>1, <4>1, RangeOfAppend
    <3>5. IF ~Abstract!ExecInherits(ev.cloexec)
            THEN Range(findings)' = Range(findings) /\ err' = ~adopted
            ELSE /\ err' = ~(adopted /\ grows)
                 /\ Range(findings)' = Range(findings)
                      \cup (IF adopted /\ grows THEN {Abstract!InheritFinding(ev, e)} ELSE {})
      BY <1>1, <1>3, <1>9, <2>10, <3>1, <3>4 DEF Abstract!ExecInherits, f
    <3> HIDE DEF e
    <3>6. Abstract!Exec(ev)
      BY <1>1, <1>2, <1>7, <2>2, <2>8, <3>5 DEF Abstract!Exec, marked
    <3> QED BY <2>7, <3>1, <3>3, <3>6
  <2> QED BY <2>9, <2>10
<1> QED BY <1>8, <1>9

LEMMA ExecFailStep ==
    ASSUME ArraysAssumption, resources \in Seq(Inputs), Intact, NEW ev \in Inputs,
           NEW now, Settled(ev, now), Stored(ev, now), ExecFail(ev, now)
    PROVE  /\ Abstract!ExecFail(ev)
           /\ Intact'
           /\ \E k \in 0 .. Len(findings) : findings' = SubSeq(findings, 1, k)
<1> DEFINE failed(e) == IF e.pid = ev.pid /\ e.exec_pending THEN Abstract!Cleared(e) ELSE e
<1>1. PICK adopted \in Outcomes :
         /\ ev.kind = "EXEC_FAIL"
         /\ fds' = [i \in DOMAIN now.fds |-> failed(now.fds[i])]
         /\ closed_fds' = now.closed
         /\ findings' = Compact(ev)
         /\ err' = ~adopted
         /\ KeepAllocs
  BY DEF ExecFail
<1>2. /\ Abstract!Stored(ev) /\ Len(resources) \in Nat
      /\ \A table : Table(table, Len(resources)) => Table(table, Len(resources'))
      /\ BlockTable(allocs, Len(resources')) /\ Stack(findings, resources')
  BY StoredMeaning
<1>3. now.fds \in Seq(Abstract!LiveFd) /\ now.closed \in Seq(Pid \X Fd) /\ Len(now.fds) \in Nat
  BY StatesMeaning DEF Settled
<1>4. Table(now.fds, Len(resources)) /\ Range(now.fds) = Abstract!SettledFds(ev)
      /\ Range(now.closed) = Abstract!SettledClosed(ev)
  BY DEF Settled
<1>5. \A e \in Abstract!LiveFd : /\ failed(e) \in Abstract!LiveFd
                                 /\ failed(e).pid = e.pid /\ failed(e).fd = e.fd
                                 /\ failed(e).sequence = e.sequence
  BY ClearedMeaning
<1>6. /\ fds' \in Seq(Abstract!LiveFd) /\ Len(fds') = Len(now.fds)
      /\ \A i \in 1 .. Len(now.fds) : fds'[i] = failed(now.fds[i]) /\ now.fds[i] \in Abstract!LiveFd
  <2>1. DOMAIN now.fds = 1 .. Len(now.fds) /\ \A i \in 1 .. Len(now.fds) : now.fds[i] \in Abstract!LiveFd
    BY <1>3
  <2> HIDE DEF failed
  <2>2. fds' = [i \in 1 .. Len(now.fds) |-> failed(now.fds[i])]
    BY <1>1, <2>1
  <2>3. fds' \in Seq(Abstract!LiveFd) /\ Len(fds') = Len(now.fds)
    BY <1>3, <1>5, <2>1, <2>2
  <2> QED BY <2>1, <2>2, <2>3
<1>7. Range(fds') = {failed(e) : e \in Range(now.fds)}
  <2> HIDE DEF failed
  <2>1. ASSUME NEW x \in Range(fds') PROVE x \in {failed(e) : e \in Range(now.fds)}
    <3>1. PICK i \in 1 .. Len(now.fds) : fds'[i] = x
      BY <1>6, RangeMeaning
    <3> QED BY <1>3, <1>6, <3>1, RangeMeaning
  <2>2. ASSUME NEW e \in Range(now.fds) PROVE failed(e) \in Range(fds')
    <3>1. PICK i \in 1 .. Len(now.fds) : now.fds[i] = e
      BY <1>3, RangeMeaning
    <3> QED BY <1>6, <3>1, RangeMeaning
  <2> QED BY <2>1, <2>2
<1>8. Table(fds', Len(resources))
  <2>1. \A i \in 1 .. Len(now.fds) :
          /\ fds'[i].pid = now.fds[i].pid /\ fds'[i].fd = now.fds[i].fd
          /\ fds'[i].sequence = now.fds[i].sequence
    <3> HIDE DEF failed
    <3> QED BY <1>5, <1>6
  <2> QED BY <1>4, <1>6, <2>1 DEF Table
<1>9. PICK k \in 0 .. Len(findings) : findings' = SubSeq(findings, 1, k)
  BY <1>1, <1>2, CompactMeaning DEF Intact
<1>10. Stack(findings', resources')
  BY <1>2, <1>9, StackBeginning
<1>11. Intact' /\ Abstract!KeepAllocs
  <2>1. BlockTable(allocs', Len(resources')) /\ freed_allocs' \in Seq(Abstract!Alloc)
        /\ Abstract!KeepAllocs /\ closed_fds' \in Seq(Pid \X Fd) /\ Table(fds', Len(resources'))
    BY <1>1, <1>2, <1>3, <1>8 DEF KeepAllocs, Abstract!KeepAllocs, Intact
  <2> QED BY <1>10, <2>1 DEF Intact
<1>12. /\ Range(findings)' = {f \in Range(findings) : ~Abstract!FindingMatches(f, ev)}
       /\ Range(closed_fds)' = Abstract!SettledClosed(ev)
       /\ Range(fds)' = {IF e.pid = ev.pid /\ e.exec_pending THEN Abstract!Cleared(e) ELSE e
                           : e \in Abstract!SettledFds(ev)}
  BY <1>1, <1>2, <1>4, <1>7, CompactMeaning DEF Intact
<1>13. Abstract!ExecFail(ev)
  BY <1>1, <1>2, <1>11, <1>12 DEF Abstract!ExecFail
<1> QED BY <1>9, <1>11, <1>13

\* The record is not stored.
LEMMA NotStoredStep ==
    ASSUME ArraysAssumption, resources \in Seq(Inputs), Intact, NEW ev \in Inputs,
           NEW granted \in Granted, NotStored(Settle(ev, granted))
    PROVE  Abstract!SettleFails(ev) \/ Abstract!StoreFails(ev)
<1> DEFINE now == Settle(ev, granted)
           P == Abstract!Settling(ev)
<1>1. /\ now.err \in BOOLEAN
      /\ ~now.err => /\ Range(now.fds) = Abstract!SettledFds(ev)
                     /\ Range(now.closed) = Abstract!SettledClosed(ev)
      /\ now.err => \E swept \in SUBSET P : \E e \in swept :
                      /\ e.exec_cloexec
                      /\ Range(now.fds) = Abstract!SweptFds(swept)
                      /\ Range(now.closed) = Abstract!SweptClosed(swept \ {e})
  <2>1. /\ Table(fds, Len(resources)) /\ Len(resources) \in Nat /\ closed_fds \in Seq(Pid \X Fd)
        /\ ev.pid \in Pid /\ granted \in Nat
    BY Assumed, RangeMeaning DEF Intact
  <2>2. /\ now \in States
        /\ ~now.err => /\ Range(now.fds) = Abstract!SettledFds(ev)
                       /\ Range(now.closed) = Abstract!SettledClosed(ev)
        /\ now.err => \E swept \in SUBSET P : \E e \in swept :
                        /\ e.exec_cloexec
                        /\ Range(now.fds) = Abstract!SweptFds(swept)
                        /\ Range(now.closed) = Abstract!SweptClosed(swept \ {e})
    BY <2>1, SettleMeaning
  <2> HIDE DEF now, P
  <2> QED BY <2>2 DEF States
<1>2. /\ Reading /\ fds' = now.fds /\ closed_fds' = now.closed /\ err' = TRUE
      /\ KeepAllocs /\ resources' = resources /\ findings' = findings
      /\ finalized' = finalized
  BY DEF NotStored, Tables
<1>3. /\ Abstract!Reading /\ Abstract!KeepAllocs /\ FALSE \in Outcomes
      /\ Range(findings)' = Range(findings)
  BY <1>2, Assumed DEF Reading, Abstract!Reading, KeepAllocs, Abstract!KeepAllocs
<1> HIDE DEF now
<1>4. Range(fds)' = Range(now.fds) /\ Range(closed_fds)' = Range(now.closed)
  BY <1>2
<1>5. CASE now.err
  <2>1. Abstract!SweepFails(P)
    BY <1>1, <1>2, <1>3, <1>4, <1>5 DEF Abstract!SweepFails
  <2> QED BY <1>2, <1>3, <2>1 DEF Abstract!SettleFails
<1>6. CASE ~now.err
  <2>1. Abstract!Settle(ev)
    BY <1>1, <1>4, <1>6 DEF Abstract!Settle
  <2> QED BY <1>2, <1>3, <2>1 DEF Abstract!StoreFails
<1> QED BY <1>1, <1>5, <1>6

\* How the array of findings may change.
StackStep ==
    \/ findings' = findings
    \/ \E f \in Abstract!Finding : findings' = Append(findings, f)
    \/ \E k \in 0 .. Len(findings) : findings' = SubSeq(findings, 1, k)
    \/ \E reported \in Seq(Abstract!Finding) : findings' = findings \o reported

LEMMA IngestStep ==
    ASSUME ArraysAssumption, resources \in Seq(Inputs), Intact, NEW ev \in Inputs,
           NEW granted \in Granted, Ingest(ev, granted)
    PROVE  /\ Abstract!Ingest(ev)
           /\ resources' \in Seq(Inputs)
           /\ ~err' => Intact'
           /\ StackStep
<1> DEFINE now == Settle(ev, granted)
<1>1. CASE NotStored(now)
  <2>1. resources' = resources /\ findings' = findings /\ err' = TRUE
    BY <1>1 DEF NotStored
  <2>2. Abstract!SettleFails(ev) \/ Abstract!StoreFails(ev)
    BY <1>1, NotStoredStep
  <2> QED BY <2>1, <2>2 DEF Abstract!Ingest, StackStep
<1>2. CASE /\ Stored(ev, now)
           /\ \/ FdOpen(ev, now) \/ FdClose(ev, now)
              \/ AllocStore(ev, now) \/ Free(ev, now) \/ Realloc(ev, now)
              \/ Fork(ev, now) \/ Exec(ev, now) \/ ExecFail(ev, now) \/ Other(ev, now)
  <2>1. Settled(ev, now)
    <3>1. /\ Table(fds, Len(resources)) /\ Len(resources) \in Nat
          /\ closed_fds \in Seq(Pid \X Fd) /\ ev.pid \in Pid /\ granted \in Nat
      BY Assumed, RangeMeaning DEF Intact
    <3>2. /\ now \in States /\ Table(now.fds, Len(resources))
          /\ ~now.err => /\ Range(now.fds) = Abstract!SettledFds(ev)
                         /\ Range(now.closed) = Abstract!SettledClosed(ev)
      BY <3>1, SettleMeaning
    <3>3. ~now.err
      BY <1>2 DEF Stored
    <3> QED BY <3>2, <3>3 DEF Settled
  <2> HIDE DEF now
  <2>2. resources' \in Seq(Inputs)
    BY <1>2, RangeOfAppend DEF Stored
  <2>3. CASE FdOpen(ev, now)
    <3>1. Abstract!FdOpen(ev) /\ (~err' => Intact')
      BY <1>2, <2>1, <2>3, FdOpenStep
    <3> QED BY <2>2, <2>3, <3>1 DEF Abstract!Ingest, StackStep, FdOpen
  <2>4. CASE FdClose(ev, now)
    <3>1. (Abstract!FdClose(ev) \/ Abstract!FdCloseStray(ev)) /\ Intact'
      BY <1>2, <2>1, <2>4, FdCloseStep
    <3> QED BY <2>2, <2>4, <3>1 DEF Abstract!Ingest, StackStep, FdClose
  <2>5. CASE AllocStore(ev, now)
    <3>1. Abstract!AllocStore(ev) /\ (~err' => Intact')
      BY <1>2, <2>1, <2>5, AllocStep
    <3> QED BY <2>2, <2>5, <3>1 DEF Abstract!Ingest, StackStep, AllocStore
  <2>6. CASE Free(ev, now)
    <3>1. (Abstract!FreeBlock(ev) \/ Abstract!FreeStray(ev)) /\ Intact'
      BY <1>2, <2>1, <2>6, FreeStep
    <3> QED BY <2>2, <2>6, <3>1 DEF Abstract!Ingest, StackStep, Free
  <2>7. CASE Realloc(ev, now)
    <3>1. Abstract!Realloc(ev) /\ (~err' => Intact')
      BY <1>2, <2>1, <2>7, ReallocStep
    <3> QED BY <2>2, <2>7, <3>1 DEF Abstract!Ingest, StackStep, Realloc
  <2>8. CASE Fork(ev, now)
    <3>1. Abstract!Fork(ev) /\ Intact'
      BY <1>2, <2>1, <2>8, ForkStep
    <3> QED BY <2>2, <2>8, <3>1 DEF Abstract!Ingest, StackStep, Fork
  <2>9. CASE Exec(ev, now)
    <3>1. /\ Abstract!Exec(ev) \/ Abstract!ExecUnknown(ev)
          /\ Intact'
          /\ findings' = findings \/ \E f \in Abstract!Finding : findings' = Append(findings, f)
      BY <1>2, <2>1, <2>9, ExecStep
    <3> QED BY <2>2, <3>1 DEF Abstract!Ingest, StackStep
  <2>10. CASE ExecFail(ev, now)
    <3>1. /\ Abstract!ExecFail(ev) /\ Intact'
          /\ \E k \in 0 .. Len(findings) : findings' = SubSeq(findings, 1, k)
      BY <1>2, <2>1, <2>10, ExecFailStep
    <3> QED BY <2>2, <3>1 DEF Abstract!Ingest, StackStep
  <2>11. CASE Other(ev, now)
    <3>1. (Abstract!Spawn(ev) \/ Abstract!Generic(ev)) /\ Intact'
      BY <1>2, <2>1, <2>11, OtherStep
    <3> QED BY <2>2, <2>11, <3>1 DEF Abstract!Ingest, StackStep, Other
  <2> QED BY <1>2, <2>3, <2>4, <2>5, <2>6, <2>7, <2>8, <2>9, <2>10, <2>11
<1> QED BY <1>1, <1>2 DEF Ingest

-----------------------------------------------------------------------------
(* The end of the stream.                                                  *)

LEMMA RangeOfConcat ==
    ASSUME NEW S, NEW s \in Seq(S), NEW t \in Seq(S)
    PROVE  /\ s \o t \in Seq(S)
           /\ Len(s \o t) = Len(s) + Len(t)
           /\ \A i \in 1 .. Len(s) : (s \o t)[i] = s[i]
           /\ Range(s \o t) = Range(s) \cup Range(t)
<1>1. Len(s) \in Nat /\ Len(t) \in Nat
  OBVIOUS
<1>2. /\ s \o t \in Seq(S) /\ Len(s \o t) = Len(s) + Len(t)
      /\ \A i \in 1 .. Len(s) + Len(t) : (s \o t)[i] = IF i <= Len(s) THEN s[i] ELSE t[i - Len(s)]
  BY ConcatProperties
<1> DEFINE both == s \o t
<1> HIDE DEF both
<1>3. /\ both \in Seq(S) /\ Len(both) = Len(s) + Len(t)
      /\ \A i \in 1 .. Len(s) + Len(t) : both[i] = IF i <= Len(s) THEN s[i] ELSE t[i - Len(s)]
  BY <1>2 DEF both
<1>4. ASSUME NEW x \in Range(both) PROVE x \in Range(s) \cup Range(t)
  <2>1. PICK i \in 1 .. Len(both) : both[i] = x
    BY <1>3, RangeMeaning
  <2>2. CASE i <= Len(s)
    <3>1. i \in 1 .. Len(s) /\ x = s[i]
      BY <1>1, <1>3, <2>1, <2>2
    <3> QED BY <3>1, RangeMeaning
  <2>3. CASE ~(i <= Len(s))
    <3>1. i - Len(s) \in 1 .. Len(t) /\ x = t[i - Len(s)]
      BY <1>1, <1>3, <2>1, <2>3
    <3> QED BY <3>1, RangeMeaning
  <2> QED BY <2>2, <2>3
<1>5. ASSUME NEW x \in Range(s) PROVE x \in Range(both)
  <2>1. PICK i \in 1 .. Len(s) : s[i] = x
    BY RangeMeaning
  <2>2. i \in 1 .. Len(both) /\ both[i] = x
    BY <1>1, <1>3, <2>1
  <2> QED BY <1>3, <2>2, RangeMeaning
<1>6. ASSUME NEW x \in Range(t) PROVE x \in Range(both)
  <2>1. PICK i \in 1 .. Len(t) : t[i] = x
    BY RangeMeaning
  <2>2. PICK j \in 1 .. Len(both) : j = i + Len(s)
    BY <1>1, <1>3
  <2>3. ~(j <= Len(s)) /\ j - Len(s) = i
    BY <1>1, <2>2
  <2>4. both[j] = x
    BY <1>3, <2>1, <2>2, <2>3
  <2> QED BY <1>3, <2>4, RangeMeaning
<1>7. Range(both) = Range(s) \cup Range(t)
  BY <1>4, <1>5, <1>6
<1>8. \A i \in 1 .. Len(s) : both[i] = s[i]
  BY <1>1, <1>3
<1> QED BY <1>3, <1>7, <1>8 DEF both

\* What a sequence of at most n members of S puts in an array.
LEMMA FewReported ==
    ASSUME NEW S, NEW n \in Nat, NEW reported \in SeqOf(S, n)
    PROVE  /\ reported \in Seq(S)
           /\ Range(reported) \in SUBSET S
           /\ Cardinality(Range(reported)) <= n
<1>1. PICK m \in 0 .. n : reported \in [1 .. m -> S]
  BY DEF SeqOf
<1>2. reported \in Seq(S) /\ Len(reported) = m /\ m \in Nat /\ m <= n
  BY <1>1
<1>3. Range(reported) \in SUBSET S
  BY <1>2, RangeMeaning
<1>4. reported \in Surjection(1 .. m, Range(reported))
  BY <1>1 DEF Surjection, Range
<1>5. IsFiniteSet(1 .. m) /\ Cardinality(1 .. m) = m
  BY <1>2, FS_Interval
<1>6. IsFiniteSet(Range(reported)) /\ Cardinality(Range(reported)) <= m
  BY <1>4, <1>5, FS_Surjection
<1>7. Cardinality(Range(reported)) \in Nat
  BY <1>6, FS_CardinalityType
<1> QED BY <1>2, <1>3, <1>6, <1>7

LEMMA ReportableFindings ==
    ASSUME ArraysAssumption, resources \in Seq(Inputs)
    PROVE  Abstract!Reportable \subseteq Abstract!Finding
<1>1. ASSUME NEW i \in 1 .. Len(resources)
      PROVE  /\ resources[i].pid \in Pid /\ resources[i].fd \in Fd \cup {Null}
             /\ resources[i].site \in Site /\ i \in Nat
  <2>1. resources[i] \in Inputs /\ i \in Nat
    OBVIOUS
  <2>2. \A ev \in Inputs : ev.pid \in Pid /\ ev.fd \in Fd \cup {Null} /\ ev.site \in Site
    BY Assumed
  <2> QED BY <2>1, <2>2
<1> QED BY <1>1 DEF Abstract!Reportable, Abstract!Log, Abstract!Finding

LEMMA FinalizeStep ==
    ASSUME ArraysAssumption, resources \in Seq(Inputs), Intact,
           NEW granted \in Granted, Finalize(granted)
    PROVE  /\ Abstract!Finalize \/ Abstract!FinalizeFails
           /\ resources' = resources /\ finalized' = TRUE
           /\ StackStep
<1> DEFINE now == SweepAll(granted)
<1>1. /\ now.err \in BOOLEAN
      /\ ~now.err => /\ Range(now.fds) = Range(fds) \ PendingEntries
                     /\ Range(now.closed) = Abstract!SweptClosed(PendingEntries)
      /\ now.err => \E swept \in SUBSET PendingEntries : \E e \in swept :
                      /\ e.exec_cloexec
                      /\ Range(now.fds) = Range(fds) \ swept
                      /\ Range(now.closed) = Abstract!SweptClosed(swept \ {e})
  <2>1. /\ Table(fds, Len(resources)) /\ Len(resources) \in Nat /\ closed_fds \in Seq(Pid \X Fd)
        /\ granted \in Nat
    BY Assumed, RangeMeaning DEF Intact
  <2>2. /\ now \in States
        /\ ~now.err => /\ Range(now.fds) = Range(fds) \ PendingEntries
                       /\ Range(now.closed) = Abstract!SweptClosed(PendingEntries)
        /\ now.err => \E swept \in SUBSET PendingEntries : \E e \in swept :
                        /\ e.exec_cloexec
                        /\ Range(now.fds) = Range(fds) \ swept
                        /\ Range(now.closed) = Abstract!SweptClosed(swept \ {e})
    BY <2>1, SweepAllMeaning
  <2> HIDE DEF now
  <2> QED BY <2>2 DEF States
<1>2. /\ ~err /\ ~finalized /\ finalized' = TRUE
      /\ fds' = now.fds /\ closed_fds' = now.closed
      /\ KeepAllocs /\ resources' = resources
      /\ IF now.err
           THEN err' = TRUE /\ findings' = findings
           ELSE /\ err' \in {~ok : ok \in Outcomes}
                /\ \E reported \in SeqOf(Abstract!Reportable, MaxReported) :
                     findings' = findings \o reported
  BY DEF Finalize, Tables
<1> HIDE DEF now
<1>3. /\ Range(fds)' = Range(now.fds) /\ Range(closed_fds)' = Range(now.closed)
      /\ Abstract!KeepAllocs /\ FALSE \in Outcomes /\ MaxReported \in Nat
  BY <1>2, Assumed DEF KeepAllocs, Abstract!KeepAllocs
<1>4. CASE now.err
  <2>1. Range(findings)' = Range(findings) /\ err' = TRUE /\ findings' = findings
    BY <1>2, <1>4
  <2>2. Abstract!FinalizeFails
    BY <1>1, <1>2, <1>3, <1>4, <2>1 DEF Abstract!FinalizeFails, PendingEntries
  <2> QED BY <1>2, <2>1, <2>2 DEF StackStep
<1>5. CASE ~now.err
  <2>1. PICK reported \in SeqOf(Abstract!Reportable, MaxReported) :
          findings' = findings \o reported
    BY <1>2, <1>5
  <2>2. /\ reported \in Seq(Abstract!Reportable)
        /\ Range(reported) \in SUBSET Abstract!Reportable
        /\ Cardinality(Range(reported)) <= MaxReported
    BY <1>3, FewReported
  <2>3. findings \in Seq(Abstract!Finding) /\ reported \in Seq(Abstract!Finding)
    <3>1. Abstract!Reportable \subseteq Abstract!Finding
      BY ReportableFindings
    <3> QED BY <2>2, <3>1 DEF Intact, Stack
  <2>4. Range(findings)' = Range(findings) \cup Range(reported)
    BY <2>1, <2>3, RangeOfConcat
  <2>5. Range(fds)' = {e \in Range(fds) : ~e.exec_pending}
        /\ Range(closed_fds)' = Abstract!SweptClosed({e \in Range(fds) : e.exec_pending})
    BY <1>1, <1>3, <1>5 DEF PendingEntries
  <2>6. \E more \in SUBSET Abstract!Reportable :
          /\ Abstract!Cardinality(more) <= MaxReported
          /\ Range(findings)' = Range(findings) \cup more
    <3>1. Abstract!Cardinality(Range(reported)) = Cardinality(Range(reported))
      BY DEF Abstract!Cardinality, Cardinality
    <3> QED BY <2>2, <2>4, <3>1
  <2>7. err' \in {~ok : ok \in Outcomes}
    BY <1>2, <1>5
  <2>8. Abstract!Finalize
    BY <1>2, <1>3, <2>5, <2>6, <2>7 DEF Abstract!Finalize
  <2> QED BY <1>2, <2>1, <2>3, <2>8 DEF StackStep
<1> QED BY <1>1, <1>4, <1>5

\* Growing at the end and being cut at the end both leave a prefix.
LEMMA PrefixMeaning ==
    ASSUME NEW S, NEW s \in Seq(S), NEW t \in Seq(S), Len(s) <= Len(t),
           \A i \in 1 .. Len(s) : t[i] = s[i]
    PROVE  IsPrefix(s, t)
<1> DEFINE a == SubSeq(s, 1, Len(s))
           b == SubSeq(t, 1, Len(s))
<1>1. Len(s) \in Nat /\ Len(t) \in Nat /\ Len(s) \in 0 .. Len(s) /\ Len(s) \in 0 .. Len(t)
  OBVIOUS
<1>2. /\ a \in Seq(S) /\ Len(a) = Len(s) /\ \A j \in 1 .. Len(s) : a[j] = s[j]
      /\ b \in Seq(S) /\ Len(b) = Len(s) /\ \A j \in 1 .. Len(s) : b[j] = t[j]
  BY <1>1, Beginning
<1> HIDE DEF a, b
<1>3. a = b
  BY <1>2, SeqEqual
<1> QED BY <1>3 DEF IsPrefix, a, b

LEMMA StackStepMeaning ==
    ASSUME findings \in Seq(Abstract!Finding), StackStep
    PROVE  IsPrefix(findings, findings') \/ IsPrefix(findings', findings)
<1>1. CASE findings' = findings
  <2>1. Len(findings) <= Len(findings)
    OBVIOUS
  <2>2. IsPrefix(findings, findings)
    BY <2>1, PrefixMeaning
  <2> QED BY <1>1, <2>2
<1>2. ASSUME NEW f \in Abstract!Finding, findings' = Append(findings, f)
      PROVE  IsPrefix(findings, findings')
  <2> DEFINE more == Append(findings, f)
  <2>1. /\ more \in Seq(Abstract!Finding) /\ Len(more) = Len(findings) + 1
        /\ \A i \in 1 .. Len(findings) : more[i] = findings[i]
    BY RangeOfAppend
  <2> HIDE DEF more
  <2>2. Len(findings) <= Len(more)
    BY <2>1
  <2>3. IsPrefix(findings, more)
    BY <2>1, <2>2, PrefixMeaning
  <2> QED BY <1>2, <2>3 DEF more
<1>3. ASSUME NEW k \in 0 .. Len(findings), findings' = SubSeq(findings, 1, k)
      PROVE  IsPrefix(findings', findings)
  <2> DEFINE less == SubSeq(findings, 1, k)
  <2>1. /\ less \in Seq(Abstract!Finding) /\ Len(less) = k
        /\ \A i \in 1 .. k : less[i] = findings[i]
    BY Beginning
  <2> HIDE DEF less
  <2>2. Len(less) <= Len(findings) /\ \A i \in 1 .. Len(less) : findings[i] = less[i]
    BY <2>1
  <2>3. IsPrefix(less, findings)
    BY <2>1, <2>2, PrefixMeaning
  <2> QED BY <1>3, <2>3 DEF less
<1>4. ASSUME NEW reported \in Seq(Abstract!Finding), findings' = findings \o reported
      PROVE  IsPrefix(findings, findings')
  <2> DEFINE more == findings \o reported
  <2>1. /\ more \in Seq(Abstract!Finding) /\ Len(more) = Len(findings) + Len(reported)
        /\ \A i \in 1 .. Len(findings) : more[i] = findings[i]
    BY RangeOfConcat
  <2> HIDE DEF more
  <2>2. Len(findings) <= Len(more)
    BY <2>1
  <2>3. IsPrefix(findings, more)
    BY <2>1, <2>2, PrefixMeaning
  <2> QED BY <1>4, <2>3 DEF more
<1> QED BY <1>1, <1>2, <1>3, <1>4 DEF StackStep

-----------------------------------------------------------------------------
(* The arrays implement the sets.                                          *)

ArrayInv ==
    /\ resources \in Seq(Inputs)
    /\ ~err /\ ~finalized => Intact

LEMMA InitStep == Init => ArrayInv /\ Abstract!Init
<1> SUFFICES ASSUME Init PROVE ArrayInv /\ Abstract!Init
  OBVIOUS
<1>1. Range(fds) = {} /\ Range(closed_fds) = {} /\ Range(allocs) = {}
      /\ Range(freed_allocs) = {} /\ Range(findings) = {}
  BY DEF Init, Range
<1>2. Intact
  BY DEF Init, Intact, Table, BlockTable, Stack
<1> QED BY <1>1, <1>2 DEF Init, ArrayInv, Abstract!Init

LEMMA NextStep ==
    ASSUME ArraysAssumption, ArrayInv, [Next]_vars
    PROVE  /\ ArrayInv'
           /\ [Abstract!Next]_(Abstract!vars)
           /\ UNCHANGED vars \/ (findings \in Seq(Abstract!Finding) /\ StackStep)
<1>1. CASE UNCHANGED vars
  <2>1. /\ resources' = resources /\ fds' = fds /\ closed_fds' = closed_fds
        /\ allocs' = allocs /\ freed_allocs' = freed_allocs /\ findings' = findings
        /\ err' = err /\ finalized' = finalized
    BY <1>1 DEF vars
  <2>2. UNCHANGED Abstract!vars
    BY <2>1 DEF Abstract!vars
  <2>3. ArrayInv'
    BY <2>1 DEF ArrayInv, Intact
  <2> QED BY <1>1, <2>2, <2>3
<1>2. ASSUME NEW granted \in Granted, NEW ev \in Inputs, Ingest(ev, granted)
      PROVE  /\ ArrayInv' /\ Abstract!Next
             /\ findings \in Seq(Abstract!Finding) /\ StackStep
  <2>1. resources \in Seq(Inputs) /\ Intact
    BY <1>2 DEF Ingest, Stored, NotStored, Reading, ArrayInv
  <2>2. /\ Abstract!Ingest(ev) /\ resources' \in Seq(Inputs)
        /\ ~err' => Intact'
        /\ StackStep
    BY <1>2, <2>1, IngestStep
  <2> QED BY <2>1, <2>2 DEF ArrayInv, Abstract!Next, Intact, Stack
<1>3. ASSUME NEW granted \in Granted, Finalize(granted)
      PROVE  /\ ArrayInv' /\ Abstract!Next
             /\ findings \in Seq(Abstract!Finding) /\ StackStep
  <2>1. resources \in Seq(Inputs) /\ Intact
    BY <1>3 DEF Finalize, ArrayInv
  <2>2. /\ Abstract!Finalize \/ Abstract!FinalizeFails
        /\ resources' = resources /\ finalized' = TRUE
        /\ StackStep
    BY <1>3, <2>1, FinalizeStep
  <2> QED BY <2>1, <2>2 DEF ArrayInv, Abstract!Next, Intact, Stack
<1> QED BY <1>1, <1>2, <1>3 DEF Next

\* Every loop over the arrays does what Replay says of the sets: the arrays of
\* struct report_model go through the states of the tables, whatever the records and
\* wherever memory runs out (model.c:45-200, 264-396).
THEOREM ArraysImplementSets == Spec => RefinesReplay
<1>1. Init => Abstract!Init /\ ArrayInv
  BY InitStep
<1>2. ArrayInv /\ [Next]_vars => ArrayInv' /\ [Abstract!Next]_(Abstract!vars)
  BY ArraysAssumption, NextStep
<1> QED BY <1>1, <1>2, PTL DEF Spec, RefinesReplay, Abstract!Spec

\* What a rollback takes out of the array of findings is always its end, though it
\* searches and compacts the whole array (model.c:374-392).
THEOREM FindingsComeAndGoAtTheEnd == Spec => FindingsAreAStack
<1>1. Init => ArrayInv
  BY InitStep
<1>2. ArrayInv /\ [Next]_vars =>
        /\ ArrayInv'
        /\ [IsPrefix(findings, findings') \/ IsPrefix(findings', findings)]_vars
  BY ArraysAssumption, NextStep, StackStepMeaning
<1> QED BY <1>1, <1>2, PTL DEF Spec, FindingsAreAStack
=============================================================================
