---------------------------- MODULE ReplayProofs ----------------------------
(***************************************************************************)
(* Theorems about Replay, Lifetimes and ObservedRun, for every set of      *)
(* processes, descriptors, records and every length of the log or the run. *)
(*                                                                         *)
(* The tables are related to the log one record at a time: an entry is     *)
(* where the log put it, a finding is about what the log says, the blocks  *)
(* at an address are counted as the log counts them.  The recursive        *)
(* functions the definitions use are shown to exist, from the well-founded *)
(* order of the naturals, before anything is said of them.                 *)
(***************************************************************************)
EXTENDS ObservedRun, Lifetimes, FiniteSetTheorems, WellFoundedInduction, TLAPS

-----------------------------------------------------------------------------
(* The log only grows.                                                     *)

Appends(ev) == ev \in Inputs /\ resources' = Append(resources, ev)

LEMMA AppendedLog ==
    ASSUME resources \in Seq(Inputs), NEW ev, Appends(ev)
    PROVE  /\ resources' \in Seq(Inputs)
           /\ Len(resources) \in Nat
           /\ Len(resources') = Len(resources) + 1
           /\ \A i \in Log : resources'[i] = resources[i]
           /\ resources'[Len(resources) + 1] = ev
           /\ \A i \in Log' : i \in Log \/ i = Len(resources) + 1
           /\ Log \subseteq Log'
           /\ Sequence \in Log' /\ Sequence \in Nat
BY DEF Appends, Log, Sequence

\* Every step stores one record or leaves the log alone.
LEMMA LogStep ==
    ASSUME Next
    PROVE  UNCHANGED resources \/ \E ev \in Inputs : Appends(ev)
BY ZenonT(30) DEF Next, Ingest, Appends, Stored, FdOpen, FdClose, FdCloseStray, AllocStore, FreeBlock,
       FreeStray, Realloc, Fork, Spawn, Exec, ExecUnknown, ExecFail, Generic,
       SettleFails, StoreFails, Finalize, FinalizeFails

-----------------------------------------------------------------------------
(* The tables after a sweep.                                               *)

\* An entry of the descriptor table while the log has n records.
FdOK(e, n) == e \in LiveFd /\ e.sequence \in 1 .. n /\ e.exec_sequence <= n

LEMMA ClearedOK ==
    ASSUME NEW e, NEW n \in Nat, FdOK(e, n)
    PROVE  /\ FdOK(Cleared(e), n)
           /\ Cleared(e).pid = e.pid /\ Cleared(e).fd = e.fd
           /\ Cleared(e).site = e.site /\ Cleared(e).sequence = e.sequence
           /\ ~Cleared(e).exec_pending
<1>1. Cleared(e) \in LiveFd
  BY DEF FdOK, Cleared, LiveFd
<1>2. /\ Cleared(e).pid = e.pid /\ Cleared(e).fd = e.fd
      /\ Cleared(e).site = e.site /\ Cleared(e).sequence = e.sequence
  BY DEF FdOK, Cleared, LiveFd
<1>3. ~Cleared(e).exec_pending /\ Cleared(e).exec_sequence = 0
  BY DEF FdOK, Cleared, LiveFd
<1> QED BY <1>1, <1>2, <1>3 DEF FdOK

LEMMA SweptOK ==
    ASSUME NEW n \in Nat, \A e \in fds : FdOK(e, n), closed_fds \subseteq Pid \X Fd,
           NEW swept, swept \subseteq fds
    PROVE  /\ \A e \in SweptFds(swept) : FdOK(e, n)
           /\ SweptClosed(swept) \subseteq Pid \X Fd
<1>1. \A e \in SweptFds(swept) : FdOK(e, n)
  BY ClearedOK DEF SweptFds
<1>2. \A e \in swept : Slot(e) \in Pid \X Fd
  BY DEF FdOK, LiveFd, Slot
<1> QED BY <1>1, <1>2 DEF SweptClosed

LEMMA SettlingPending ==
    ASSUME NEW ev
    PROVE  /\ Settling(ev) \subseteq fds
           /\ \A e \in Settling(ev) : e.exec_pending /\ e.pid = ev.pid
BY DEF Settling, Pending

LEMMA SettledOK ==
    ASSUME TypeOK, NEW ev
    PROVE  /\ \A e \in SettledFds(ev) : FdOK(e, Len(resources))
           /\ SettledClosed(ev) \subseteq Pid \X Fd
<1>1. Len(resources) \in Nat
  BY DEF TypeOK
<1>2. \A e \in fds : FdOK(e, Len(resources))
  BY DEF TypeOK, FdOK, Log
<1> QED BY <1>1, <1>2, SweptOK, SettlingPending DEF SettledFds, SettledClosed, TypeOK

-----------------------------------------------------------------------------
(* Type correctness.                                                       *)

FindingOK(f, n) == f \in Finding /\ f.sequence \in 1 .. n

LEMMA OKLater ==
    ASSUME NEW n \in Nat
    PROVE  /\ \A e : FdOK(e, n) => FdOK(e, n + 1)
           /\ \A f : FindingOK(f, n) => FindingOK(f, n + 1)
BY DEF FdOK, FindingOK, LiveFd

LEMMA InputFields ==
    ASSUME ReplayAssumption, NEW ev \in Inputs
    PROVE  /\ ev.kind \in Kind /\ ev.pid \in Pid /\ ev.site \in Site
           /\ ev.cloexec \in BOOLEAN
           /\ ev.fd \in Fd \cup {Null} /\ ev.target \in Target \cup {Null}
           /\ ev.ptr \in Ptr \cup {Null} /\ ev.new_ptr \in Ptr \cup {Null}
           /\ ev.kind \in {"FD_OPEN", "FD_CLOSE", "EXEC"} => ev.fd \in Fd
           /\ ev.kind = "FORK" => ev.child_pid \in Pid
BY DEF ReplayAssumption, ResourceEvent

LEMMA NewFdOK ==
    ASSUME TypeOK, NEW pid \in Pid, NEW fd \in Fd, NEW site \in Site
    PROVE  FdOK(NewFd(pid, fd, site), Len(resources) + 1)
BY DEF TypeOK, FdOK, NewFd, LiveFd, Sequence

Marked(e, ev) ==
    [e EXCEPT !.exec_pending = TRUE, !.exec_cloexec = ev.cloexec, !.exec_sequence = Sequence]

LEMMA MarkedOK ==
    ASSUME TypeOK, NEW ev, ev.cloexec \in BOOLEAN, NEW e, FdOK(e, Len(resources))
    PROVE  /\ FdOK(Marked(e, ev), Len(resources) + 1)
           /\ Marked(e, ev).pid = e.pid /\ Marked(e, ev).fd = e.fd
           /\ Marked(e, ev).site = e.site /\ Marked(e, ev).sequence = e.sequence
           /\ Marked(e, ev).exec_pending
           /\ Marked(e, ev).exec_cloexec = ev.cloexec
           /\ Marked(e, ev).exec_sequence = Len(resources) + 1
<1> DEFINE n == Sequence
<1>1. Len(resources) \in Nat /\ n = Len(resources) + 1 /\ n \in Nat /\ e \in LiveFd
  BY DEF TypeOK, Sequence, FdOK
<1>2. Marked(e, ev) \in LiveFd
  <2>1. ASSUME NEW y \in BOOLEAN, NEW m \in Nat
        PROVE  [e EXCEPT !.exec_pending = TRUE, !.exec_cloexec = y, !.exec_sequence = m] \in LiveFd
    BY <1>1 DEF LiveFd
  <2> QED BY <2>1, <1>1, Zenon DEF Marked
<1>3. /\ Marked(e, ev).pid = e.pid /\ Marked(e, ev).fd = e.fd
      /\ Marked(e, ev).site = e.site /\ Marked(e, ev).sequence = e.sequence
  BY DEF FdOK, Marked, LiveFd
<1>4. Marked(e, ev).exec_pending /\ Marked(e, ev).exec_sequence = Sequence
  BY DEF FdOK, Marked, LiveFd
<1>5. Marked(e, ev).exec_cloexec = ev.cloexec
  BY DEF FdOK, Marked, LiveFd
<1> QED BY <1>1, <1>2, <1>3, <1>4, <1>5 DEF FdOK

\* What is left to show of a step that stores a record.
LEMMA TypeParts ==
    ASSUME ReplayAssumption, TypeOK, NEW ev \in Inputs, Stored(ev),
           \A e \in fds' : FdOK(e, Len(resources) + 1),
           closed_fds' \subseteq Pid \X Fd,
           allocs' \subseteq Alloc, freed_allocs' \subseteq Alloc,
           \A f \in findings' : FindingOK(f, Len(resources) + 1),
           err' \in BOOLEAN
    PROVE  TypeOK'
<1>1. /\ resources' \in Seq(Inputs)
      /\ Len(resources) \in Nat
      /\ Len(resources') = Len(resources) + 1
  BY AppendedLog DEF Appends, Stored, TypeOK
<1>2. Len(resources') <= MaxRecords
  BY <1>1 DEF Stored, Reading, TypeOK, ReplayAssumption
<1>3. \A e \in fds' : e \in LiveFd /\ e.sequence \in Log' /\ e.exec_sequence <= Len(resources')
  BY <1>1 DEF FdOK, Log
<1>4. \A f \in findings' : f \in Finding /\ f.sequence \in Log'
  BY <1>1 DEF FindingOK, Log
<1>5. finalized' \in BOOLEAN
  BY DEF Stored, TypeOK
<1> QED BY <1>1, <1>2, <1>3, <1>4, <1>5 DEF TypeOK

\* What every record that is not an EXEC leaves in the descriptor tables.
LEMMA StoredParts ==
    ASSUME ReplayAssumption, TypeOK, NEW ev \in Inputs
    PROVE  /\ Len(resources) \in Nat
           /\ \A e \in SettledFds(ev) : FdOK(e, Len(resources)) /\ FdOK(e, Len(resources) + 1)
           /\ SettledClosed(ev) \subseteq Pid \X Fd
           /\ \A f \in findings : FindingOK(f, Len(resources) + 1)
           /\ \A b \in Outcomes : b \in BOOLEAN
<1>1. Len(resources) \in Nat
  BY DEF TypeOK
<1>2. \A f \in findings : FindingOK(f, Len(resources))
  BY DEF TypeOK, FindingOK, Log
<1> QED BY <1>1, <1>2, SettledOK, OKLater DEF ReplayAssumption

\* What a FORK adds: one entry for each descriptor given to the child.
LEMMA ForkTable ==
    ASSUME NEW ev, Fork(ev)
    PROVE  /\ SettledFds(ev) \subseteq fds'
           /\ \A x \in fds' \ SettledFds(ev) :
                \E d \in Inherited(ev, SettledFds(ev)), e \in SettledFds(ev) :
                  x = NewFd(ev.child_pid, d, e.site) /\ e.pid = ev.pid /\ e.fd = d
           /\ \A x, y \in fds' \ SettledFds(ev) : x.fd = y.fd => x = y
<1> DEFINE table == SettledFds(ev)
           all == Inherited(ev, table)
<1>1. PICK given \in SUBSET all : \E source \in [given -> table] :
        /\ \A d \in given : source[d] \in Entries(table, ev.pid, d)
        /\ fds' = table \cup {NewFd(ev.child_pid, d, source[d].site) : d \in given}
  BY DEF Fork
<1>2. PICK source \in [given -> table] :
        /\ \A d \in given : source[d] \in Entries(table, ev.pid, d)
        /\ fds' = table \cup {NewFd(ev.child_pid, d, source[d].site) : d \in given}
  BY <1>1
<1>3. \A d \in given : source[d] \in table /\ source[d].pid = ev.pid /\ source[d].fd = d
  BY <1>2 DEF Entries
<1>4. \A x \in fds' \ table : \E d \in given : x = NewFd(ev.child_pid, d, source[d].site)
  BY <1>2
<1>5. \A d, site : NewFd(ev.child_pid, d, site).fd = d
  BY DEF NewFd
<1> QED BY <1>2, <1>3, <1>4, <1>5

LEMMA TypeStep ==
    ASSUME ReplayAssumption, TypeOK, [Next]_vars
    PROVE  TypeOK'
<1> DEFINE n == Len(resources)
<1>0. n \in Nat /\ Sequence = n + 1 /\ Sequence \in Nat
  BY DEF TypeOK, Sequence
<1>1. ASSUME NEW ev \in Inputs, FdOpen(ev) PROVE TypeOK'
  <2>1. ev.pid \in Pid /\ ev.fd \in Fd /\ ev.site \in Site
    BY <1>1, InputFields DEF FdOpen
  <2>2. \A e \in fds' : FdOK(e, n + 1)
    BY <1>1, <2>1, NewFdOK, StoredParts DEF FdOpen
  <2> QED BY <1>1, <2>2, TypeParts, StoredParts DEF FdOpen, KeepAllocs, TypeOK
<1>2. ASSUME NEW ev \in Inputs, FdClose(ev) PROVE TypeOK'
  <2>1. <<ev.pid, ev.fd>> \in Pid \X Fd
    BY <1>2, InputFields DEF FdClose
  <2>2. \A e \in fds' : FdOK(e, n + 1)
    BY <1>2, StoredParts DEF FdClose
  <2>3. closed_fds' \subseteq Pid \X Fd
    BY <1>2, <2>1, StoredParts DEF FdClose
  <2> QED BY <1>2, <2>2, <2>3, TypeParts, StoredParts DEF FdClose, KeepAllocs, TypeOK
<1>3. ASSUME NEW ev \in Inputs, FdCloseStray(ev) PROVE TypeOK'
  BY <1>3, TypeParts, StoredParts DEF FdCloseStray, Settle, KeepAllocs, TypeOK
<1>4. ASSUME NEW ev \in Inputs, AllocStore(ev) PROVE TypeOK'
  <2>1. ev.pid \in Pid /\ ev.ptr \in Ptr \cup {Null} /\ Sequence \in Nat
    BY <1>0, InputFields
  <2>2. allocs' \subseteq Alloc
    BY <1>4, <2>1 DEF AllocStore, Gained, Alloc, TypeOK
  <2>3. err' \in BOOLEAN
    BY <1>4 DEF AllocStore
  <2> QED BY <1>4, <2>2, <2>3, TypeParts, StoredParts DEF AllocStore, Settle, TypeOK
<1>5. ASSUME NEW ev \in Inputs, FreeBlock(ev) PROVE TypeOK'
  <2>1. ev.pid \in Pid /\ ev.ptr \in Ptr \cup {Null} /\ Sequence \in Nat
    BY <1>0, InputFields
  <2>2. PICK a \in Blocks(ev.pid, ev.ptr) : allocs' = allocs \ {a}
    BY <1>5 DEF FreeBlock
  <2>3. freed_allocs' \subseteq Alloc
    BY <1>5, <2>1 DEF FreeBlock, Gained, Alloc, TypeOK
  <2> QED BY <1>5, <2>2, <2>3, TypeParts, StoredParts DEF FreeBlock, Settle, TypeOK
<1>6. ASSUME NEW ev \in Inputs, FreeStray(ev) PROVE TypeOK'
  BY <1>6, TypeParts, StoredParts DEF FreeStray, Settle, KeepAllocs, TypeOK
<1>7. ASSUME NEW ev \in Inputs, Realloc(ev) PROVE TypeOK'
  <2>1. ev.pid \in Pid /\ ev.new_ptr \in Ptr \cup {Null} /\ Sequence \in Nat
    BY <1>0, InputFields
  <2>2. allocs' \subseteq Alloc
    BY <1>7, <2>1 DEF Realloc, Gained, Alloc, TypeOK
  <2> QED BY <1>7, <2>2, TypeParts, StoredParts DEF Realloc, Settle, TypeOK
<1>8. ASSUME NEW ev \in Inputs, Fork(ev) PROVE TypeOK'
  <2>1. ev.child_pid \in Pid /\ ev.pid \in Pid
    BY <1>8, InputFields DEF Fork
  <2>2. \A e \in SettledFds(ev) : e.site \in Site
    BY StoredParts DEF FdOK, LiveFd
  <2>3. \A d \in Inherited(ev, SettledFds(ev)) : d \in Fd
    BY DEF Inherited
  <2>4. \A e \in fds' : FdOK(e, n + 1)
    <3>1. \A e \in SettledFds(ev) : FdOK(e, n + 1)
      BY StoredParts
    <3>2. ASSUME NEW x \in fds' \ SettledFds(ev) PROVE FdOK(x, n + 1)
      <4>1. PICK d \in Fd, e \in SettledFds(ev) : x = NewFd(ev.child_pid, d, e.site)
        BY <1>8, <2>3, ForkTable
      <4> QED BY <2>1, <2>2, <4>1, NewFdOK
    <3> QED BY <3>1, <3>2
  <2>5. err' \in BOOLEAN
    BY <1>8 DEF Fork
  <2> QED BY <1>8, <2>4, <2>5, TypeParts, StoredParts DEF Fork, KeepAllocs, TypeOK
<1>9. ASSUME NEW ev \in Inputs, Spawn(ev) PROVE TypeOK'
  BY <1>9, TypeParts, StoredParts DEF Spawn, Settle, KeepAllocs, TypeOK
<1>10. ASSUME NEW ev \in Inputs, Exec(ev) PROVE TypeOK'
  <2>1. PICK e \in SettledFds(ev) :
          /\ fds' = (SettledFds(ev) \ {e}) \cup {Marked(e, ev)}
          /\ findings' \subseteq findings \cup {InheritFinding(ev, e)}
    BY <1>10 DEF Exec, Entries, Marked
  <2>2. /\ ev.pid \in Pid /\ ev.fd \in Fd /\ ev.cloexec \in BOOLEAN
        /\ ev.site \in Site /\ ev.target \in Target \cup {Null}
    BY <1>10, InputFields DEF Exec
  <2>3. \A x \in fds' : FdOK(x, n + 1)
    <3>1. \A x \in SettledFds(ev) : FdOK(x, n) /\ FdOK(x, n + 1)
      BY StoredParts
    <3>2. FdOK(Marked(e, ev), n + 1)
      BY <2>1, <2>2, <3>1, MarkedOK
    <3> QED BY <2>1, <3>1, <3>2
  <2>4. e.site \in Site /\ e.sequence \in Nat /\ Sequence = n + 1 /\ n \in Nat
    BY <1>0, <2>1, StoredParts DEF FdOK, LiveFd
  <2>5. FindingOK(InheritFinding(ev, e), n + 1)
    BY <2>2, <2>4 DEF FindingOK, InheritFinding, Finding
  <2>6. \A f \in findings' : FindingOK(f, n + 1)
    BY <2>1, <2>5, StoredParts
  <2>7. err' \in BOOLEAN
    BY <1>10 DEF Exec
  <2> QED BY <1>10, <2>3, <2>6, <2>7, TypeParts, StoredParts DEF Exec, KeepAllocs, TypeOK
<1>11. ASSUME NEW ev \in Inputs, ExecUnknown(ev) PROVE TypeOK'
  BY <1>11, TypeParts, StoredParts DEF ExecUnknown, Settle, KeepAllocs, TypeOK
<1>12. ASSUME NEW ev \in Inputs, ExecFail(ev) PROVE TypeOK'
  <2>1. \A e \in fds' : FdOK(e, n + 1)
    <3>1. \A e \in SettledFds(ev) : FdOK(e, n) /\ FdOK(e, n + 1)
      BY StoredParts
    <3>2. \A e \in SettledFds(ev) : FdOK(Cleared(e), n + 1)
      BY <1>0, <3>1, ClearedOK, OKLater
    <3> QED BY <1>12, <3>1, <3>2 DEF ExecFail
  <2> QED BY <1>12, <2>1, TypeParts, StoredParts DEF ExecFail, KeepAllocs, TypeOK
<1>13. ASSUME NEW ev \in Inputs, Generic(ev) PROVE TypeOK'
  BY <1>13, TypeParts, StoredParts DEF Generic, Settle, KeepAllocs, TypeOK
<1>14. ASSUME UNCHANGED resources, \A e \in fds' : FdOK(e, n), closed_fds' \subseteq Pid \X Fd,
              UNCHANGED <<allocs, freed_allocs>>, \A f \in findings' : FindingOK(f, n),
              err' \in BOOLEAN, finalized' \in BOOLEAN
       PROVE  TypeOK'
  BY <1>14 DEF TypeOK, FdOK, FindingOK, Log
<1>15. \A f \in findings : FindingOK(f, n)
  BY DEF TypeOK, FindingOK, Log
<1>16. \A e \in fds : FdOK(e, n)
  BY DEF TypeOK, FdOK, Log
<1>17. ASSUME NEW ev \in Inputs, SettleFails(ev) PROVE TypeOK'
  <2>1. PICK swept \in SUBSET Settling(ev) : \E e \in swept :
          fds' = SweptFds(swept) /\ closed_fds' = SweptClosed(swept \ {e})
    BY <1>17 DEF SettleFails, SweepFails
  <2>2. PICK e \in swept : fds' = SweptFds(swept) /\ closed_fds' = SweptClosed(swept \ {e})
    BY <2>1
  <2>3. swept \subseteq fds /\ swept \ {e} \subseteq fds
    BY SettlingPending
  <2>4. (\A x \in fds' : FdOK(x, n)) /\ closed_fds' \subseteq Pid \X Fd
    BY <1>0, <1>16, <2>2, <2>3, SweptOK DEF TypeOK
  <2> QED BY <1>14, <1>15, <1>17, <2>4 DEF SettleFails, SweepFails, KeepAllocs, TypeOK
<1>18. ASSUME NEW ev \in Inputs, StoreFails(ev) PROVE TypeOK'
  BY <1>14, <1>15, <1>18, SettledOK DEF StoreFails, Settle, KeepAllocs, TypeOK
<1>19. CASE Finalize
  <2>1. PICK reported \in SUBSET Reportable : findings' = findings \cup reported
    BY <1>19 DEF Finalize
  <2>2. \A f \in Reportable : FindingOK(f, n)
    <3>1. ASSUME NEW i \in Log
          PROVE  /\ resources[i].pid \in Pid /\ resources[i].site \in Site
                 /\ resources[i].fd \in Fd \cup {Null}
      <4>1. resources[i] \in Inputs
        BY <1>0 DEF TypeOK, Log
      <4> QED BY <4>1, InputFields
    <3> QED BY <3>1, <1>0 DEF Reportable, FindingOK, Finding, Log
  <2>3. closed_fds' \subseteq Pid \X Fd
    BY <1>0, <1>16, <1>19, SweptOK DEF Finalize, TypeOK
  <2>4. \A e \in fds' : FdOK(e, n)
    BY <1>16, <1>19 DEF Finalize
  <2>5. err' \in BOOLEAN
    BY <1>19, StoredParts DEF Finalize, ReplayAssumption
  <2> QED BY <1>14, <1>15, <1>19, <2>1, <2>2, <2>3, <2>4, <2>5 DEF Finalize, KeepAllocs
<1>20. CASE FinalizeFails
  <2>1. PICK swept \in SUBSET {e \in fds : e.exec_pending}, e \in fds :
          fds' = fds \ swept /\ closed_fds' = SweptClosed(swept \ {e})
    BY <1>20 DEF FinalizeFails
  <2>2. swept \ {e} \subseteq fds
    OBVIOUS
  <2>3. (\A x \in fds' : FdOK(x, n)) /\ closed_fds' \subseteq Pid \X Fd
    BY <1>0, <1>16, <2>1, <2>2, SweptOK DEF TypeOK
  <2> QED BY <1>14, <1>15, <1>20, <2>3 DEF FinalizeFails, KeepAllocs
<1>21. CASE UNCHANGED vars
  BY <1>21 DEF TypeOK, Log, vars
<1> QED BY <1>1, <1>2, <1>3, <1>4, <1>5, <1>6, <1>7, <1>8, <1>9, <1>10, <1>11, <1>12, <1>13,
           <1>17, <1>18, <1>19, <1>20, <1>21 DEF Next, Ingest

\* Every table keeps its shape and nothing points past the log: the invariant
\* TypeOK holds in every state the replay reaches.
THEOREM TypeCorrect == Spec => []TypeOK
<1>1. Init => TypeOK
  <2>1. Init => resources \in Seq(Inputs) /\ Len(resources) <= MaxRecords
    BY ReplayAssumption DEF Init, ReplayAssumption
  <2> QED BY <2>1 DEF Init, TypeOK
<1>2. TypeOK /\ [Next]_vars => TypeOK'
  BY ReplayAssumption, TypeStep
<1> QED BY <1>1, <1>2, PTL DEF Spec

-----------------------------------------------------------------------------
(* Where the entries of the descriptor table come from: one lemma on all   *)
(* the steps, which the proofs of the invariants share.                    *)

\* x is the entry e, with its mark as it was or gone.
SameFd(x, e) ==
    /\ x.pid = e.pid /\ x.fd = e.fd /\ x.site = e.site /\ x.sequence = e.sequence
    /\ x.exec_pending => x = e

Opened(x, ev) == ev.kind = "FD_OPEN" /\ x = NewFd(ev.pid, ev.fd, ev.site)

Bequeathed(x, ev) ==
    /\ ev.kind = "FORK"
    /\ \E d \in Inherited(ev, SettledFds(ev)), site \in Site : x = NewFd(ev.child_pid, d, site)

Snapped(x, ev) ==
    ev.kind = "EXEC" /\ \E e \in Entries(fds, ev.pid, ev.fd) : x = Marked(e, ev)

\* A mark stays only when the record is an exec snapshot or another process's.
Kept(x, ev) ==
    /\ \E e \in fds : SameFd(x, e) /\ (x.exec_pending => ev.pid # e.pid \/ ev.kind = "EXEC")
    /\ ev.kind # "EXEC_FAIL" => x \in SettledFds(ev)

Accounted(x, ev) == Kept(x, ev) \/ Opened(x, ev) \/ Bequeathed(x, ev) \/ Snapped(x, ev)

LEMMA SweptSame ==
    ASSUME TypeOK, NEW swept, swept \subseteq fds, NEW x \in SweptFds(swept)
    PROVE  \E e \in fds : SameFd(x, e) /\ (x.exec_pending => e \notin swept)
<1>1. CASE x \in fds \ swept
  BY <1>1 DEF SameFd
<1>2. CASE \E e \in swept : x = Cleared(e)
  <2>1. PICK e \in swept : x = Cleared(e)
    BY <1>2
  <2>2. FdOK(e, Len(resources)) /\ Len(resources) \in Nat
    BY DEF TypeOK, FdOK, Log
  <2> QED BY <2>1, <2>2, ClearedOK DEF SameFd
<1> QED BY <1>1, <1>2 DEF SweptFds

LEMMA SettledKept ==
    ASSUME TypeOK, NEW ev, NEW x \in SettledFds(ev), ev.kind # "EXEC_FAIL"
    PROVE  Kept(x, ev)
<1>1. PICK e \in fds : SameFd(x, e) /\ (x.exec_pending => e \notin Settling(ev))
  BY SweptSame, SettlingPending DEF SettledFds
<1>2. x.exec_pending => ev.pid # e.pid \/ ev.kind = "EXEC"
  BY <1>1 DEF Settling, Pending, SameFd
<1> QED BY <1>1, <1>2 DEF Kept

\* EXEC and EXEC_FAIL settle nothing.
LEMMA ExecSettlesNothing ==
    ASSUME NEW ev, ev.kind \in {"EXEC", "EXEC_FAIL"}
    PROVE  SettledFds(ev) = fds /\ SettledClosed(ev) = closed_fds
BY DEF SettledFds, SettledClosed, SweptFds, SweptClosed, Settling

LEMMA TableStep ==
    ASSUME ReplayAssumption, TypeOK, Next
    PROVE  \/ \E ev \in Inputs : Appends(ev) /\ \A x \in fds' : Accounted(x, ev)
           \/ UNCHANGED resources /\ \A x \in fds' : \E e \in fds : SameFd(x, e)
<1> DEFINE Goal == \/ \E ev \in Inputs : Appends(ev) /\ \A x \in fds' : Accounted(x, ev)
                   \/ UNCHANGED resources /\ \A x \in fds' : \E e \in fds : SameFd(x, e)
<1>1. ASSUME NEW ev \in Inputs, Stored(ev), ev.kind # "EXEC_FAIL", fds' \subseteq SettledFds(ev)
      PROVE  Goal
  BY <1>1, SettledKept DEF Stored, Appends, Accounted
<1>2. ASSUME NEW ev \in Inputs, FdOpen(ev) PROVE Goal
  <2>1. \A x \in fds' : x \in SettledFds(ev) \/ Opened(x, ev)
    BY <1>2 DEF FdOpen, Opened
  <2> QED BY <1>2, <2>1, SettledKept DEF FdOpen, Stored, Appends, Accounted
<1>3. ASSUME NEW ev \in Inputs,
             \/ FdClose(ev) \/ FdCloseStray(ev) \/ AllocStore(ev) \/ FreeBlock(ev)
             \/ FreeStray(ev) \/ Realloc(ev) \/ Spawn(ev) \/ ExecUnknown(ev) \/ Generic(ev)
      PROVE  Goal
  <2>1. Stored(ev) /\ ev.kind # "EXEC_FAIL" /\ fds' \subseteq SettledFds(ev)
    BY <1>3 DEF FdClose, FdCloseStray, AllocStore, FreeBlock, FreeStray, Realloc, Spawn,
                ExecUnknown, Generic, Settle
  <2> QED BY <1>1, <2>1
<1>4. ASSUME NEW ev \in Inputs, Fork(ev) PROVE Goal
  <2>1. \A e \in SettledFds(ev) : e.site \in Site
    BY StoredParts DEF FdOK, LiveFd
  <2>2. \A x \in fds' : x \in SettledFds(ev) \/ Bequeathed(x, ev)
    <3>1. ASSUME NEW x \in fds' \ SettledFds(ev) PROVE Bequeathed(x, ev)
      <4>1. PICK d \in Inherited(ev, SettledFds(ev)), e \in SettledFds(ev) :
              x = NewFd(ev.child_pid, d, e.site)
        BY <1>4, ForkTable
      <4>2. ev.kind = "FORK"
        BY <1>4 DEF Fork
      <4> QED BY <2>1, <4>1, <4>2 DEF Bequeathed
    <3> QED BY <3>1
  <2> QED BY <1>4, <2>2, SettledKept DEF Fork, Stored, Appends, Accounted
<1>5. ASSUME NEW ev \in Inputs, Exec(ev) PROVE Goal
  <2>1. SettledFds(ev) = fds
    BY <1>5, ExecSettlesNothing DEF Exec
  <2>2. \A x \in fds' : x \in SettledFds(ev) \/ Snapped(x, ev)
    BY <1>5, <2>1 DEF Exec, Snapped, Marked
  <2> QED BY <1>5, <2>2, SettledKept DEF Exec, Stored, Appends, Accounted
<1>6. ASSUME NEW ev \in Inputs, ExecFail(ev) PROVE Goal
  <2>1. SettledFds(ev) = fds
    BY <1>6, ExecSettlesNothing DEF ExecFail
  <2>2. \A e \in fds : FdOK(e, Len(resources)) /\ Len(resources) \in Nat
    BY DEF TypeOK, FdOK, Log
  <2>3. ASSUME NEW x \in fds' PROVE Kept(x, ev)
    <3>1. /\ ev.kind = "EXEC_FAIL"
          /\ \E e \in fds : x = IF e.pid = ev.pid /\ e.exec_pending THEN Cleared(e) ELSE e
      BY <1>6, <2>1 DEF ExecFail
    <3>0. PICK e \in fds : x = IF e.pid = ev.pid /\ e.exec_pending THEN Cleared(e) ELSE e
      BY <3>1
    <3>2. CASE e.pid = ev.pid /\ e.exec_pending
      BY <2>2, <3>0, <3>1, <3>2, ClearedOK DEF Kept, SameFd
    <3>3. CASE ~(e.pid = ev.pid /\ e.exec_pending)
      BY <3>0, <3>1, <3>3 DEF Kept, SameFd
    <3> QED BY <3>2, <3>3
  <2> QED BY <1>6, <2>3 DEF ExecFail, Stored, Appends, Accounted
<1>7. ASSUME NEW ev \in Inputs, SettleFails(ev) PROVE Goal
  <2>1. PICK swept \in SUBSET Settling(ev) : fds' = SweptFds(swept)
    BY <1>7 DEF SettleFails, SweepFails
  <2> QED BY <1>7, <2>1, SettlingPending, SweptSame DEF SettleFails
<1>8. ASSUME NEW ev \in Inputs, StoreFails(ev) PROVE Goal
  BY <1>8, SettlingPending, SweptSame DEF StoreFails, Settle, SettledFds
<1>9. CASE Finalize \/ FinalizeFails
  <2>1. fds' \subseteq fds /\ UNCHANGED resources
    BY <1>9 DEF Finalize, FinalizeFails
  <2> QED BY <2>1 DEF SameFd
<1> QED BY <1>2, <1>3, <1>4, <1>5, <1>6, <1>7, <1>8, <1>9 DEF Next, Ingest

-----------------------------------------------------------------------------
(* Marks and attempts.                                                     *)

AttemptOK(e) ==
    e.exec_pending =>
      /\ e.exec_sequence \in Log
      /\ e.sequence < e.exec_sequence
      /\ Execs(e.exec_sequence, e.pid, e.fd)
      /\ resources[e.exec_sequence].cloexec = e.exec_cloexec
      /\ AtExec(e.exec_sequence, e.pid)

LEMMA AttemptKept ==
    ASSUME TypeOK, NEW ev, Appends(ev), NEW e, AttemptOK(e),
           e.exec_pending => ev.pid # e.pid \/ ev.kind = "EXEC"
    PROVE  AttemptOK(e)'
<1>1. CASE ~e.exec_pending
  BY <1>1 DEF AttemptOK
<1>2. CASE e.exec_pending
  <2> DEFINE k == e.exec_sequence
  <2>1. /\ k \in Log /\ e.sequence < k /\ Execs(k, e.pid, e.fd)
        /\ resources[k].cloexec = e.exec_cloexec /\ AtExec(k, e.pid)
    BY <1>2 DEF AttemptOK
  <2>2. k \in Log' /\ resources'[k] = resources[k]
    BY <2>1, AppendedLog DEF TypeOK
  <2>3. AtExec(k, e.pid)'
    BY <1>2, <2>1, AppendedLog DEF AtExec, TypeOK
  <2> QED BY <2>1, <2>2, <2>3 DEF AttemptOK, Execs, IsFor
<1> QED BY <1>1, <1>2

LEMMA PendingStep ==
    ASSUME ReplayAssumption, TypeOK, PendingIsOpenAttempt, [Next]_vars
    PROVE  PendingIsOpenAttempt'
<1>1. \A e \in fds : AttemptOK(e)
  BY DEF PendingIsOpenAttempt, AttemptOK
<1>2. SUFFICES \A x \in fds' : AttemptOK(x)'
  BY DEF PendingIsOpenAttempt, AttemptOK
<1>3. CASE \E ev \in Inputs : Appends(ev) /\ \A x \in fds' : Accounted(x, ev)
  <2>1. PICK ev \in Inputs : Appends(ev) /\ \A x \in fds' : Accounted(x, ev)
    BY <1>3
  <2>2. ASSUME NEW x \in fds' PROVE AttemptOK(x)'
    <3>1. CASE Kept(x, ev)
      <4>1. PICK e \in fds : SameFd(x, e) /\ (x.exec_pending => ev.pid # e.pid \/ ev.kind = "EXEC")
        BY <3>1 DEF Kept
      <4>2. CASE ~x.exec_pending
        BY <4>2 DEF AttemptOK
      <4>3. CASE x.exec_pending
        BY <1>1, <2>1, <4>1, <4>3, AttemptKept DEF SameFd
      <4> QED BY <4>2, <4>3
    <3>2. CASE Opened(x, ev) \/ Bequeathed(x, ev)
      <4>1. ~x.exec_pending
        BY <3>2 DEF Opened, Bequeathed, NewFd
      <4> QED BY <4>1 DEF AttemptOK
    <3>3. CASE Snapped(x, ev)
      <4>1. PICK e \in Entries(fds, ev.pid, ev.fd) : x = Marked(e, ev)
        BY <3>3 DEF Snapped
      <4>2. /\ e.pid = ev.pid /\ e.fd = ev.fd /\ FdOK(e, Len(resources))
            /\ e.sequence <= Len(resources) /\ e.sequence \in Nat
        BY DEF Entries, TypeOK, FdOK, LiveFd, Log
      <4>3. ev.cloexec \in BOOLEAN /\ ev.kind = "EXEC"
        BY <3>3, InputFields DEF Snapped
      <4>4. /\ x.pid = ev.pid /\ x.fd = ev.fd /\ x.sequence = e.sequence
            /\ x.exec_cloexec = ev.cloexec /\ x.exec_sequence = Len(resources) + 1
        BY <4>1, <4>2, <4>3, MarkedOK
      <4>5. x.exec_sequence \in Log' /\ resources'[x.exec_sequence] = ev
        BY <2>1, <4>4, AppendedLog DEF TypeOK, Sequence
      <4>6. AtExec(x.exec_sequence, x.pid)'
        <5>1. \A j \in Log' : j >= Len(resources) + 1 => j = Len(resources) + 1
          BY <2>1, AppendedLog DEF TypeOK, Log
        <5> QED BY <4>3, <4>4, <4>5, <5>1 DEF AtExec
      <4> QED BY <4>2, <4>3, <4>4, <4>5, <4>6 DEF AttemptOK, Execs, IsFor
    <3> QED BY <2>1, <3>1, <3>2, <3>3 DEF Accounted
  <2> QED BY <2>2
<1>4. CASE UNCHANGED resources /\ \A x \in fds' : \E e \in fds : SameFd(x, e)
  <2>1. \A x \in fds' : x.exec_pending => x \in fds
    BY <1>4 DEF SameFd
  <2> QED BY <1>1, <1>4, <2>1 DEF AttemptOK, Execs, IsFor, AtExec, Log
<1>5. CASE UNCHANGED vars
  BY <1>1, <1>5 DEF AttemptOK, Execs, IsFor, AtExec, Log, vars
<1> QED BY <1>3, <1>4, <1>5, TableStep

\* A mark in the table is the mark of the attempt its process is in: no record
\* that settles or fails the attempt ever leaves it behind.
THEOREM PendingMarks == Spec => []PendingIsOpenAttempt
<1>1. Init => TypeOK /\ PendingIsOpenAttempt
  <2>1. Init => resources \in Seq(Inputs) /\ Len(resources) <= MaxRecords
    BY ReplayAssumption DEF Init, ReplayAssumption
  <2> QED BY <2>1 DEF Init, TypeOK, PendingIsOpenAttempt
<1>2. TypeOK /\ PendingIsOpenAttempt /\ [Next]_vars => (TypeOK /\ PendingIsOpenAttempt)'
  BY ReplayAssumption, TypeStep, PendingStep
<1> QED BY <1>1, <1>2, PTL DEF Spec

-----------------------------------------------------------------------------
(* Rollback.                                                               *)

\* Findings only go when an EXEC_FAIL record matches them.
LEMMA FindingsKept ==
    ASSUME Next, NEW f \in findings, f \notin findings'
    PROVE  \E ev \in Inputs : ExecFail(ev) /\ FindingMatches(f, ev)
BY ZenonT(30) DEF Next, Ingest, FdOpen, FdClose, FdCloseStray, AllocStore, FreeBlock, FreeStray, Realloc,
       Fork, Spawn, Exec, ExecUnknown, ExecFail, Generic, SettleFails, StoreFails,
       Finalize, FinalizeFails

\* A finding is final once its process has logged anything but a snapshot: the
\* rollback of a later failed exec cannot reach it.
THEOREM RollbackIsLocal == Spec => FinalOnceProcessMovesOn
<1> DEFINE Keeps == \A f \in InheritFindings : ~AtExec(f.sequence, f.pid) => f \in findings'
<1>1. TypeOK /\ [Next]_vars => [Keeps]_vars
  <2>1. SUFFICES ASSUME TypeOK, Next, NEW f \in InheritFindings, f \notin findings'
                 PROVE  AtExec(f.sequence, f.pid)
    OBVIOUS
  <2>2. PICK ev \in Inputs : FindingMatches(f, ev)
    BY <2>1, FindingsKept DEF InheritFindings
  <2>3. f.sequence \in Log /\ Len(resources) \in Nat
    BY <2>1 DEF TypeOK, InheritFindings
  <2>4. \A j \in Log : j >= f.sequence => resources[j].kind = "EXEC"
    BY <2>2, <2>3 DEF FindingMatches, AttemptMatches, Log
  <2> QED BY <2>4 DEF AtExec
<1> QED BY <1>1, TypeCorrect, PTL DEF Spec, FinalOnceProcessMovesOn

-----------------------------------------------------------------------------
(* Births.                                                                 *)

LEMMA BornKept ==
    ASSUME TypeOK, NEW ev, Appends(ev), NEW x, NEW e \in fds, Born(e),
           x.pid = e.pid, x.fd = e.fd, x.site = e.site, x.sequence = e.sequence
    PROVE  Born(x)' /\ (Opens(e.sequence, e.pid, e.fd) => Opens(x.sequence, x.pid, x.fd)')
<1>1. e.sequence \in Log
  BY DEF TypeOK
<1>2. resources'[x.sequence] = resources[e.sequence]
  BY <1>1, AppendedLog DEF TypeOK
<1> QED BY <1>2 DEF Born, Opens, IsFor

\* An entry of the next table is an entry of this one, as far as its birth goes,
\* or is born by the record.
Inherits(x, e) == x.pid = e.pid /\ x.fd = e.fd /\ x.site = e.site /\ x.sequence = e.sequence

LEMMA OldOrNew ==
    ASSUME ReplayAssumption, TypeOK, NEW ev \in Inputs, Appends(ev), NEW x, Accounted(x, ev)
    PROVE  \/ \E e \in fds : Inherits(x, e)
           \/ x.sequence = Len(resources) + 1 /\ (Opened(x, ev) \/ Bequeathed(x, ev))
<1>1. CASE Kept(x, ev)
  BY <1>1 DEF Kept, SameFd, Inherits
<1>2. CASE Opened(x, ev) \/ Bequeathed(x, ev)
  <2>1. x.sequence = Len(resources) + 1
    BY <1>2 DEF Opened, Bequeathed, NewFd, Sequence
  <2> QED BY <1>2, <2>1
<1>3. CASE Snapped(x, ev)
  <2>1. PICK e \in fds : x = Marked(e, ev)
    BY <1>3 DEF Snapped, Entries
  <2>2. FdOK(e, Len(resources)) /\ ev.cloexec \in BOOLEAN
    BY InputFields DEF TypeOK, FdOK, Log
  <2> QED BY <2>1, <2>2, MarkedOK DEF Inherits
<1> QED BY <1>1, <1>2, <1>3 DEF Accounted

LEMMA BornStep ==
    ASSUME ReplayAssumption, TypeOK, \A e \in fds : Born(e), [Next]_vars, NEW x \in fds'
    PROVE  Born(x)'
<1>1. CASE \E ev \in Inputs : Appends(ev) /\ \A y \in fds' : Accounted(y, ev)
  <2>1. PICK ev \in Inputs : Appends(ev) /\ Accounted(x, ev)
    BY <1>1
  <2>2. CASE \E e \in fds : Inherits(x, e)
    BY <2>1, <2>2, BornKept DEF Inherits
  <2>3. CASE x.sequence = Len(resources) + 1 /\ (Opened(x, ev) \/ Bequeathed(x, ev))
    <3>1. resources'[x.sequence] = ev
      BY <2>1, <2>3, AppendedLog DEF TypeOK
    <3>2. CASE Opened(x, ev)
      <4>1. x.pid = ev.pid /\ x.fd = ev.fd /\ x.site = ev.site /\ ev.kind = "FD_OPEN"
        BY <3>2 DEF Opened, NewFd
      <4> QED BY <3>1, <4>1 DEF Born, Opens, IsFor
    <3>3. CASE Bequeathed(x, ev)
      <4>1. x.pid = ev.child_pid /\ ev.kind = "FORK"
        BY <3>3 DEF Bequeathed, NewFd
      <4> QED BY <3>1, <4>1 DEF Born
    <3> QED BY <2>3, <3>2, <3>3
  <2> QED BY <2>1, <2>2, <2>3, OldOrNew
<1>2. CASE UNCHANGED resources /\ \A y \in fds' : \E e \in fds : SameFd(y, e)
  <2>1. PICK e \in fds : SameFd(x, e)
    BY <1>2
  <2> QED BY <1>2, <2>1 DEF SameFd, Born, Opens, IsFor
<1>3. CASE UNCHANGED vars
  BY <1>3 DEF Born, Opens, IsFor, vars
<1> QED BY <1>1, <1>2, <1>3, TableStep

-----------------------------------------------------------------------------
(* Findings are backed by the log.                                         *)

LEMMA FindingsStep ==
    ASSUME TypeOK, Next, NEW f \in InheritFindings'
    PROVE  \/ f \in InheritFindings /\ UNCHANGED resources
           \/ /\ f \in InheritFindings
              /\ \E ev \in Inputs :
                   Appends(ev) /\ (ev.kind = "EXEC_FAIL" => ~FindingMatches(f, ev))
           \/ \E ev \in Inputs : \E e \in Entries(fds, ev.pid, ev.fd) :
                Appends(ev) /\ ev.kind = "EXEC" /\ ~ev.cloexec /\ f = InheritFinding(ev, e)
<1> DEFINE Kin(ev) == Appends(ev) /\ (ev.kind = "EXEC_FAIL" => ~FindingMatches(f, ev))
<1>0. f \in findings' /\ f.kind = "EXEC_INHERIT"
  BY DEF InheritFindings
<1>1. ASSUME NEW ev \in Inputs, Exec(ev), f \notin findings
      PROVE  \E e \in Entries(fds, ev.pid, ev.fd) :
               Appends(ev) /\ ev.kind = "EXEC" /\ ~ev.cloexec /\ f = InheritFinding(ev, e)
  <2>1. SettledFds(ev) = fds /\ Appends(ev) /\ ev.kind = "EXEC"
    BY <1>1, ExecSettlesNothing DEF Exec, Stored, Appends
  <2> QED BY <1>0, <1>1, <2>1 DEF Exec, ExecInherits
<1>2. ASSUME NEW ev \in Inputs, Exec(ev), f \in findings
      PROVE  Kin(ev)
  BY <1>2 DEF Exec, Stored, Appends
<1>3. ASSUME NEW ev \in Inputs, ExecFail(ev)
      PROVE  f \in findings /\ Kin(ev)
  BY <1>0, <1>3 DEF ExecFail, Stored, Appends
<1>4. ASSUME NEW ev \in Inputs,
             \/ FdOpen(ev) \/ FdClose(ev) \/ FdCloseStray(ev) \/ AllocStore(ev)
             \/ FreeBlock(ev) \/ FreeStray(ev) \/ Realloc(ev) \/ Fork(ev) \/ Spawn(ev)
             \/ ExecUnknown(ev) \/ Generic(ev)
      PROVE  f \in findings /\ Kin(ev)
  BY <1>0, <1>4 DEF FdOpen, FdClose, FdCloseStray, AllocStore, FreeBlock, FreeStray, Realloc,
                    Fork, Spawn, ExecUnknown, Generic, Stored, Appends
<1>5. ASSUME NEW ev \in Inputs, SettleFails(ev) \/ StoreFails(ev)
      PROVE  f \in findings /\ UNCHANGED resources
  BY <1>0, <1>5 DEF SettleFails, StoreFails
<1>6. CASE Finalize \/ FinalizeFails
  <2>1. \A r \in Reportable : r.kind = "LIFECYCLE"
    BY DEF Reportable
  <2>2. f \notin Reportable
    BY <1>0, <2>1
  <2>3. f \in findings /\ UNCHANGED resources
    BY <1>0, <1>6, <2>2 DEF Finalize, FinalizeFails
  <2> QED BY <1>0, <2>3 DEF InheritFindings
<1> QED BY <1>0, <1>1, <1>2, <1>3, <1>4, <1>5, <1>6 DEF Next, Ingest, InheritFindings

LEMMA BackedKept ==
    ASSUME TypeOK, NEW ev, Appends(ev), NEW f \in InheritFindings, Backed(f),
           f.previous_sequence \in Log,
           ev.kind = "EXEC_FAIL" => ~FindingMatches(f, ev)
    PROVE  Backed(f)'
<1> DEFINE n == Len(resources)
           q == f.sequence
           b == f.previous_sequence
<1>1. q \in Log /\ b \in Log /\ n \in Nat /\ f.kind = "EXEC_INHERIT"
  BY DEF TypeOK, InheritFindings
<1>2. /\ resources'[q] = resources[q] /\ resources'[b] = resources[b]
      /\ \A i \in Log : resources'[i] = resources[i]
      /\ resources'[n + 1] = ev
      /\ \A j \in Log' : j \in Log \/ j = n + 1
      /\ q \in Nat /\ q <= n /\ \A j \in Log' : j \in Nat
  BY <1>1, AppendedLog DEF TypeOK, Log
<1>3. ASSUME NEW k \in Log', FailsAt(q, k)', OneCall(q, k)'
      PROVE  BrokenUp(q, k)'
  <2>0. k \in Nat /\ k > q
    BY <1>2, <1>3 DEF FailsAt
  <2>1. CASE k \in Log
    <3>1. \A i \in q .. k : i \in Log /\ resources'[i] = resources[i]
      BY <1>1, <1>2, <2>1 DEF Log
    <3>2. FailsAt(q, k) /\ OneCall(q, k)
      <4>1. /\ q \in q .. k /\ k \in q .. k
            /\ \A i \in q .. k-1 : i \in q .. k
            /\ \A i \in q+1 .. k-1 : i \in q .. k
        BY <1>2, <2>0
      <4> QED BY <1>3, <3>1, <4>1 DEF FailsAt, OneCall
    <3>3. BrokenUp(q, k)
      BY <2>1, <3>2 DEF Backed
    <3>4. q \in q .. k /\ \A i \in q+1 .. k-1 : i \in q .. k
      BY <1>2, <2>0
    <3> QED BY <3>1, <3>3, <3>4 DEF BrokenUp
  <2>2. CASE k = n + 1
    <3>1. /\ resources'[k] = ev /\ ev.kind = "EXEC_FAIL" /\ ~FindingMatches(f, ev)
          /\ ev.pid = resources[q].pid /\ ev.target # Null
      <4>1. resources'[k] = ev /\ ev.kind = "EXEC_FAIL" /\ ev.pid = resources[q].pid
        BY <1>2, <1>3, <2>2 DEF FailsAt
      <4>2. ev.target # Null
        BY <1>3, <4>1 DEF OneCall
      <4> QED BY <4>1, <4>2
    <3>2. resources[q].pid = f.pid /\ resources[q].target = f.target
      BY DEF Backed, Execs, IsFor
    <3>3. ASSUME ~BrokenUp(q, k)' PROVE FALSE
      <4>1. ASSUME NEW i \in q .. n PROVE AttemptMatches(resources[i], ev)
        <5>1. i \in Log /\ resources'[i] = resources[i] /\ i \in q .. k-1 /\ i \in Nat
          BY <1>1, <1>2, <2>2 DEF Log
        <5>2. resources[i].pid = resources[q].pid
          <6>1. CASE i = q
            BY <6>1
          <6>2. CASE i # q
            <7>1. i \in q+1 .. k-1
              BY <1>2, <2>0, <5>1, <6>2
            <7> QED BY <1>2, <3>3, <5>1, <7>1 DEF BrokenUp
          <6> QED BY <6>1, <6>2
        <5>3. /\ resources[i].kind = "EXEC" /\ resources[i].target = ev.target
              /\ resources[i].site = ev.site
          BY <1>2, <1>3, <3>1, <5>1, <5>2 DEF OneCall
        <5> QED BY <3>1, <5>2, <5>3 DEF AttemptMatches
      <4>2. q \in q .. n
        BY <1>1 DEF Log
      <4>3. resources[q].target = ev.target
        BY <4>1, <4>2 DEF AttemptMatches
      <4> QED BY <1>1, <3>1, <3>2, <4>1, <4>3 DEF FindingMatches
    <3> QED BY <3>3
  <2> QED BY <1>2, <2>1, <2>2
<1> QED BY <1>2, <1>3 DEF Backed, Execs, Opens, IsFor

\* Backed needs the births of the descriptors, and that a finding points at one.
BackedInv ==
    /\ TypeOK
    /\ \A e \in fds : Born(e)
    /\ InheritFindingsAreBacked
    /\ \A f \in InheritFindings : f.previous_sequence \in Log

LEMMA BackedStep ==
    ASSUME ReplayAssumption, BackedInv, Next, NEW f \in InheritFindings'
    PROVE  Backed(f)' /\ f.previous_sequence \in Log'
<1>0. TypeOK /\ InheritFindingsAreBacked
  BY DEF BackedInv
<1>1. CASE f \in InheritFindings /\ UNCHANGED resources
  BY <1>1 DEF BackedInv, InheritFindingsAreBacked, Backed, Execs, Opens, IsFor, Log, FailsAt, OneCall, BrokenUp
<1>2. CASE /\ f \in InheritFindings
           /\ \E ev \in Inputs : Appends(ev) /\ (ev.kind = "EXEC_FAIL" => ~FindingMatches(f, ev))
  BY <1>0, <1>2, BackedKept, AppendedLog DEF BackedInv, InheritFindingsAreBacked, TypeOK
<1>3. ASSUME NEW ev \in Inputs, NEW e \in Entries(fds, ev.pid, ev.fd),
             Appends(ev), ev.kind = "EXEC", ~ev.cloexec, f = InheritFinding(ev, e)
      PROVE  Backed(f)' /\ f.previous_sequence \in Log'
  <2> DEFINE n == Len(resources)
  <2>1. /\ f.sequence = n + 1 /\ f.pid = ev.pid /\ f.fd = ev.fd /\ f.target = ev.target
        /\ f.previous_sequence = e.sequence
    BY <1>3 DEF InheritFinding, Sequence
  <2>2. e.sequence \in Log /\ n \in Nat /\ Born(e) /\ e.pid = ev.pid /\ e.fd = ev.fd
    BY DEF BackedInv, Entries, TypeOK
  <2>3. /\ resources'[n + 1] = ev
        /\ resources'[e.sequence] = resources[e.sequence]
        /\ e.sequence \in Log'
        /\ \A j \in Log' : ~(j > n + 1)
    BY <1>0, <1>3, <2>2, AppendedLog DEF TypeOK, Log
  <2>4. \A k \in Log' : ~FailsAt(f.sequence, k)'
    BY <2>1, <2>2, <2>3 DEF FailsAt
  <2> QED BY <1>3, <2>1, <2>2, <2>3, <2>4 DEF Backed, Born, Execs, Opens, IsFor, Log
<1> QED BY <1>0, <1>1, <1>2, <1>3, FindingsStep

\* Every EXEC_INHERIT finding rests on records of the log: an exec snapshot that
\* was not close-on-exec, a birth before it, and, if its exec failed, a record that
\* another process logged between the snapshot and the EXEC_FAIL; even when memory
\* runs out on the way (model.c:228-239, 360-391).
THEOREM FindingsBacked == Spec => []InheritFindingsAreBacked
<1>1. Init => BackedInv
  <2>1. Init => resources \in Seq(Inputs) /\ Len(resources) <= MaxRecords
    BY ReplayAssumption DEF Init, ReplayAssumption
  <2> QED BY <2>1 DEF Init, BackedInv, TypeOK, InheritFindingsAreBacked, InheritFindings
<1>2. BackedInv /\ [Next]_vars => BackedInv'
  <2>1. SUFFICES ASSUME BackedInv, [Next]_vars PROVE BackedInv'
    OBVIOUS
  <2>2. TypeOK' /\ \A e \in fds' : Born(e)'
    BY <2>1, ReplayAssumption, TypeStep, BornStep DEF BackedInv
  <2>3. CASE Next
    BY <2>1, <2>2, <2>3, ReplayAssumption, BackedStep DEF BackedInv, InheritFindingsAreBacked
  <2>4. CASE UNCHANGED vars
    BY <2>1, <2>2, <2>4 DEF BackedInv, InheritFindingsAreBacked, InheritFindings, Backed, Execs,
                           Opens, IsFor, Log, FailsAt, OneCall, BrokenUp, vars
  <2> QED BY <2>1, <2>3, <2>4
<1>3. BackedInv => InheritFindingsAreBacked
  BY DEF BackedInv
<1> QED BY <1>1, <1>2, <1>3, PTL DEF Spec

-----------------------------------------------------------------------------
(* Duplicates.                                                             *)

SameBirth(e, g) == Slot(e) = Slot(g) /\ e.sequence = g.sequence

Distinct(table) == \A e, g \in table : SameBirth(e, g) => e = g

LEMMA SweptDistinct ==
    ASSUME TypeOK, EntriesAreDistinct, NEW swept, swept \subseteq fds
    PROVE  Distinct(SweptFds(swept))
<1>1. ASSUME NEW x \in SweptFds(swept)
      PROVE  \E e \in fds : SameBirth(x, e) /\ x = IF e \in swept THEN Cleared(e) ELSE e
  <2>1. CASE x \in fds \ swept
    BY <2>1 DEF SameBirth
  <2>2. CASE \E e \in swept : x = Cleared(e)
    <3>1. PICK e \in swept : x = Cleared(e)
      BY <2>2
    <3>2. FdOK(e, Len(resources)) /\ Len(resources) \in Nat
      BY DEF TypeOK, FdOK, Log
    <3>3. SameBirth(Cleared(e), e)
      BY <3>2, ClearedOK DEF SameBirth, Slot
    <3> QED BY <3>1, <3>3
  <2> QED BY <2>1, <2>2 DEF SweptFds
<1> QED BY <1>1 DEF Distinct, EntriesAreDistinct, SameBirth

LEMMA SettledDistinct ==
    ASSUME TypeOK, EntriesAreDistinct, NEW ev
    PROVE  Distinct(SettledFds(ev)) /\ \A e \in SettledFds(ev) : e.sequence \in Log
<1>1. \A e \in SettledFds(ev) : e.sequence \in Log
  BY SettledOK DEF FdOK, Log
<1> QED BY <1>1, SweptDistinct, SettlingPending DEF SettledFds

LEMMA DistinctStep ==
    ASSUME ReplayAssumption, TypeOK, EntriesAreDistinct, [Next]_vars
    PROVE  EntriesAreDistinct'
<1>0. SUFFICES Distinct(fds')
  BY DEF EntriesAreDistinct, Distinct, SameBirth, Slot
<1>a. Distinct(fds) /\ Len(resources) \in Nat /\ Sequence = Len(resources) + 1
  BY DEF EntriesAreDistinct, Distinct, SameBirth, TypeOK, Sequence
<1>b. \A ev : Distinct(SettledFds(ev)) /\ \A e \in SettledFds(ev) : e.sequence # Sequence
  BY <1>a, SettledDistinct DEF Log
<1>1. ASSUME NEW ev \in Inputs, FdOpen(ev) PROVE Distinct(fds')
  <2>1. NewFd(ev.pid, ev.fd, ev.site).sequence = Sequence
    BY DEF NewFd
  <2> QED BY <1>1, <1>b, <2>1 DEF FdOpen, Distinct, SameBirth
<1>2. ASSUME NEW ev \in Inputs,
             \/ FdClose(ev) \/ FdCloseStray(ev) \/ AllocStore(ev) \/ FreeBlock(ev)
             \/ FreeStray(ev) \/ Realloc(ev) \/ Spawn(ev) \/ ExecUnknown(ev) \/ Generic(ev)
             \/ StoreFails(ev)
      PROVE  Distinct(fds')
  <2>1. fds' \subseteq SettledFds(ev)
    BY <1>2 DEF FdClose, FdCloseStray, AllocStore, FreeBlock, FreeStray, Realloc, Spawn,
                ExecUnknown, Generic, StoreFails, Settle
  <2> QED BY <1>b, <2>1 DEF Distinct
<1>3. ASSUME NEW ev \in Inputs, Fork(ev) PROVE Distinct(fds')
  <2>1. ASSUME NEW x \in fds' \ SettledFds(ev) PROVE x.sequence = Sequence
    BY <1>3, ForkTable DEF NewFd
  <2>2. ASSUME NEW x \in fds', NEW y \in fds', SameBirth(x, y) PROVE x = y
    <3>1. x.fd = y.fd /\ x.sequence = y.sequence
      BY <2>2 DEF SameBirth, Slot
    <3>2. CASE x \in SettledFds(ev) /\ y \in SettledFds(ev)
      BY <1>b, <2>2, <3>2 DEF Distinct
    <3>3. CASE x \notin SettledFds(ev) /\ y \notin SettledFds(ev)
      BY <1>3, <3>1, <3>3, ForkTable
    <3>4. CASE (x \in SettledFds(ev)) # (y \in SettledFds(ev))
      BY <1>b, <2>1, <3>1, <3>4
    <3> QED BY <3>2, <3>3, <3>4
  <2> QED BY <2>2 DEF Distinct
<1>4. ASSUME NEW ev \in Inputs, Exec(ev) PROVE Distinct(fds')
  <2>0. SettledFds(ev) = fds
    BY <1>4, ExecSettlesNothing DEF Exec
  <2>1. PICK e \in fds : fds' = (fds \ {e}) \cup {Marked(e, ev)}
    BY <1>4, <2>0 DEF Exec, Entries, Marked
  <2>2. SameBirth(Marked(e, ev), e)
    <3>1. FdOK(e, Len(resources)) /\ ev.cloexec \in BOOLEAN
      BY InputFields DEF TypeOK, FdOK, Log
    <3> QED BY <3>1, MarkedOK DEF SameBirth, Slot
  <2> QED BY <1>a, <2>1, <2>2 DEF Distinct, SameBirth
<1>5. ASSUME NEW ev \in Inputs, ExecFail(ev) PROVE Distinct(fds')
  <2>1. \A x \in fds' : \E e \in fds :
          x = IF e.pid = ev.pid /\ e.exec_pending THEN Cleared(e) ELSE e
    BY <1>5, ExecSettlesNothing DEF ExecFail
  <2>2. \A e \in fds : SameBirth(Cleared(e), e)
    <3>1. \A e \in fds : FdOK(e, Len(resources))
      BY DEF TypeOK, FdOK, Log
    <3> QED BY <1>a, <3>1, ClearedOK DEF SameBirth, Slot
  <2> QED BY <1>a, <2>1, <2>2 DEF Distinct, SameBirth
<1>6. ASSUME NEW ev \in Inputs, SettleFails(ev) PROVE Distinct(fds')
  BY <1>6, SweptDistinct, SettlingPending DEF SettleFails, SweepFails
<1>7. CASE Finalize \/ FinalizeFails \/ UNCHANGED vars
  <2>1. fds' \subseteq fds
    BY <1>7 DEF Finalize, FinalizeFails, vars
  <2> QED BY <1>a, <2>1 DEF Distinct
<1> QED BY <1>1, <1>2, <1>3, <1>4, <1>5, <1>6, <1>7 DEF Next, Ingest

LEMMA DuplicatesStep ==
    ASSUME ReplayAssumption, TypeOK, \A e \in fds : Born(e), DuplicatesAreOpens, [Next]_vars
    PROVE  DuplicatesAreOpens'
<1>0. \A e \in fds : e.sequence \in Log /\ Len(resources) \in Nat
  BY DEF TypeOK
<1>1. CASE \E ev \in Inputs : Appends(ev) /\ \A x \in fds' : Accounted(x, ev)
  <2>1. PICK ev \in Inputs : Appends(ev) /\ \A x \in fds' : Accounted(x, ev)
    BY <1>1
  <2>2. ASSUME NEW x \in fds', NEW y \in fds', Slot(x) = Slot(y), x.sequence < y.sequence
        PROVE  Opens(y.sequence, y.pid, y.fd)'
    <3>1. x.pid = y.pid /\ x.fd = y.fd
      BY <2>2 DEF Slot
    <3>2. CASE \E g \in fds : Inherits(y, g)
      <4>1. PICK g \in fds : Inherits(y, g)
        BY <3>2
      <4>2. PICK e \in fds : Inherits(x, e)
        <5>1. x.sequence # Len(resources) + 1
          BY <1>0, <2>2, <4>1 DEF Inherits, Log
        <5>2. Accounted(x, ev)
          BY <2>1
        <5> QED BY <2>1, <5>1, <5>2, OldOrNew
      <4>3. Opens(g.sequence, g.pid, g.fd)
        BY <2>2, <3>1, <4>1, <4>2 DEF DuplicatesAreOpens, Inherits, Slot
      <4> QED BY <2>1, <4>1, <4>3, BornKept DEF Inherits
    <3>3. CASE Opened(y, ev)
      <4>1. y.sequence = Len(resources) + 1 /\ y.pid = ev.pid /\ y.fd = ev.fd
        BY <3>3 DEF Opened, NewFd, Sequence
      <4>2. resources'[y.sequence] = ev /\ ev.kind = "FD_OPEN"
        BY <2>1, <3>3, <4>1, AppendedLog DEF TypeOK, Opened
      <4> QED BY <4>1, <4>2 DEF Opens, IsFor
    <3>4. CASE Bequeathed(y, ev)
      <4>1. Kept(x, ev)
        <5>1. y.sequence = Sequence /\ ev.kind = "FORK"
          BY <3>4 DEF Bequeathed, NewFd
        <5>2. ~Opened(x, ev) /\ ~Snapped(x, ev)
          BY <5>1 DEF Opened, Snapped
        <5>3. ~Bequeathed(x, ev)
          BY <1>0, <2>2, <5>1 DEF Bequeathed, NewFd, Sequence, TypeOK
        <5> QED BY <2>1, <5>2, <5>3 DEF Accounted
      <4>2. x \in SettledFds(ev)
        BY <3>4, <4>1 DEF Bequeathed, Kept
      <4>3. Entries(SettledFds(ev), y.pid, y.fd) = {}
        BY <3>4 DEF Bequeathed, Inherited, NewFd
      <4> QED BY <3>1, <4>2, <4>3 DEF Entries
    <3> QED BY <2>1, <3>2, <3>3, <3>4, OldOrNew
  <2> QED BY <2>2 DEF DuplicatesAreOpens, Slot
<1>2. CASE UNCHANGED resources /\ \A x \in fds' : \E e \in fds : SameFd(x, e)
  BY <1>2 DEF DuplicatesAreOpens, SameFd, Slot, Opens, IsFor
<1>3. CASE UNCHANGED vars
  BY <1>3 DEF DuplicatesAreOpens, Slot, Opens, IsFor, vars
<1> QED BY <1>1, <1>2, <1>3, TableStep

\* Every entry of the descriptor table has its birth in the log, no entry is
\* there twice, and of two entries for one descriptor the later is an open:
\* FORK never gives a child what it already holds.
THEOREM FdsFromLog == Spec => []FdsComeFromLog
<1>1. Init => TypeOK /\ FdsComeFromLog
  <2>1. Init => resources \in Seq(Inputs) /\ Len(resources) <= MaxRecords
    BY ReplayAssumption DEF Init, ReplayAssumption
  <2> QED BY <2>1 DEF Init, TypeOK, FdsComeFromLog, DuplicatesAreOpens, EntriesAreDistinct
<1>2. TypeOK /\ FdsComeFromLog /\ [Next]_vars => (TypeOK /\ FdsComeFromLog)'
  <2>1. SUFFICES ASSUME TypeOK, FdsComeFromLog, [Next]_vars PROVE TypeOK' /\ FdsComeFromLog'
    OBVIOUS
  <2>2. TypeOK' /\ DuplicatesAreOpens' /\ EntriesAreDistinct' /\ \A x \in fds' : Born(x)'
    BY <2>1, ReplayAssumption, TypeStep, BornStep, DuplicatesStep, DistinctStep DEF FdsComeFromLog
  <2> QED BY <2>2 DEF FdsComeFromLog
<1> QED BY <1>1, <1>2, PTL DEF Spec

-----------------------------------------------------------------------------
(***************************************************************************)
(* What the tables remember: ForkNeverRevives, OpenDescriptorsAreHeld and  *)
(* InheritanceIsReported.                                                  *)
(*                                                                         *)
(* ForkNeverRevives speaks of entries a FORK made, but FORK only looks at  *)
(* the tables.  That they remember enough is the invariant: while the      *)
(* replay goes well, a descriptor some record opened is in one of the two  *)
(* tables, and one that a later record closed is in the table of closed    *)
(* ones.                                                                   *)
(*                                                                         *)
(* The other two say that neither the table nor the findings lack what the *)
(* log calls for.  An open descriptor can only be lost by a sweep, and a   *)
(* sweep only takes an entry that is marked close-on-exec.                 *)
(* PendingIsOpenAttempt says what such a mark stands for: a snapshot after *)
(* the open, whose attempt the record in hand shows to have crossed, so    *)
(* the log closes the descriptor too.  A snapshot then always finds its    *)
(* descriptor in the table.                                                *)
(***************************************************************************)

HeldIn(table, closed) ==
    \A i \in Log :
      resources[i].kind = "FD_OPEN" =>
        \/ Entries(table, resources[i].pid, resources[i].fd) # {}
        \/ <<resources[i].pid, resources[i].fd>> \in closed

OpensAreHeld == HeldIn(fds, closed_fds)

ClosesAreRecorded ==
    \A i, j \in Log :
      /\ i < j
      /\ resources[j].kind = "FD_CLOSE"
      /\ Opens(i, resources[j].pid, resources[j].fd)
      => <<resources[j].pid, resources[j].fd>> \in closed_fds

ForkInv ==
    /\ TypeOK
    /\ ForkNeverRevives
    /\ ~err /\ ~finalized => OpensAreHeld /\ ClosesAreRecorded

-----------------------------------------------------------------------------
(* What a step does to the two tables.                                     *)

\* A sweep forgets no slot: what leaves the one table enters the other.
LEMMA SweepForgetsNothing ==
    ASSUME TypeOK, OpensAreHeld, NEW ev
    PROVE  /\ HeldIn(SettledFds(ev), SettledClosed(ev))
           /\ closed_fds \subseteq SettledClosed(ev)
<1> DEFINE swept == Settling(ev)
<1>1. closed_fds \subseteq SettledClosed(ev)
  BY DEF SettledClosed, SweptClosed
<1>2. ASSUME NEW e \in fds
      PROVE  \/ \E x \in SettledFds(ev) : x.pid = e.pid /\ x.fd = e.fd
             \/ <<e.pid, e.fd>> \in SettledClosed(ev)
  <2>1. CASE e \notin swept
    BY <2>1 DEF SettledFds, SweptFds
  <2>2. CASE e \in swept /\ e.exec_cloexec
    BY <2>2 DEF SettledClosed, SweptClosed, Slot
  <2>3. CASE e \in swept /\ ~e.exec_cloexec
    <3>1. Cleared(e) \in SettledFds(ev)
      BY <2>3 DEF SettledFds, SweptFds
    <3>2. FdOK(e, Len(resources)) /\ Len(resources) \in Nat
      BY DEF TypeOK, FdOK, Log
    <3> QED BY <3>1, <3>2, ClearedOK
  <2> QED BY <2>1, <2>2, <2>3
<1>3. ASSUME NEW i \in Log, resources[i].kind = "FD_OPEN"
      PROVE  \/ Entries(SettledFds(ev), resources[i].pid, resources[i].fd) # {}
             \/ <<resources[i].pid, resources[i].fd>> \in SettledClosed(ev)
  <2>1. CASE <<resources[i].pid, resources[i].fd>> \in closed_fds
    BY <1>1, <2>1
  <2>2. CASE Entries(fds, resources[i].pid, resources[i].fd) # {}
    <3>1. PICK e \in fds : e.pid = resources[i].pid /\ e.fd = resources[i].fd
      BY <2>2 DEF Entries
    <3> QED BY <1>2, <3>1 DEF Entries
  <2> QED BY <1>3, <2>1, <2>2 DEF OpensAreHeld, HeldIn
<1> QED BY <1>1, <1>3 DEF HeldIn

\* The swept table only loses the slot an FD_CLOSE names, gains the slot of an
\* FD_OPEN, and an FD_CLOSE is recorded unless its slot was not there.
Careful(ev) ==
    /\ SettledClosed(ev) \subseteq closed_fds'
    /\ \A e \in SettledFds(ev) :
         \/ \E x \in fds' : x.pid = e.pid /\ x.fd = e.fd
         \/ ev.kind = "FD_CLOSE" /\ e.pid = ev.pid /\ e.fd = ev.fd
    /\ ev.kind = "FD_OPEN" => Entries(fds', ev.pid, ev.fd) # {}
    /\ ev.kind = "FD_CLOSE" =>
         \/ <<ev.pid, ev.fd>> \in closed_fds'
         \/ Entries(SettledFds(ev), ev.pid, ev.fd) = {}

\* A record is read only while nothing went wrong, and when its own reading goes
\* well too, the tables are changed with care.
LEMMA CarefulStep ==
    ASSUME ReplayAssumption, TypeOK, Next, ~err', ~finalized'
    PROVE  \E ev \in Inputs : Appends(ev) /\ Careful(ev)
<1> DEFINE Goal == \E ev \in Inputs : Appends(ev) /\ Careful(ev)
<1>1. ASSUME NEW ev \in Inputs, Stored(ev), fds' = SettledFds(ev),
             closed_fds' = SettledClosed(ev), ev.kind # "FD_OPEN",
             ev.kind = "FD_CLOSE" => Entries(SettledFds(ev), ev.pid, ev.fd) = {}
      PROVE  Goal
  BY <1>1 DEF Stored, Appends, Careful
<1>2. ASSUME NEW ev \in Inputs,
             \/ FdCloseStray(ev) \/ AllocStore(ev) \/ FreeBlock(ev) \/ FreeStray(ev)
             \/ Realloc(ev) \/ Spawn(ev) \/ ExecUnknown(ev) \/ Generic(ev)
      PROVE  Goal
  <2>1. /\ Stored(ev) /\ fds' = SettledFds(ev) /\ closed_fds' = SettledClosed(ev)
        /\ ev.kind # "FD_OPEN"
        /\ ev.kind = "FD_CLOSE" => Entries(SettledFds(ev), ev.pid, ev.fd) = {}
    BY <1>2 DEF FdCloseStray, AllocStore, FreeBlock, FreeStray, Realloc, Spawn, ExecUnknown,
                Generic, Settle
  <2> QED BY <1>1, <2>1
<1>3. ASSUME NEW ev \in Inputs, FdOpen(ev) PROVE Goal
  <2>1. fds' = SettledFds(ev) \cup {NewFd(ev.pid, ev.fd, ev.site)}
    BY <1>3 DEF FdOpen
  <2>2. Entries(fds', ev.pid, ev.fd) # {}
    <3>1. /\ NewFd(ev.pid, ev.fd, ev.site).pid = ev.pid
          /\ NewFd(ev.pid, ev.fd, ev.site).fd = ev.fd
      BY DEF NewFd
    <3>2. NewFd(ev.pid, ev.fd, ev.site) \in Entries(fds', ev.pid, ev.fd)
      BY <2>1, <3>1 DEF Entries
    <3> QED BY <3>2
  <2> QED BY <1>3, <2>1, <2>2 DEF FdOpen, Stored, Appends, Careful
<1>4. ASSUME NEW ev \in Inputs, FdClose(ev) PROVE Goal
  <2>1. PICK e \in Entries(SettledFds(ev), ev.pid, ev.fd) : fds' = SettledFds(ev) \ {e}
    BY <1>4 DEF FdClose
  <2>2. closed_fds' = SettledClosed(ev) \cup {<<ev.pid, ev.fd>>}
    BY <1>4 DEF FdClose
  <2>3. e.pid = ev.pid /\ e.fd = ev.fd
    BY DEF Entries
  <2> QED BY <1>4, <2>1, <2>2, <2>3 DEF FdClose, Stored, Appends, Careful
<1>5. ASSUME NEW ev \in Inputs, Fork(ev) PROVE Goal
  <2>1. SettledFds(ev) \subseteq fds' /\ closed_fds' = SettledClosed(ev) /\ ev.kind = "FORK"
    BY <1>5, ForkTable DEF Fork
  <2> QED BY <1>5, <2>1 DEF Fork, Stored, Appends, Careful
<1>6. ASSUME NEW ev \in Inputs, Exec(ev) PROVE Goal
  <2>1. PICK e \in SettledFds(ev) : fds' = (SettledFds(ev) \ {e}) \cup {Marked(e, ev)}
    BY <1>6 DEF Exec, Entries, Marked
  <2>2. Marked(e, ev).pid = e.pid /\ Marked(e, ev).fd = e.fd
    <3>1. FdOK(e, Len(resources)) /\ ev.cloexec \in BOOLEAN
      BY SettledOK, InputFields
    <3> QED BY <3>1, MarkedOK
  <2> QED BY <1>6, <2>1, <2>2 DEF Exec, Stored, Appends, Careful
<1>7. ASSUME NEW ev \in Inputs, ExecFail(ev) PROVE Goal
  <2>1. \A e \in SettledFds(ev) : Cleared(e).pid = e.pid /\ Cleared(e).fd = e.fd
    <3>1. \A e \in SettledFds(ev) : FdOK(e, Len(resources))
      BY SettledOK
    <3>2. Len(resources) \in Nat
      BY DEF TypeOK
    <3> QED BY <3>1, <3>2, ClearedOK
  <2>2. \A e \in SettledFds(ev) : e \in fds' \/ Cleared(e) \in fds'
    BY <1>7 DEF ExecFail
  <2> QED BY <1>7, <2>1, <2>2 DEF ExecFail, Stored, Appends, Careful
<1>8. ASSUME NEW ev \in Inputs, SettleFails(ev) \/ StoreFails(ev) PROVE FALSE
  BY <1>8 DEF SettleFails, SweepFails, StoreFails
<1>9. CASE Finalize \/ FinalizeFails
  BY <1>9 DEF Finalize, FinalizeFails
<1> QED BY <1>2, <1>3, <1>4, <1>5, <1>6, <1>7, <1>8, <1>9 DEF Next, Ingest

\* Nothing is read after an error or after the end.
LEMMA StepsFromGoodStates ==
    ASSUME Next
    PROVE  ~err /\ ~finalized
BY ZenonT(30) DEF Next, Ingest, Stored, Reading, FdOpen, FdClose, FdCloseStray, AllocStore, FreeBlock,
       FreeStray, Realloc, Fork, Spawn, Exec, ExecUnknown, ExecFail, Generic,
       SettleFails, StoreFails, Finalize, FinalizeFails

-----------------------------------------------------------------------------
(* The three parts of the invariant, step by step.                         *)

LEMMA HeldStep ==
    ASSUME TypeOK, OpensAreHeld, NEW ev \in Inputs, Appends(ev), Careful(ev)
    PROVE  OpensAreHeld'
<1> DEFINE Held(pid, fd) == Entries(fds', pid, fd) # {} \/ <<pid, fd>> \in closed_fds'
<1>1. /\ \A i \in Log : resources'[i] = resources[i]
      /\ resources'[Len(resources) + 1] = ev
      /\ \A i \in Log' : i \in Log \/ i = Len(resources) + 1
  BY AppendedLog DEF TypeOK
<1>2. ASSUME NEW i \in Log, resources[i].kind = "FD_OPEN"
      PROVE  Held(resources[i].pid, resources[i].fd)
  <2>1. \/ Entries(SettledFds(ev), resources[i].pid, resources[i].fd) # {}
        \/ <<resources[i].pid, resources[i].fd>> \in SettledClosed(ev)
    BY <1>2, SweepForgetsNothing DEF HeldIn
  <2> QED BY <2>1 DEF Careful, Entries
<1>3. ev.kind = "FD_OPEN" => Held(ev.pid, ev.fd)
  BY DEF Careful
<1>4. ASSUME NEW i \in Log', resources'[i].kind = "FD_OPEN"
      PROVE  Held(resources'[i].pid, resources'[i].fd)
  BY <1>1, <1>2, <1>3, <1>4
<1> QED BY <1>4 DEF OpensAreHeld, HeldIn, Entries

LEMMA RecordedStep ==
    ASSUME TypeOK, OpensAreHeld, ClosesAreRecorded, NEW ev \in Inputs, Appends(ev), Careful(ev)
    PROVE  ClosesAreRecorded'
<1>1. /\ \A i \in Log : resources'[i] = resources[i]
      /\ resources'[Len(resources) + 1] = ev
      /\ \A i \in Log' : i \in Log \/ i = Len(resources) + 1
      /\ Len(resources) \in Nat
  BY AppendedLog DEF TypeOK
<1>2. HeldIn(SettledFds(ev), SettledClosed(ev)) /\ closed_fds \subseteq closed_fds'
  BY SweepForgetsNothing DEF Careful
<1>3. ASSUME NEW i \in Log', NEW j \in Log', i < j, resources'[j].kind = "FD_CLOSE",
             Opens(i, resources[j].pid, resources[j].fd)'
      PROVE  <<resources'[j].pid, resources'[j].fd>> \in closed_fds'
  <2>1. i \in Log
    BY <1>1, <1>3 DEF Log
  <2>2. CASE j \in Log
    BY <1>1, <1>2, <1>3, <2>1, <2>2 DEF ClosesAreRecorded, Opens, IsFor
  <2>3. CASE j = Len(resources) + 1
    <3>1. ev.kind = "FD_CLOSE" /\ resources[i].kind = "FD_OPEN"
          /\ resources[i].pid = ev.pid /\ resources[i].fd = ev.fd
      BY <1>1, <1>3, <2>1, <2>3 DEF Opens, IsFor
    <3>2. \/ Entries(SettledFds(ev), ev.pid, ev.fd) # {}
          \/ <<ev.pid, ev.fd>> \in SettledClosed(ev)
      BY <1>2, <2>1, <3>1 DEF HeldIn
    <3>3. <<ev.pid, ev.fd>> \in closed_fds'
      BY <3>1, <3>2 DEF Careful
    <3> QED BY <1>1, <2>3, <3>3
  <2> QED BY <1>1, <2>2, <2>3
<1> QED BY <1>3 DEF ClosesAreRecorded, Opens, IsFor

LEMMA RevivesStep ==
    ASSUME ReplayAssumption, ForkInv, Next
    PROVE  ForkNeverRevives'
<1>0. TypeOK /\ ForkNeverRevives /\ ClosesAreRecorded
  BY StepsFromGoodStates DEF ForkInv
<1>1. ASSUME NEW ev \in Inputs, Appends(ev), \A x \in fds' : Accounted(x, ev)
      PROVE  ForkNeverRevives'
  <2> DEFINE n == Len(resources)
  <2>1. /\ \A i \in Log : resources'[i] = resources[i]
        /\ resources'[n + 1] = ev
        /\ \A i \in Log' : i \in Log \/ i = n + 1
        /\ n \in Nat
    BY <1>0, <1>1, AppendedLog DEF TypeOK
  <2>2. ASSUME NEW x \in fds', NEW i \in Log', NEW j \in Log',
               resources'[x.sequence].kind = "FORK",
               i < j, Opens(i, x.pid, x.fd)', Closes(j, x.pid, x.fd)'
        PROVE  x.sequence < j
    <3>1. i \in Log
      BY <2>1, <2>2 DEF Log
    <3>2. CASE \E e \in fds : Inherits(x, e)
      <4>1. PICK e \in fds : Inherits(x, e)
        BY <3>2
      <4>2. x.sequence = e.sequence /\ e.sequence \in Log
        BY <1>0, <4>1 DEF Inherits, TypeOK
      <4>3. CASE j \in Log
        <5>1. /\ resources[e.sequence].kind = "FORK"
              /\ Opens(i, e.pid, e.fd) /\ Closes(j, e.pid, e.fd)
          BY <2>1, <2>2, <3>1, <4>1, <4>2, <4>3 DEF Inherits, Opens, Closes, IsFor
        <5> QED BY <1>0, <2>2, <3>1, <4>2, <4>3, <5>1 DEF ForkNeverRevives
      <4>4. CASE j = n + 1
        BY <2>1, <4>2, <4>4 DEF Log
      <4> QED BY <2>1, <4>3, <4>4
    <3>3. CASE x.sequence = n + 1 /\ Opened(x, ev)
      BY <2>1, <2>2, <3>3 DEF Opened
    <3>4. CASE x.sequence = n + 1 /\ Bequeathed(x, ev)
      <4>1. /\ ev.kind = "FORK"
            /\ <<x.pid, x.fd>> \notin SettledClosed(ev)
        BY <3>4 DEF Bequeathed, Inherited, NewFd
      <4>2. <<x.pid, x.fd>> \notin closed_fds
        BY <4>1 DEF SettledClosed, SweptClosed
      <4>3. j \in Log
        BY <2>1, <2>2, <4>1 DEF Closes, IsFor
      <4>4. <<x.pid, x.fd>> \in closed_fds
        <5>1. Opens(i, x.pid, x.fd) /\ Closes(j, x.pid, x.fd)
          BY <2>1, <2>2, <3>1, <4>3 DEF Opens, Closes, IsFor
        <5> QED BY <1>0, <2>2, <3>1, <4>3, <5>1 DEF ClosesAreRecorded, Closes, IsFor
      <4> QED BY <4>2, <4>4
    <3> QED BY <1>0, <1>1, <3>2, <3>3, <3>4, OldOrNew
  <2> QED BY <2>2 DEF ForkNeverRevives
<1>2. ASSUME UNCHANGED resources, \A x \in fds' : \E e \in fds : SameFd(x, e)
      PROVE  ForkNeverRevives'
  BY <1>0, <1>2 DEF ForkNeverRevives, SameFd, Opens, Closes, IsFor, Log
<1> QED BY <1>0, <1>1, <1>2, TableStep

\* Whatever the order in which the records of parent and child reach the log, a
\* FORK gives the child no descriptor that the child's own records have opened
\* and closed by then, also when memory runs out while they are replayed.
THEOREM ForksReviveNothing == Spec => []ForkNeverRevives
<1>1. Init => ForkInv
  <2>1. Init => resources \in Seq(Inputs) /\ Len(resources) <= MaxRecords
    BY ReplayAssumption DEF Init, ReplayAssumption
  <2>2. Init => TypeOK
    BY <2>1 DEF Init, TypeOK
  <2>3. Init => Log = {} /\ fds = {}
    BY DEF Init, Log
  <2> QED BY <2>2, <2>3 DEF ForkInv, ForkNeverRevives, OpensAreHeld, HeldIn, ClosesAreRecorded
<1>2. ForkInv /\ [Next]_vars => ForkInv'
  <2>1. SUFFICES ASSUME ForkInv, [Next]_vars PROVE ForkInv'
    OBVIOUS
  <2>2. TypeOK /\ TypeOK'
    BY <2>1, ReplayAssumption, TypeStep DEF ForkInv
  <2>3. CASE Next
    <3>1. OpensAreHeld /\ ClosesAreRecorded
      BY <2>1, <2>3, StepsFromGoodStates DEF ForkInv
    <3>2. ~err' /\ ~finalized' => OpensAreHeld' /\ ClosesAreRecorded'
      BY <2>2, <2>3, <3>1, ReplayAssumption, CarefulStep, HeldStep, RecordedStep
    <3> QED BY <2>1, <2>2, <2>3, <3>2, ReplayAssumption, RevivesStep DEF ForkInv
  <2>4. CASE UNCHANGED vars
    BY <2>1, <2>2, <2>4 DEF ForkInv, ForkNeverRevives, OpensAreHeld, HeldIn, ClosesAreRecorded,
                           Opens, Closes, IsFor, Log, vars
  <2> QED BY <2>1, <2>3, <2>4
<1>3. ForkInv => ForkNeverRevives
  BY DEF ForkInv
<1> QED BY <1>1, <1>2, <1>3, PTL DEF Spec

-----------------------------------------------------------------------------
(* Open descriptors and inheritances.                                      *)

HeldInv ==
    /\ TypeOK
    /\ PendingIsOpenAttempt
    /\ OpenDescriptorsAreHeld

ReportedInv == HeldInv /\ InheritanceIsReported

-----------------------------------------------------------------------------
(* What the log says can only become known, never be taken back.           *)

LEMMA CrossedStays ==
    ASSUME TypeOK, NEW ev, Appends(ev), NEW i \in Log, Crossed(i)
    PROVE  Crossed(i)'
<1>1. PICK k \in Log :
        /\ k > i /\ resources[k].pid = resources[i].pid
        /\ resources[k].kind \notin {"EXEC", "EXEC_FAIL"}
        /\ \A j \in i .. k-1 : resources[j].pid = resources[i].pid => resources[j].kind = "EXEC"
  BY DEF Crossed
<1>2. \A j \in i .. k : j \in Log
  BY DEF Log
<1>3. k \in Log' /\ \A j \in i .. k : resources'[j] = resources[j]
  BY <1>1, <1>2, AppendedLog DEF TypeOK
<1>4. i \in i .. k /\ k \in i .. k /\ \A j \in i .. k-1 : j \in i .. k
  BY <1>1 DEF Log
<1> QED BY <1>1, <1>3, <1>4 DEF Crossed

\* An attempt crosses with the first other record of its process.
LEMMA CrossesNow ==
    ASSUME TypeOK, NEW ev, Appends(ev), NEW i \in Log, AtExec(i, ev.pid),
           resources[i].pid = ev.pid, ev.kind \notin {"EXEC", "EXEC_FAIL"}
    PROVE  Crossed(i)'
<1> DEFINE n == Len(resources) + 1
<1>1. /\ n \in Log' /\ resources'[n] = ev /\ n > i
      /\ \A j \in Log : resources'[j] = resources[j]
  BY AppendedLog DEF TypeOK, Log, Sequence
<1>2. \A j \in i .. n-1 : j \in Log /\ j >= i
  BY DEF Log, TypeOK
<1> QED BY <1>1, <1>2 DEF Crossed, AtExec

LEMMA StillOpenBefore ==
    ASSUME TypeOK, NEW ev, Appends(ev), NEW i \in Log, NEW p, NEW d, StillOpen(i, p, d)'
    PROVE  StillOpen(i, p, d)
<1>1. /\ Log \subseteq Log'
      /\ \A j \in Log : resources'[j] = resources[j]
  BY AppendedLog DEF TypeOK
<1>2. \A j \in Log : Crossed(j) => Crossed(j)'
  BY CrossedStays
<1> QED BY <1>1, <1>2 DEF StillOpen, Opens, Closes, Execs, IsFor

-----------------------------------------------------------------------------
(* The table.                                                              *)

\* A sweep loses the slot of an entry only if its mark is close-on-exec.
LEMMA SweepLosesCloexec ==
    ASSUME TypeOK, NEW ev, NEW e \in fds
    PROVE  \/ \E x \in SettledFds(ev) : x.pid = e.pid /\ x.fd = e.fd
           \/ e \in Settling(ev) /\ e.exec_cloexec
<1>1. CASE e \notin Settling(ev)
  BY <1>1 DEF SettledFds, SweptFds
<1>2. CASE e \in Settling(ev) /\ ~e.exec_cloexec
  <2>1. Cleared(e) \in SettledFds(ev)
    BY <1>2 DEF SettledFds, SweptFds
  <2>2. FdOK(e, Len(resources)) /\ Len(resources) \in Nat
    BY DEF TypeOK, FdOK, Log
  <2> QED BY <2>1, <2>2, ClearedOK
<1> QED BY <1>1, <1>2

\* What is swept close-on-exec, the log closes: its snapshot follows the open,
\* and the record in hand shows that the attempt crossed.
LEMMA SweptIsNotOpen ==
    ASSUME TypeOK, PendingIsOpenAttempt, NEW ev, Appends(ev),
           NEW e \in Settling(ev), e.exec_cloexec,
           NEW i \in Log, Opens(i, e.pid, e.fd)
    PROVE  ~StillOpen(i, e.pid, e.fd)'
<1> DEFINE k == e.exec_sequence
<1>1. e \in fds /\ e.exec_pending /\ e.pid = ev.pid /\ ev.kind \notin {"EXEC", "EXEC_FAIL"}
  BY DEF Settling, Pending
<1>2. /\ k \in Log /\ Execs(k, e.pid, e.fd) /\ resources[k].cloexec /\ AtExec(k, e.pid)
  BY <1>1 DEF PendingIsOpenAttempt
<1>3. i < k
  <2>1. resources[i].kind = "FD_OPEN" /\ resources[i].pid = e.pid
    BY DEF Opens, IsFor
  <2> QED BY <1>2, <2>1 DEF AtExec, Log
<1>4. Crossed(k)'
  BY <1>1, <1>2, CrossesNow DEF Execs, IsFor
<1>5. k \in Log' /\ resources'[k] = resources[k]
  BY <1>2, AppendedLog DEF TypeOK
<1> QED BY <1>2, <1>3, <1>4, <1>5 DEF StillOpen, Execs, IsFor

LEMMA HeldOpenStep ==
    ASSUME HeldInv, ~err, ~finalized, NEW ev \in Inputs, Appends(ev), Careful(ev)
    PROVE  OpenDescriptorsAreHeld'
<1> DEFINE n == Len(resources) + 1
<1>0. TypeOK /\ PendingIsOpenAttempt /\ OpenDescriptorsAreHeld
  BY DEF HeldInv
<1>1. /\ n \in Log' /\ resources'[n] = ev
      /\ \A i \in Log : resources'[i] = resources[i]
      /\ \A i \in Log' : i \in Log \/ i = n
  BY <1>0, AppendedLog DEF TypeOK, Sequence
<1>2. ASSUME NEW i \in Log', NEW p \in Pid, NEW d \in Fd, StillOpen(i, p, d)'
      PROVE  \E x \in fds' : x.pid = p /\ x.fd = d
  <2>1. CASE i = n
    <3>1. ev.kind = "FD_OPEN" /\ ev.pid = p /\ ev.fd = d
      BY <1>1, <1>2, <2>1 DEF StillOpen, Opens, IsFor
    <3> QED BY <3>1 DEF Careful, Entries
  <2>2. CASE i \in Log
    <3>1. StillOpen(i, p, d) /\ Opens(i, p, d)
      BY <1>0, <1>2, <2>2, StillOpenBefore DEF StillOpen
    <3>2. PICK e \in fds : e.pid = p /\ e.fd = d
      BY <1>0, <2>2, <3>1 DEF OpenDescriptorsAreHeld, Entries
    <3>3. ~(e \in Settling(ev) /\ e.exec_cloexec)
      BY <1>0, <1>2, <2>2, <3>1, <3>2, SweptIsNotOpen
    <3>4. PICK x \in SettledFds(ev) : x.pid = p /\ x.fd = d
      BY <1>0, <3>2, <3>3, SweepLosesCloexec
    <3>5. ~(ev.kind = "FD_CLOSE" /\ ev.pid = p /\ ev.fd = d)
      <4>1. n > i
        BY <1>0, <2>2 DEF Log, TypeOK
      <4> QED BY <1>1, <1>2, <4>1 DEF StillOpen, Closes, IsFor
    <3> QED BY <3>4, <3>5 DEF Careful
  <2> QED BY <1>1, <2>1, <2>2
<1> QED BY <1>2 DEF OpenDescriptorsAreHeld, Entries

LEMMA HeldInvStep ==
    ASSUME ReplayAssumption, HeldInv, [Next]_vars
    PROVE  HeldInv'
<1>1. TypeOK' /\ PendingIsOpenAttempt'
  BY TypeStep, PendingStep DEF HeldInv
<1>2. CASE Next
  <2>1. ~err /\ ~finalized
    BY <1>2, StepsFromGoodStates
  <2>2. CASE ~err' /\ ~finalized'
    <3>1. PICK ev \in Inputs : Appends(ev) /\ Careful(ev)
      BY <1>2, <2>2, CarefulStep DEF HeldInv
    <3> QED BY <1>1, <2>1, <3>1, HeldOpenStep DEF HeldInv
  <2>3. CASE ~(~err' /\ ~finalized')
    BY <1>1, <2>3 DEF HeldInv, OpenDescriptorsAreHeld
  <2> QED BY <2>2, <2>3
<1>3. CASE UNCHANGED vars
  <2>1. UNCHANGED <<resources, fds, err, finalized>>
    BY <1>3 DEF vars
  <2>2. OpenDescriptorsAreHeld'
    BY <2>1 DEF HeldInv, OpenDescriptorsAreHeld, StillOpen, Opens, Closes, Execs, IsFor, Crossed,
                Entries, Log
  <2> QED BY <1>1, <2>2 DEF HeldInv
<1> QED BY <1>2, <1>3

LEMMA HeldInit == ReplayAssumption /\ Init => HeldInv
<1>1. ReplayAssumption /\ Init => TypeOK
  <2>1. ReplayAssumption /\ Init => resources \in Seq(Inputs) /\ Len(resources) <= MaxRecords
    BY DEF Init, ReplayAssumption
  <2> QED BY <2>1 DEF Init, TypeOK
<1>2. Init => Log = {} /\ fds = {}
  BY DEF Init, Log
<1> QED BY <1>1, <1>2 DEF HeldInv, PendingIsOpenAttempt, OpenDescriptorsAreHeld

\* While the replay goes well no live descriptor is lost: what the records leave
\* open is in the table, through failed execs, forks and the closes of others.
THEOREM OpensStayHeld == Spec => []OpenDescriptorsAreHeld
<1>1. Init => HeldInv
  BY ReplayAssumption, HeldInit
<1>2. HeldInv /\ [Next]_vars => HeldInv'
  BY ReplayAssumption, HeldInvStep
<1>3. HeldInv => OpenDescriptorsAreHeld
  BY DEF HeldInv
<1> QED BY <1>1, <1>2, <1>3, PTL DEF Spec

-----------------------------------------------------------------------------
(* The findings.                                                           *)

\* Record n is a snapshot without close-on-exec of the descriptor record i
\* opened, which nothing closed in between, in an attempt not known to fail.
Inheriting(i, n, p, d) ==
    /\ i < n /\ Opens(i, p, d)
    /\ \A j \in i+1 .. n-1 : ~Closes(j, p, d) /\ ~(Execs(j, p, d) /\ resources[j].cloexec)
    /\ Execs(n, p, d) /\ ~resources[n].cloexec
    /\ Crossed(n) \/ AtExec(n, p)

HasFinding(n) == \E f \in InheritFindings : f.sequence = n

LEMMA ReportedMeaning ==
    InheritanceIsReported <=>
      (~err => \A i, n \in Log, p \in Pid, d \in Fd : Inheriting(i, n, p, d) => HasFinding(n))
BY DEF InheritanceIsReported, Inheriting, HasFinding

\* An attempt that is not known to fail was not known to before.
LEMMA InheritingBefore ==
    ASSUME TypeOK, NEW ev, Appends(ev), NEW i \in Log, NEW n \in Log, NEW p, NEW d,
           Inheriting(i, n, p, d)'
    PROVE  Inheriting(i, n, p, d)
<1>1. /\ Log \subseteq Log'
      /\ \A j \in Log : resources'[j] = resources[j]
      /\ \A j \in Log' : j \in Log \/ j = Len(resources) + 1
  BY AppendedLog DEF TypeOK
<1>2. \A j \in i+1 .. n-1 : j \in Log
  BY DEF Log
<1>3. resources[n].pid = p /\ resources[n].kind = "EXEC"
  BY <1>1 DEF Inheriting, Execs, IsFor
<1>4. Crossed(n) \/ AtExec(n, p)
  <2>1. CASE AtExec(n, p)'
    BY <1>1, <2>1 DEF AtExec
  <2>2. CASE Crossed(n)'
    <3>1. PICK k \in Log' :
            /\ k > n /\ resources'[k].pid = resources'[n].pid
            /\ resources'[k].kind \notin {"EXEC", "EXEC_FAIL"}
            /\ \A j \in n .. k-1 : resources'[j].pid = resources'[n].pid => resources'[j].kind = "EXEC"
      BY <2>2 DEF Crossed
    <3>2. \A j \in n .. k-1 : j \in Log
      BY <1>1 DEF Log, TypeOK
    <3>3. CASE k \in Log
      BY <1>1, <3>1, <3>2, <3>3 DEF Crossed
    <3>4. CASE k = Len(resources) + 1
      <4>1. \A j \in Log : j >= n => j \in n .. k-1
        BY <3>4 DEF Log, TypeOK
      <4> QED BY <1>1, <1>3, <3>1, <3>2, <4>1 DEF AtExec
    <3> QED BY <1>1, <3>3, <3>4
  <2> QED BY <2>1, <2>2 DEF Inheriting
<1> QED BY <1>1, <1>2, <1>4 DEF Inheriting, Opens, Closes, Execs, IsFor

\* Rollback takes a finding only when the attempt is then known to have failed.
LEMMA RollbackMeansFailed ==
    ASSUME TypeOK, NEW ev \in Inputs, ExecFail(ev), NEW f \in findings, FindingMatches(f, ev),
           NEW p, resources[f.sequence].pid = p
    PROVE  ~Crossed(f.sequence)' /\ ~AtExec(f.sequence, p)'
<1> DEFINE n == f.sequence
           m == Len(resources) + 1
<1>0. Appends(ev) /\ ev.kind = "EXEC_FAIL" /\ n \in Log
  BY DEF ExecFail, Stored, Appends, TypeOK
<1>1. /\ m \in Log' /\ resources'[m] = ev /\ m >= n
      /\ \A j \in Log : resources'[j] = resources[j]
      /\ \A j \in Log' : j \in Log \/ j = m
  BY <1>0, AppendedLog DEF TypeOK, Log, Sequence
<1>2. \A j \in Log : j >= n => resources[j].kind = "EXEC" /\ resources[j].pid = ev.pid
  BY DEF FindingMatches, AttemptMatches, Log, TypeOK
<1>3. p = ev.pid
  BY <1>0, <1>2 DEF Log
<1>4. ~AtExec(n, p)'
  BY <1>0, <1>1, <1>3 DEF AtExec
<1>5. ~Crossed(n)'
  BY <1>0, <1>1, <1>2 DEF Crossed, Log
<1> QED BY <1>4, <1>5

\* A snapshot of a descriptor in the table gets its finding while all goes well.
LEMMA SnapshotIsReported ==
    ASSUME TypeOK, Next, ~err', NEW ev \in Inputs, Appends(ev), ev.kind = "EXEC", ~ev.cloexec,
           Entries(fds, ev.pid, ev.fd) # {}
    PROVE  \E f \in InheritFindings' : f.sequence = Len(resources) + 1
<1>1. SettledFds(ev) = fds /\ resources' # resources
  BY AppendedLog, ExecSettlesNothing DEF TypeOK
<1>2. Exec(ev)
  <2>1. PICK g \in Inputs : Ingest(g)
    BY <1>1 DEF Next, Finalize, FinalizeFails
  <2>2. ~SettleFails(g) /\ ~StoreFails(g)
    BY <1>1 DEF SettleFails, StoreFails
  <2>3. Stored(g)
    BY <2>1, <2>2 DEF Ingest, FdOpen, FdClose, FdCloseStray, AllocStore, FreeBlock, FreeStray,
                      Realloc, Fork, Spawn, Exec, ExecUnknown, ExecFail, Generic
  <2>4. g = ev
    <3>1. Appends(g) /\ resources \in Seq(Inputs)
      BY <2>3 DEF Stored, Appends, TypeOK
    <3>2. resources'[Len(resources) + 1] = g
      BY <3>1, AppendedLog
    <3> QED BY <3>1, <3>2, AppendedLog
  <2>5. ~ExecUnknown(ev)
    BY <1>1 DEF ExecUnknown
  <2> QED BY <2>1, <2>2, <2>4, <2>5 DEF Ingest, FdOpen, FdClose, FdCloseStray, AllocStore,
                      FreeBlock, FreeStray, Realloc, Fork, Spawn, ExecFail, Generic
<1>3. PICK e : InheritFinding(ev, e) \in findings'
  BY <1>2 DEF Exec, ExecInherits
<1>4. InheritFinding(ev, e).kind = "EXEC_INHERIT" /\ InheritFinding(ev, e).sequence = Sequence
  BY DEF InheritFinding
<1> QED BY <1>3, <1>4 DEF InheritFindings, Sequence

LEMMA ReportedStays ==
    ASSUME InheritanceIsReported, ~err, UNCHANGED resources, InheritFindings \subseteq InheritFindings'
    PROVE  InheritanceIsReported'
<1>1. \A i, n \in Log, p \in Pid, d \in Fd : Inheriting(i, n, p, d) => HasFinding(n)
  BY ReportedMeaning
<1>2. Log' = Log /\ \A n : HasFinding(n) => HasFinding(n)'
  BY DEF HasFinding, Log
<1>3. \A i, n, p, d : Inheriting(i, n, p, d)' <=> Inheriting(i, n, p, d)
  BY DEF Inheriting, Opens, Closes, Execs, IsFor, Crossed, AtExec, Log
<1>4. \A i, n \in Log', p \in Pid, d \in Fd : Inheriting(i, n, p, d)' => HasFinding(n)'
  BY <1>1, <1>2, <1>3
<1> QED BY <1>4 DEF InheritanceIsReported, Inheriting, HasFinding

LEMMA ReportedStep ==
    ASSUME ReplayAssumption, ReportedInv, Next, ~err'
    PROVE  InheritanceIsReported'
<1>0. /\ TypeOK /\ OpenDescriptorsAreHeld /\ ~err /\ ~finalized
      /\ \A i, n \in Log, p \in Pid, d \in Fd : Inheriting(i, n, p, d) => HasFinding(n)
  BY StepsFromGoodStates, ReportedMeaning DEF ReportedInv, HeldInv
<1>1. ASSUME NEW f \in InheritFindings, f \notin InheritFindings'
      PROVE  \E ev \in Inputs : ExecFail(ev) /\ FindingMatches(f, ev)
  BY <1>1, FindingsKept DEF InheritFindings
<1>2. CASE UNCHANGED resources
  <2>1. \A ev \in Inputs : ~ExecFail(ev)
    BY <1>0, <1>2, AppendedLog DEF ExecFail, Stored, Appends, TypeOK
  <2>2. InheritFindings \subseteq InheritFindings'
    BY <1>1, <2>1
  <2> QED BY <1>0, <1>2, <2>2, ReportedStays DEF ReportedInv
<1>3. ASSUME NEW ev \in Inputs, Appends(ev)
      PROVE  InheritanceIsReported'
  <2> DEFINE m == Len(resources) + 1
  <2>1. /\ m \in Log' /\ resources'[m] = ev
        /\ \A i \in Log : resources'[i] = resources[i]
        /\ \A i \in Log' : i \in Log \/ i = m
        /\ \A i \in Log : i < m
    BY <1>0, <1>3, AppendedLog DEF TypeOK, Sequence, Log
  <2>2. ASSUME NEW i \in Log', NEW n \in Log', NEW p \in Pid, NEW d \in Fd,
               Inheriting(i, n, p, d)'
        PROVE  HasFinding(n)'
    <3>1. i \in Log
      BY <2>1, <2>2 DEF Inheriting, Log
    <3>2. CASE n \in Log
      <4>1. Inheriting(i, n, p, d) /\ resources[n].pid = p
        BY <1>0, <1>3, <2>2, <3>1, <3>2, InheritingBefore DEF Inheriting, Execs, IsFor
      <4>2. PICK f \in InheritFindings : f.sequence = n
        BY <1>0, <3>1, <3>2, <4>1 DEF HasFinding
      <4>3. CASE f \in InheritFindings'
        BY <4>2, <4>3 DEF HasFinding
      <4>4. CASE f \notin InheritFindings'
        <5>1. PICK g \in Inputs : ExecFail(g) /\ FindingMatches(f, g)
          BY <1>1, <4>4
        <5>2. f \in findings /\ f.sequence = n
          BY <4>2 DEF InheritFindings
        <5>3. ~Crossed(n)' /\ ~AtExec(n, p)'
          BY <1>0, <4>1, <5>1, <5>2, RollbackMeansFailed
        <5> QED BY <2>2, <5>3 DEF Inheriting
      <4> QED BY <4>3, <4>4
    <3>3. CASE n = m
      <4>1. ev.kind = "EXEC" /\ ev.pid = p /\ ev.fd = d /\ ~ev.cloexec
        BY <2>1, <2>2, <3>3 DEF Inheriting, Execs, IsFor
      <4>2. StillOpen(i, p, d)
        <5>1. Opens(i, p, d)
          BY <2>1, <2>2, <3>1 DEF Inheriting, Opens, IsFor
        <5>2. ASSUME NEW j \in Log, j > i
              PROVE  ~Closes(j, p, d) /\ ~(Execs(j, p, d) /\ resources[j].cloexec)
          <6>1. j \in i+1 .. n-1
            BY <2>1, <3>1, <3>3, <5>2 DEF Log
          <6> QED BY <2>1, <2>2, <6>1 DEF Inheriting, Closes, Execs, IsFor
        <5> QED BY <5>1, <5>2 DEF StillOpen
      <4>3. Entries(fds, ev.pid, ev.fd) # {}
        BY <1>0, <3>1, <4>1, <4>2 DEF OpenDescriptorsAreHeld
      <4> QED BY <1>0, <1>3, <3>3, <4>1, <4>3, SnapshotIsReported DEF HasFinding
    <3> QED BY <2>1, <3>2, <3>3
  <2> QED BY <2>2 DEF InheritanceIsReported, Inheriting, HasFinding
<1> QED BY <1>2, <1>3, LogStep

\* A snapshot without close-on-exec of a descriptor the log shows open has its
\* finding until its attempt is known to have failed, and no other failed exec
\* takes it away, at the end of the input as before it.
THEOREM InheritancesAreReported == Spec => []InheritanceIsReported
<1>1. Init => ReportedInv
  <2>1. Init => Log = {}
    BY DEF Init, Log
  <2> QED BY <2>1, ReplayAssumption, HeldInit DEF ReportedInv, InheritanceIsReported
<1>2. ReportedInv /\ [Next]_vars => ReportedInv'
  <2>1. SUFFICES ASSUME ReportedInv, [Next]_vars PROVE ReportedInv'
    OBVIOUS
  <2>2. HeldInv'
    BY <2>1, ReplayAssumption, HeldInvStep DEF ReportedInv
  <2>3. CASE Next /\ ~err'
    BY <2>1, <2>2, <2>3, ReplayAssumption, ReportedStep DEF ReportedInv
  <2>4. CASE err'
    BY <2>2, <2>4 DEF ReportedInv, InheritanceIsReported
  <2>5. CASE UNCHANGED vars
    <3>1. UNCHANGED <<resources, findings, err>>
      BY <2>5 DEF vars
    <3>2. InheritFindings' = InheritFindings
      BY <3>1 DEF InheritFindings
    <3>3. ~err => InheritanceIsReported'
      BY <2>1, <3>1, <3>2, ReportedStays DEF ReportedInv
    <3> QED BY <2>2, <2>4, <3>1, <3>3 DEF ReportedInv
  <2> QED BY <2>1, <2>3, <2>4, <2>5
<1>3. ReportedInv => InheritanceIsReported
  BY DEF ReportedInv
<1> QED BY <1>1, <1>2, <1>3, PTL DEF Spec

-----------------------------------------------------------------------------
(* Recursive functions.  A function over the naturals is fixed by its      *)
(* first value and its step; that there is one is shown from its finite    *)
(* beginnings.                                                             *)

LEMMA LeastExists ==
    ASSUME NEW S, S \subseteq Nat, S # {}
    PROVE  \E i \in S : \A j \in S : i <= j
<1> DEFINE R == {ss \in Nat \X Nat : ss[1] < ss[2]}
<1>1. \E i \in S : \A j \in S : ~(<<j, i>> \in R)
  <2>1. IsWellFoundedOn(R, Nat)
    BY NatLessThanWellFounded DEF OpToRel
  <2> HIDE DEF R
  <2> QED BY <2>1, WFMin
<1>2. PICK i \in S : \A j \in S : ~(<<j, i>> \in R)
  BY <1>1
<1>3. ASSUME NEW j \in S PROVE i <= j
  <2>1. i \in Nat /\ j \in Nat /\ ~(<<j, i>> \in R)
    BY <1>2
  <2> QED BY <2>1
<1> QED BY <1>3

\* The beginnings, up to n, of a function with that first value and that step.
Beginnings(T, first, step, n) ==
    {h \in [0 .. n -> T] : h[0] = first /\ \A i \in 1 .. n : h[i] = step[<<i, h[i - 1]>>]}

LEMMA BeginningsAgree ==
    ASSUME NEW T, NEW first, NEW step, NEW n \in Nat, NEW m \in Nat,
           NEW h \in Beginnings(T, first, step, n), NEW k \in Beginnings(T, first, step, m),
           NEW i \in Nat, i <= n, i <= m
    PROVE  h[i] = k[i]
<1> DEFINE S == {j \in Nat : j <= n /\ j <= m /\ h[j] # k[j]}
<1>1. SUFFICES ASSUME S # {} PROVE FALSE
  OBVIOUS
<1>2. PICK j \in S : \A l \in S : j <= l
  BY <1>1, LeastExists
<1>3. j # 0
  BY <1>2 DEF Beginnings
<1>4. j \in 1 .. n /\ j \in 1 .. m /\ j - 1 \in Nat /\ j - 1 \notin S
  BY <1>2, <1>3
<1>5. h[j - 1] = k[j - 1]
  BY <1>4
<1>6. h[j] = step[<<j, h[j - 1]>>] /\ k[j] = step[<<j, k[j - 1]>>]
  BY <1>4 DEF Beginnings
<1> QED BY <1>2, <1>5, <1>6

LEMMA BeginningsExist ==
    ASSUME NEW T, NEW first \in T, NEW step \in [Nat \X T -> T], NEW n \in Nat
    PROVE  Beginnings(T, first, step, n) # {}
<1> DEFINE S == {m \in Nat : Beginnings(T, first, step, m) = {}}
<1>1. SUFFICES ASSUME S # {} PROVE FALSE
  OBVIOUS
<1>2. PICK m \in S : \A l \in S : m <= l
  BY <1>1, LeastExists
<1>3. m # 0
  <2>1. [i \in 0 .. 0 |-> first] \in Beginnings(T, first, step, 0)
    BY DEF Beginnings
  <2> QED BY <1>2, <2>1
<1>4. m \in Nat /\ m - 1 \in Nat /\ m - 1 \notin S
  BY <1>2, <1>3
<1>5. PICK h : h \in Beginnings(T, first, step, m - 1)
  BY <1>4
<1>6. h \in [0 .. m - 1 -> T] /\ h[0] = first /\ \A i \in 1 .. m - 1 : h[i] = step[<<i, h[i - 1]>>]
  BY <1>5 DEF Beginnings
<1> DEFINE g == [i \in 0 .. m |-> IF i = m THEN step[<<m, h[m - 1]>>] ELSE h[i]]
<1>7. step[<<m, h[m - 1]>>] \in T
  <2>1. h[m - 1] \in T
    BY <1>4, <1>6
  <2> QED BY <1>4, <2>1
<1>8. g \in [0 .. m -> T]
  BY <1>4, <1>6, <1>7
<1>9. g[0] = first
  BY <1>3, <1>4, <1>6
<1>10. ASSUME NEW i \in 1 .. m PROVE g[i] = step[<<i, g[i - 1]>>]
  <2>1. i - 1 \in 0 .. m /\ i - 1 # m /\ g[i - 1] = h[i - 1]
    BY <1>4
  <2>2. CASE i = m
    BY <1>4, <2>1, <2>2
  <2>3. CASE i # m
    <3>1. i \in 1 .. m - 1 /\ g[i] = h[i]
      BY <1>4, <2>3
    <3> QED BY <1>6, <2>1, <3>1
  <2> QED BY <2>2, <2>3
<1>11. g \in Beginnings(T, first, step, m)
  <2> HIDE DEF g
  <2> QED BY <1>8, <1>9, <1>10 DEF Beginnings
<1> QED BY <1>2, <1>11

Iterates(T, first, step, g) ==
    g \in [Nat -> T] /\ g[0] = first /\ \A n \in Nat \ {0} : g[n] = step[<<n, g[n - 1]>>]

LEMMA FunctionExists ==
    ASSUME NEW T, NEW first \in T, NEW step \in [Nat \X T -> T]
    PROVE  \E g : Iterates(T, first, step, g)
<1> DEFINE pick(n) == CHOOSE h : h \in Beginnings(T, first, step, n)
           g == [n \in Nat |-> pick(n)[n]]
<1>1. \A n \in Nat : pick(n) \in Beginnings(T, first, step, n)
  BY BeginningsExist
<1> HIDE DEF pick
<1>2. \A n \in Nat : pick(n)[n] \in T
  BY <1>1 DEF Beginnings
<1>3. g \in [Nat -> T]
  BY <1>2
<1>4. g[0] = first
  BY <1>1 DEF Beginnings
<1>5. ASSUME NEW n \in Nat, n # 0 PROVE g[n] = step[<<n, g[n - 1]>>]
  <2>1. n - 1 \in Nat /\ n - 1 <= n /\ n \in 1 .. n
    BY <1>5
  <2>2. pick(n)[n] = step[<<n, pick(n)[n - 1]>>]
    BY <1>1, <2>1 DEF Beginnings
  <2>3. pick(n)[n - 1] = pick(n - 1)[n - 1]
    BY <1>1, <2>1, BeginningsAgree
  <2> QED BY <2>1, <2>2, <2>3
<1> HIDE DEF g
<1> QED BY <1>3, <1>4, <1>5 DEF Iterates

-----------------------------------------------------------------------------
(* The count of addresses.                                                 *)

LEMMA BalancesMeaning ==
    ASSUME NEW log, NEW p, NEW a
    PROVE  /\ Balances(log, p, a) \in [Nat -> Nat]
           /\ Balances(log, p, a)[0] = 0
           /\ \A n \in Nat \ {0} :
                Balances(log, p, a)[n] = BalanceAfter(Balances(log, p, a)[n - 1], log[n], p, a)
<1> DEFINE step == [x \in Nat \X Nat |-> BalanceAfter(x[2], log[x[1]], p, a)]
           goal(g) == [n \in Nat |-> IF n = 0 THEN 0 ELSE BalanceAfter(g[n - 1], log[n], p, a)]
<1>1. \A x \in Nat : \A ev : BalanceAfter(x, ev, p, a) \in Nat
  BY DEF BalanceAfter
<1>2. step \in [Nat \X Nat -> Nat]
  BY <1>1
<1>3. \A n \in Nat, x \in Nat : step[<<n, x>>] = BalanceAfter(x, log[n], p, a)
  OBVIOUS
<1> HIDE DEF step
<1>4. PICK g \in [Nat -> Nat] : g[0] = 0 /\ \A n \in Nat \ {0} : g[n] = step[<<n, g[n - 1]>>]
  <2>1. 0 \in Nat
    OBVIOUS
  <2>2. PICK g : Iterates(Nat, 0, step, g)
    BY <1>2, <2>1, FunctionExists
  <2> QED BY <2>2 DEF Iterates
<1>5. ASSUME NEW n \in Nat \ {0}
      PROVE  g[n] = BalanceAfter(g[n - 1], log[n], p, a)
  <2>1. n - 1 \in Nat /\ g[n - 1] \in Nat
    BY <1>4
  <2> QED BY <1>3, <1>4, <2>1
<1>6. g = goal(g)
  <2>1. \A n \in Nat : g[n] = IF n = 0 THEN 0 ELSE BalanceAfter(g[n - 1], log[n], p, a)
    BY <1>4, <1>5
  <2> QED BY <1>4, <2>1
<1>7. Balances(log, p, a) = CHOOSE f : f = goal(f)
  BY DEF Balances
<1>8. Balances(log, p, a) = goal(Balances(log, p, a))
  BY <1>6, <1>7
<1>9. \A n \in Nat : g[n] = Balances(log, p, a)[n]
  <2> DEFINE b == Balances(log, p, a)
             S == {n \in Nat : g[n] # b[n]}
  <2>1. SUFFICES ASSUME S # {} PROVE FALSE
    OBVIOUS
  <2>2. b = goal(b)
    BY <1>8
  <2> HIDE DEF b
  <2>3. PICK n \in S : \A m \in S : n <= m
    BY <2>1, LeastExists
  <2>4. n # 0
    <3>1. g[0] = 0 /\ b[0] = 0
      BY <1>6, <2>2
    <3> QED BY <2>3, <3>1
  <2>5. n - 1 \in Nat /\ g[n - 1] = b[n - 1]
    BY <2>3, <2>4
  <2>6. /\ g[n] = BalanceAfter(g[n - 1], log[n], p, a)
        /\ b[n] = BalanceAfter(b[n - 1], log[n], p, a)
    BY <1>6, <2>2, <2>3, <2>4
  <2> QED BY <2>3, <2>5, <2>6
<1> DEFINE b == Balances(log, p, a)
<1>10. b = goal(b)
  BY <1>8
<1> HIDE DEF b
<1>11. b \in [Nat -> Nat]
  BY <1>4, <1>9, <1>10 DEF b
<1>12. b[0] = 0 /\ \A n \in Nat \ {0} : b[n] = BalanceAfter(b[n - 1], log[n], p, a)
  BY <1>10
<1> QED BY <1>11, <1>12 DEF b

LEMMA BalanceStep ==
    ASSUME TypeOK, NEW ev \in Inputs, Appends(ev), NEW p, NEW a
    PROVE  Balance(p, a) \in Nat /\ Balance(p, a)' = BalanceAfter(Balance(p, a), ev, p, a)
<1> DEFINE n == Len(resources)
           before == Balances(resources, p, a)
           after == Balances(resources', p, a)
<1>1. /\ n \in Nat /\ Len(resources') = n + 1 /\ resources'[n + 1] = ev
      /\ \A i \in 1 .. n : resources'[i] = resources[i]
  BY AppendedLog DEF TypeOK, Log
<1>2. /\ before \in [Nat -> Nat] /\ before[0] = 0
      /\ \A i \in Nat \ {0} : before[i] = BalanceAfter(before[i - 1], resources[i], p, a)
  BY BalancesMeaning
<1>3. /\ after \in [Nat -> Nat] /\ after[0] = 0
      /\ \A i \in Nat \ {0} : after[i] = BalanceAfter(after[i - 1], resources'[i], p, a)
  BY BalancesMeaning
<1>4. Balance(p, a) = before[n] /\ Balance(p, a)' = after[n + 1]
  BY <1>1 DEF Balance
<1> HIDE DEF before, after
<1>5. after[n] = before[n]
  <2> DEFINE S == {i \in Nat : i <= n /\ after[i] # before[i]}
  <2>1. SUFFICES ASSUME S # {} PROVE FALSE
    BY <1>1
  <2>2. PICK i \in S : \A j \in S : i <= j
    BY <2>1, LeastExists
  <2>3. i \in Nat \ {0} /\ i - 1 \in Nat /\ i - 1 \notin S /\ i \in 1 .. n
    <3>1. i \in Nat /\ i <= n /\ after[i] # before[i]
      BY <2>2
    <3>2. i # 0
      BY <1>2, <1>3, <3>1
    <3>3. i - 1 \in Nat /\ ~(i <= i - 1)
      BY <3>1, <3>2
    <3> QED BY <1>1, <2>2, <3>1, <3>2, <3>3
  <2>4. after[i - 1] = before[i - 1]
    BY <1>1, <2>3
  <2>5. /\ after[i] = BalanceAfter(after[i - 1], resources'[i], p, a)
        /\ before[i] = BalanceAfter(before[i - 1], resources[i], p, a)
    BY <1>2, <1>3, <2>3
  <2> QED BY <1>1, <2>2, <2>3, <2>4, <2>5
<1>6. after[n + 1] = BalanceAfter(after[n], ev, p, a)
  <2>1. n + 1 \in Nat \ {0} /\ (n + 1) - 1 = n
    BY <1>1
  <2> QED BY <1>1, <1>3, <2>1
<1> QED BY <1>1, <1>2, <1>4, <1>5, <1>6

\* One of the blocks, if there is one.
OneOf(old, blocks) ==
    /\ old \subseteq blocks
    /\ (old = {}) <=> (blocks = {})
    /\ \A x, y \in old : x = y

Entry(pid, ptr) == [pid |-> pid, ptr |-> ptr, sequence |-> Sequence]

\* What a record does to the table while all goes well.
Taken(ev, old) ==
    IF ev.kind \in {"FREE", "REALLOC"} THEN OneOf(old, Blocks(ev.pid, ev.ptr)) ELSE old = {}

Added(ev, new) ==
    \/ ev.kind = "ALLOC" /\ ev.ptr # Null /\ new = {Entry(ev.pid, ev.ptr)}
    \/ ev.kind = "REALLOC" /\ ev.new_ptr # Null /\ new = {Entry(ev.pid, ev.new_ptr)}
    \/ /\ ~(ev.kind = "ALLOC" /\ ev.ptr # Null) /\ ~(ev.kind = "REALLOC" /\ ev.new_ptr # Null)
       /\ new = {}

LEMMA AllocEffect ==
    ASSUME ReplayAssumption, TypeOK, Next, ~err'
    PROVE  \/ UNCHANGED <<resources, allocs>>
           \/ \E ev \in Inputs, old, new \in SUBSET Alloc :
                Appends(ev) /\ Taken(ev, old) /\ Added(ev, new) /\ allocs' = (allocs \ old) \cup new
<1> DEFINE Goal == \E ev \in Inputs, old, new \in SUBSET Alloc :
                     Appends(ev) /\ Taken(ev, old) /\ Added(ev, new) /\ allocs' = (allocs \ old) \cup new
<1>1. \A pid, ptr : Gained(pid, ptr, TRUE) = {{Entry(pid, ptr)}}
  BY DEF Gained, Entry
<1>2. \A pid \in Pid, ptr \in Ptr \cup {Null} : {Entry(pid, ptr)} \subseteq Alloc
  BY DEF Entry, Alloc, Sequence, TypeOK
<1>3. ASSUME NEW ev \in Inputs, Stored(ev), allocs' = allocs, Added(ev, {}), Taken(ev, {})
      PROVE  Goal
  <2>1. allocs' = (allocs \ {}) \cup {} /\ Appends(ev)
    BY <1>3 DEF Stored, Appends
  <2> QED BY <1>3, <2>1
<1>4. ASSUME NEW ev \in Inputs,
             \/ FdOpen(ev) \/ FdClose(ev) \/ FdCloseStray(ev) \/ Fork(ev) \/ Spawn(ev)
             \/ Exec(ev) \/ ExecUnknown(ev) \/ ExecFail(ev) \/ Generic(ev)
      PROVE  Goal
  <2>1. Stored(ev) /\ allocs' = allocs /\ ev.kind \notin {"ALLOC", "FREE", "REALLOC"}
    BY <1>4 DEF FdOpen, FdClose, FdCloseStray, Fork, Spawn, Exec, ExecUnknown, ExecFail, Generic,
                KeepAllocs
  <2> QED BY <1>3, <2>1 DEF Added, Taken
<1>5. ASSUME NEW ev \in Inputs, AllocStore(ev) PROVE Goal
  <2>1. Stored(ev) /\ ev.kind = "ALLOC" /\ Appends(ev)
    BY <1>5 DEF AllocStore, Stored, Appends
  <2>2. CASE ev.ptr = Null
    <3>1. allocs' = allocs
      BY <1>5, <2>2 DEF AllocStore
    <3> QED BY <1>3, <2>1, <2>2, <3>1 DEF Added, Taken
  <2>3. CASE ev.ptr # Null
    <3>1. PICK new \in Gained(ev.pid, ev.ptr, TRUE) : allocs' = allocs \cup new
      BY <1>5, <2>3 DEF AllocStore
    <3>2. new = {Entry(ev.pid, ev.ptr)} /\ new \subseteq Alloc
      <4>1. Gained(ev.pid, ev.ptr, TRUE) = {{Entry(ev.pid, ev.ptr)}}
        BY <1>1
      <4>2. new = {Entry(ev.pid, ev.ptr)}
        BY <3>1, <4>1
      <4> QED BY <1>2, <4>2, InputFields
    <3>3. Added(ev, new) /\ Taken(ev, {}) /\ allocs' = (allocs \ {}) \cup new
      BY <2>1, <2>3, <3>1, <3>2 DEF Added, Taken
    <3> QED BY <2>1, <3>2, <3>3
  <2> QED BY <2>2, <2>3
<1>6. ASSUME NEW ev \in Inputs, FreeBlock(ev) PROVE Goal
  <2>1. PICK b \in Blocks(ev.pid, ev.ptr) : allocs' = allocs \ {b}
    BY <1>6 DEF FreeBlock
  <2>2. ev.kind = "FREE" /\ Appends(ev) /\ {b} \in SUBSET Alloc
    BY <1>6 DEF FreeBlock, Stored, Appends, Blocks, TypeOK
  <2>3. Taken(ev, {b}) /\ Added(ev, {}) /\ allocs' = (allocs \ {b}) \cup {}
    BY <2>1, <2>2 DEF Taken, Added, OneOf
  <2> QED BY <2>2, <2>3
<1>7. ASSUME NEW ev \in Inputs, FreeStray(ev) PROVE Goal
  <2>1. Stored(ev) /\ allocs' = allocs /\ ev.kind = "FREE" /\ Blocks(ev.pid, ev.ptr) = {}
    BY <1>7 DEF FreeStray, KeepAllocs
  <2> QED BY <1>3, <2>1 DEF Added, Taken, OneOf
<1>8. ASSUME NEW ev \in Inputs, Realloc(ev) PROVE Goal
  <2>1. ev.kind = "REALLOC" /\ Appends(ev)
    BY <1>8 DEF Realloc, Stored, Appends
  <2>2. PICK old \in SUBSET Blocks(ev.pid, ev.ptr) :
          \E new \in IF ev.new_ptr = Null THEN {{}} ELSE Gained(ev.pid, ev.new_ptr, TRUE) :
            /\ (old = {}) <=> (Blocks(ev.pid, ev.ptr) = {})
            /\ \A x, y \in old : x = y
            /\ allocs' = (allocs \ old) \cup new
    BY <1>8 DEF Realloc
  <2>3. PICK new \in IF ev.new_ptr = Null THEN {{}} ELSE Gained(ev.pid, ev.new_ptr, TRUE) :
            /\ (old = {}) <=> (Blocks(ev.pid, ev.ptr) = {})
            /\ \A x, y \in old : x = y
            /\ allocs' = (allocs \ old) \cup new
    BY <2>2
  <2>4. Taken(ev, old) /\ old \in SUBSET Alloc
    BY <2>1, <2>3 DEF Taken, OneOf, Blocks, TypeOK
  <2>5. Added(ev, new) /\ new \in SUBSET Alloc
    <3>1. CASE ev.new_ptr = Null
      BY <2>1, <2>3, <3>1 DEF Added
    <3>2. CASE ev.new_ptr # Null
      <4>1. new = {Entry(ev.pid, ev.new_ptr)}
        <5>1. Gained(ev.pid, ev.new_ptr, TRUE) = {{Entry(ev.pid, ev.new_ptr)}}
          BY <1>1
        <5> QED BY <2>3, <3>2, <5>1
      <4> QED BY <1>2, <2>1, <3>2, <4>1, InputFields DEF Added
    <3> QED BY <3>1, <3>2
  <2> QED BY <2>1, <2>3, <2>4, <2>5
<1>9. ASSUME NEW ev \in Inputs, SettleFails(ev) \/ StoreFails(ev) PROVE FALSE
  BY <1>9 DEF SettleFails, SweepFails, StoreFails
<1>10. CASE Finalize \/ FinalizeFails
  BY <1>10 DEF Finalize, FinalizeFails, KeepAllocs
<1> QED BY <1>4, <1>5, <1>6, <1>7, <1>8, <1>9, <1>10 DEF Next, Ingest

\* The blocks of one process at one address, after such a change.
LEMMA BlocksCounted ==
    ASSUME TypeOK, IsFiniteSet(allocs), \A b \in allocs : b.sequence <= Len(resources),
           NEW ev, NEW old, NEW new \in SUBSET Alloc, Taken(ev, old), Added(ev, new),
           allocs' = (allocs \ old) \cup new,
           NEW p \in Pid, NEW a \in Ptr, Null \notin Ptr
    PROVE  Cardinality(Blocks(p, a)') = BalanceAfter(Cardinality(Blocks(p, a)), ev, p, a)
<1> DEFINE B == Blocks(p, a)
           L == B \ old
<1>1. B \subseteq allocs /\ IsFiniteSet(B) /\ Cardinality(B) \in Nat
  <2>1. B \subseteq allocs
    BY DEF Blocks
  <2> QED BY <2>1, FS_Subset, FS_CardinalityType
<1> HIDE DEF L
<1>2. Cardinality(L) = IF TakesBlock(ev, p, a) /\ Cardinality(B) > 0 THEN Cardinality(B) - 1 ELSE Cardinality(B)
  <2>1. CASE TakesBlock(ev, p, a)
    <3>1. OneOf(old, B)
      BY <2>1 DEF TakesBlock, Taken
    <3>2. CASE B = {}
      <4>1. L = B /\ Cardinality(B) = 0
        BY <3>2, FS_EmptySet DEF L
      <4>2. ~(Cardinality(B) > 0)
        BY <4>1
      <4> QED BY <4>1, <4>2
    <3>3. CASE B # {}
      <4>1. PICK b \in B : L = B \ {b}
        BY <3>1, <3>3 DEF OneOf, L
      <4>2. Cardinality(B \ {b}) = Cardinality(B) - 1
        BY <1>1, FS_RemoveElement
      <4>3. Cardinality(B) # 0
        BY <1>1, <3>3, FS_EmptySet
      <4> QED BY <1>1, <2>1, <4>1, <4>2, <4>3
    <3> QED BY <3>2, <3>3
  <2>2. CASE ~TakesBlock(ev, p, a)
    <3>1. \A b \in old : b \notin B
      BY <2>2 DEF TakesBlock, Taken, OneOf, Blocks
    <3>2. L = B
      BY <3>1 DEF L
    <3> QED BY <2>2, <3>2
  <2> QED BY <2>1, <2>2
<1>3. IsFiniteSet(L) /\ Cardinality(L) \in Nat
  <2>1. L \subseteq B
    BY DEF L
  <2> QED BY <1>1, <2>1, FS_Subset, FS_CardinalityType
<1>4. Blocks(p, a)' = L \cup {b \in new : b.pid = p /\ b.ptr = a}
  BY DEF Blocks, L
<1>5. CASE GivesBlock(ev, p, a)
  <2> DEFINE b == Entry(p, a)
  <2>1. b.pid = p /\ b.ptr = a /\ b.sequence = Len(resources) + 1
    BY DEF Entry, Sequence
  <2>2. new = {b}
    BY <1>5 DEF GivesBlock, Added
  <2> HIDE DEF b
  <2>3. b \notin allocs
    <3>1. Len(resources) \in Nat
      BY DEF TypeOK
    <3> QED BY <2>1, <3>1
  <2>4. Blocks(p, a)' = L \cup {b} /\ b \notin L
    BY <1>1, <1>4, <2>1, <2>2, <2>3 DEF L
  <2>5. Cardinality(L \cup {b}) = Cardinality(L) + 1
    BY <1>3, <2>4, FS_AddElement
  <2> QED BY <1>2, <1>5, <2>4, <2>5 DEF BalanceAfter
<1>6. CASE ~GivesBlock(ev, p, a)
  <2>1. \A b \in new : ~(b.pid = p /\ b.ptr = a)
    BY <1>6 DEF GivesBlock, Added, Entry
  <2>2. Blocks(p, a)' = L
    BY <1>4, <2>1
  <2> QED BY <1>2, <1>3, <1>6, <2>2 DEF BalanceAfter
<1> QED BY <1>5, <1>6

AllocInv ==
    /\ TypeOK
    /\ ~err =>
         /\ IsFiniteSet(allocs)
         /\ \A b \in allocs : b.sequence <= Len(resources)
         /\ \A p \in Pid, a \in Ptr : Cardinality(Blocks(p, a)) = Balance(p, a)

LEMMA AllocInvStep ==
    ASSUME ReplayAssumption, AllocInv, TypeOK', Next
    PROVE  AllocInv'
<1>1. SUFFICES ASSUME ~err'
      PROVE  /\ IsFiniteSet(allocs')
             /\ \A b \in allocs' : b.sequence <= Len(resources')
             /\ \A p \in Pid, a \in Ptr : Cardinality(Blocks(p, a)') = Balance(p, a)'
  BY DEF AllocInv
<1>2. /\ TypeOK /\ IsFiniteSet(allocs)
      /\ \A b \in allocs : b.sequence <= Len(resources)
      /\ \A p \in Pid, a \in Ptr : Cardinality(Blocks(p, a)) = Balance(p, a)
  BY StepsFromGoodStates DEF AllocInv
<1>3. CASE UNCHANGED <<resources, allocs>>
  BY <1>2, <1>3 DEF Blocks, Balance
<1>4. ASSUME NEW ev \in Inputs, NEW old \in SUBSET Alloc, NEW new \in SUBSET Alloc,
             Appends(ev), Taken(ev, old), Added(ev, new), allocs' = (allocs \ old) \cup new
      PROVE  /\ IsFiniteSet(allocs')
             /\ \A b \in allocs' : b.sequence <= Len(resources')
             /\ \A p \in Pid, a \in Ptr : Cardinality(Blocks(p, a)') = Balance(p, a)'
  <2>1. \A b \in allocs : b.sequence \in Nat
    BY <1>2 DEF TypeOK, Alloc
  <2>2. Len(resources) \in Nat /\ Len(resources') = Len(resources) + 1
    BY <1>2, <1>4, AppendedLog DEF TypeOK
  <2>3. new = {} \/ \E b : new = {b} /\ b.sequence = Len(resources) + 1
    <3>1. \A pid, ptr : Entry(pid, ptr).sequence = Len(resources) + 1
      BY DEF Entry, Sequence
    <3> QED BY <1>4, <3>1 DEF Added
  <2>4. IsFiniteSet(allocs')
    <3>1. IsFiniteSet(new)
      <4>1. CASE new = {}
        BY <4>1, FS_EmptySet
      <4>2. CASE \E b : new = {b}
        BY <4>2, FS_Singleton
      <4> QED BY <2>3, <4>1, <4>2
    <3>2. allocs \ old \subseteq allocs
      OBVIOUS
    <3> QED BY <1>2, <1>4, <3>1, <3>2, FS_Subset, FS_Union
  <2>5. \A b \in allocs' : b.sequence <= Len(resources')
    <3>1. \A b \in allocs : b.sequence <= Len(resources')
      BY <1>2, <2>1, <2>2
    <3>2. \A b \in new : b.sequence <= Len(resources')
      BY <2>2, <2>3
    <3> QED BY <1>4, <3>1, <3>2
  <2>6. ASSUME NEW p \in Pid, NEW a \in Ptr
        PROVE  Cardinality(Blocks(p, a)') = Balance(p, a)'
    <3>1. Null \notin Ptr
      BY DEF ReplayAssumption
    <3>2. Cardinality(Blocks(p, a)') = BalanceAfter(Cardinality(Blocks(p, a)), ev, p, a)
      BY <1>2, <1>4, <3>1, BlocksCounted
    <3>3. Balance(p, a)' = BalanceAfter(Balance(p, a), ev, p, a)
      BY <1>2, <1>4, BalanceStep
    <3>4. Cardinality(Blocks(p, a)) = Balance(p, a)
      BY <1>2
    <3> QED BY <3>2, <3>3, <3>4
  <2> QED BY <2>4, <2>5, <2>6
<1>5. \/ UNCHANGED <<resources, allocs>>
      \/ \E ev \in Inputs, old, new \in SUBSET Alloc :
           Appends(ev) /\ Taken(ev, old) /\ Added(ev, new) /\ allocs' = (allocs \ old) \cup new
  BY <1>1, <1>2, AllocEffect
<1> QED BY <1>3, <1>4, <1>5

\* While the replay goes well, the allocations in the table are those the log
\* leaves held, counted for each process and address on its own: a free takes
\* one block of its own process, and a realloc one block and gives another
\* (model.c:80-153).
THEOREM AllocationsMatchLog == Spec => []AllocsMatchLog
<1>1. Init => AllocInv
  <2>1. SUFFICES ASSUME Init PROVE AllocInv
    OBVIOUS
  <2>2. TypeOK
    BY <2>1, ReplayAssumption, HeldInit DEF HeldInv
  <2>3. resources = <<>> /\ Len(resources) = 0 /\ allocs = {}
    BY <2>1 DEF Init
  <2>4. IsFiniteSet(allocs)
    BY <2>3, FS_EmptySet
  <2>5. ASSUME NEW p \in Pid, NEW a \in Ptr PROVE Cardinality(Blocks(p, a)) = Balance(p, a)
    <3>1. Blocks(p, a) = {}
      BY <2>3 DEF Blocks
    <3>2. Balance(p, a) = 0
      BY <2>3, BalancesMeaning DEF Balance
    <3> QED BY <3>1, <3>2, FS_EmptySet
  <2> QED BY <2>2, <2>3, <2>4, <2>5 DEF AllocInv
<1>2. AllocInv /\ [Next]_vars => AllocInv'
  <2>1. SUFFICES ASSUME AllocInv, [Next]_vars PROVE AllocInv'
    OBVIOUS
  <2>2. TypeOK /\ TypeOK'
    BY <2>1, ReplayAssumption, TypeStep DEF AllocInv
  <2>3. CASE Next
    BY <2>1, <2>2, <2>3, ReplayAssumption, AllocInvStep
  <2>4. CASE UNCHANGED vars
    <3>1. UNCHANGED <<resources, allocs, err>>
      BY <2>4 DEF vars
    <3>2. \A p, a : Blocks(p, a)' = Blocks(p, a) /\ Balance(p, a)' = Balance(p, a)
      BY <3>1 DEF Blocks, Balance
    <3> QED BY <2>1, <2>2, <3>1, <3>2 DEF AllocInv
  <2> QED BY <2>1, <2>3, <2>4
<1>3. AllocInv => AllocsMatchLog
  BY DEF AllocInv, AllocsMatchLog
<1> QED BY <1>1, <1>2, <1>3, PTL DEF Spec
-----------------------------------------------------------------------------
(* Lifetimes: what the searches find.                                      *)

LEMMA LeastMeaning ==
    ASSUME NEW S, S \subseteq Nat \ {0}
    PROVE  /\ Least(S) \in Nat
           /\ S = {} => Least(S) = 0
           /\ S # {} => Least(S) \in S /\ \A j \in S : Least(S) <= j
<1>1. CASE S = {}
  BY <1>1 DEF Least
<1>2. CASE S # {}
  <2>1. \E x \in S : \A y \in S : x <= y
    BY <1>2, LeastExists
  <2>2. Min(S) \in S /\ \A y \in S : Min(S) <= y
    BY <2>1 DEF Min
  <2> QED BY <1>2, <2>2 DEF Least
<1> QED BY <1>1, <1>2

\* A search finds nothing, or the first record after the birth that is an end.
LEMMA EndMeaning ==
    ASSUME Len(resources) \in Nat, NEW i \in Nat
    PROVE  /\ LET S == {j \in After(i) : Closes(j, resources[i].pid, resources[i].fd)}
              IN  /\ FdEnd(i) \in Nat /\ (S = {} => FdEnd(i) = 0)
                  /\ S # {} => FdEnd(i) \in S /\ \A j \in S : FdEnd(i) <= j
           /\ LET S == {j \in After(i) : EndsBlock(j, i)}
              IN  /\ AllocEnd(i) \in Nat /\ (S = {} => AllocEnd(i) = 0)
                  /\ S # {} => AllocEnd(i) \in S /\ \A j \in S : AllocEnd(i) <= j
           /\ LET S == {j \in After(i) : EndsGeneric(j, i)}
              IN  /\ GenericEnd(i) \in Nat /\ (S = {} => GenericEnd(i) = 0)
                  /\ S # {} => GenericEnd(i) \in S /\ \A j \in S : GenericEnd(i) <= j
<1>1. \A j \in After(i) : j \in Nat \ {0}
  BY DEF After
<1> DEFINE F == {j \in After(i) : Closes(j, resources[i].pid, resources[i].fd)}
           B == {j \in After(i) : EndsBlock(j, i)}
           G == {j \in After(i) : EndsGeneric(j, i)}
<1>2. F \subseteq Nat \ {0} /\ B \subseteq Nat \ {0} /\ G \subseteq Nat \ {0}
  BY <1>1
<1>3. FdEnd(i) = Least(F) /\ AllocEnd(i) = Least(B) /\ GenericEnd(i) = Least(G)
  BY DEF FdEnd, AllocEnd, GenericEnd
<1> HIDE DEF F, B, G
<1>4. /\ Least(F) \in Nat /\ (F = {} => Least(F) = 0)
      /\ F # {} => Least(F) \in F /\ \A j \in F : Least(F) <= j
  BY <1>2, LeastMeaning
<1>5. /\ Least(B) \in Nat /\ (B = {} => Least(B) = 0)
      /\ B # {} => Least(B) \in B /\ \A j \in B : Least(B) <= j
  BY <1>2, LeastMeaning
<1>6. /\ Least(G) \in Nat /\ (G = {} => Least(G) = 0)
      /\ G # {} => Least(G) \in G /\ \A j \in G : Least(G) <= j
  BY <1>2, LeastMeaning
<1> QED BY <1>3, <1>4, <1>5, <1>6 DEF F, B, G

LEMMA EndIsNat ==
    ASSUME Len(resources) \in Nat, NEW i \in Nat
    PROVE  End(i) \in Nat
BY EndMeaning DEF End

-----------------------------------------------------------------------------
(* Blocks.                                                                 *)

IsBlock(i) == i \in Births({"ALLOC", "REALLOC"}) /\ BirthPtr(i) # Null

\* Record i was ended by some record up to n.
BlockEnded(i, n) == \E j \in i + 1 .. n : EndsBlock(j, i)

LEMMA BlockEndMeaning ==
    ASSUME TypeOK, NEW i \in Births({"ALLOC", "REALLOC"})
    PROVE  /\ End(i) = 0 <=> ~BlockEnded(i, Len(resources))
           /\ \A n \in Log : End(i) \in 1 .. n <=> BlockEnded(i, n)
<1> DEFINE S == {j \in After(i) : EndsBlock(j, i)}
<1>1. i \in Nat /\ Len(resources) \in Nat /\ End(i) = AllocEnd(i)
  BY DEF TypeOK, Births, End, Log
<1>2. /\ AllocEnd(i) \in Nat /\ (S = {} => AllocEnd(i) = 0)
      /\ S # {} => AllocEnd(i) \in S /\ \A j \in S : AllocEnd(i) <= j
  BY <1>1, EndMeaning
<1>3. \A j \in S : j > i /\ j \in 1 .. Len(resources) /\ EndsBlock(j, i)
  BY <1>1 DEF After
<1>4. \A n \in 0 .. Len(resources) : BlockEnded(i, n) <=> \E j \in S : j <= n
  BY <1>1 DEF BlockEnded, After
<1> HIDE DEF S
<1>5. \A n \in 0 .. Len(resources) : End(i) \in 1 .. n <=> BlockEnded(i, n)
  BY <1>1, <1>2, <1>3, <1>4
<1>6. End(i) = 0 <=> ~BlockEnded(i, Len(resources))
  BY <1>1, <1>2, <1>3, <1>4
<1> QED BY <1>1, <1>5, <1>6 DEF Log

\* Records i and k gave out the same address, to the same process.
BlockAlike(i, k) == IsBlock(k) /\ SamePid(i, k) /\ BirthPtr(k) = BirthPtr(i)

\* Every one of the records that gave out that address was ended by the next.
BlocksInTurn(i) ==
    \A k, n \in Log : BlockAlike(i, k) /\ BlockAlike(i, n) /\ k < n => BlockEnded(k, n)

Names(a) ==
    /\ IsBlock(a.sequence)
    /\ resources[a.sequence].pid = a.pid /\ BirthPtr(a.sequence) = a.ptr

UnendedAreHeld ==
    \A i \in Log : IsBlock(i) /\ ~BlockEnded(i, Len(resources)) => \E a \in allocs : a.sequence = i

HeldInTurnAreUnended ==
    \A a \in allocs : BlocksInTurn(a.sequence) => ~BlockEnded(a.sequence, Len(resources))

BlockInv ==
    /\ TypeOK
    /\ ~err => (\A a \in allocs : Names(a)) /\ UnendedAreHeld /\ HeldInTurnAreUnended

\* What one more record changes of that.
LEMMA BlockLog ==
    ASSUME TypeOK, NEW ev \in Inputs, Appends(ev), NEW i \in Log, NEW n, n = Len(resources) + 1
    PROVE  /\ IsBlock(i)' <=> IsBlock(i)
           /\ BirthPtr(i)' = BirthPtr(i) /\ resources'[i] = resources[i]
           /\ \A m \in Log : BlockEnded(i, m)' <=> BlockEnded(i, m)
           /\ BlockEnded(i, n)' <=>
                \/ BlockEnded(i, n - 1)
                \/ TakesBlock(ev, resources[i].pid, BirthPtr(i))
<1>1. /\ n \in Nat /\ \A j \in Log : resources'[j] = resources[j]
      /\ resources'[n] = ev /\ Log' = 1 .. n /\ Log = 1 .. n - 1 /\ Len(resources) = n - 1
      /\ Len(resources') = n
  BY AppendedLog DEF TypeOK, Log
<1>2. BirthPtr(i)' = BirthPtr(i) /\ resources'[i] = resources[i]
  BY <1>1 DEF BirthPtr
<1>3. IsBlock(i)' <=> IsBlock(i)
  <2>1. i \in Births({"ALLOC", "REALLOC"}) <=>
          /\ resources[i].kind \in {"ALLOC", "REALLOC"}
          /\ resources[i].kind = "REALLOC" => resources[i].new_ptr # Null
    BY DEF Births, IsBirth
  <2>2. i \in Births({"ALLOC", "REALLOC"})' <=>
          /\ resources'[i].kind \in {"ALLOC", "REALLOC"}
          /\ resources'[i].kind = "REALLOC" => resources'[i].new_ptr # Null
    <3>1. i \in Log'
      BY <1>1
    <3> QED BY <3>1 DEF Births, IsBirth
  <2> QED BY <1>2, <2>1, <2>2 DEF IsBlock
<1>4. \A j \in Log : EndsBlock(j, i)' <=> EndsBlock(j, i)
  BY <1>1, <1>2 DEF EndsBlock, SamePid
<1>5. EndsBlock(n, i)' <=> TakesBlock(ev, resources[i].pid, BirthPtr(i))
  BY <1>1, <1>2 DEF EndsBlock, SamePid, TakesBlock
<1>6. \A m \in Log : BlockEnded(i, m)' <=> BlockEnded(i, m)
  BY <1>1, <1>4 DEF BlockEnded
<1>7. BlockEnded(i, n)' <=> BlockEnded(i, n - 1) \/ TakesBlock(ev, resources[i].pid, BirthPtr(i))
  <2>1. \A j \in i + 1 .. n : j = n \/ j \in i + 1 .. n - 1
    BY <1>1
  <2>2. n \in i + 1 .. n /\ \A j \in i + 1 .. n - 1 : j \in i + 1 .. n /\ j \in Log
    BY <1>1
  <2> QED BY <1>4, <1>5, <2>1, <2>2 DEF BlockEnded
<1> QED BY <1>1, <1>2, <1>3, <1>6, <1>7

LEMMA BlockAdded ==
    ASSUME ReplayAssumption, TypeOK, NEW ev \in Inputs, Appends(ev), NEW n, n = Len(resources) + 1
    PROVE  /\ IsBlock(n)' => \E ptr \in Ptr : Added(ev, {Entry(ev.pid, ptr)})
           /\ \A new : Added(ev, new) => \A a \in new : a.sequence = n /\ Names(a)'
           /\ ~BlockEnded(n, n)'
<1>1. n \in Nat /\ resources'[n] = ev /\ n \in Log'
  BY AppendedLog DEF TypeOK, Sequence
<1>2. ~BlockEnded(n, n)'
  BY <1>1 DEF BlockEnded
<1>3. BirthPtr(n)' = IF ev.kind = "ALLOC" THEN ev.ptr ELSE ev.new_ptr
  BY <1>1 DEF BirthPtr
<1>4. IsBlock(n)' <=> \/ ev.kind = "ALLOC" /\ ev.ptr # Null
                      \/ ev.kind = "REALLOC" /\ ev.new_ptr # Null
  <2>1. n \in Births({"ALLOC", "REALLOC"})' <=>
          /\ ev.kind \in {"ALLOC", "REALLOC"}
          /\ ev.kind = "REALLOC" => ev.new_ptr # Null
    BY <1>1 DEF Births, IsBirth
  <2> QED BY <1>3, <2>1 DEF IsBlock
<1>5. ev.ptr \in Ptr \cup {Null} /\ ev.new_ptr \in Ptr \cup {Null}
  BY InputFields
<1>6. \A ptr : /\ Entry(ev.pid, ptr).sequence = n /\ Entry(ev.pid, ptr).pid = ev.pid
               /\ Entry(ev.pid, ptr).ptr = ptr
  BY DEF Entry, Sequence
<1>7. IsBlock(n)' => \E ptr \in Ptr : Added(ev, {Entry(ev.pid, ptr)})
  BY <1>3, <1>4, <1>5 DEF Added
<1>8. ASSUME NEW new, Added(ev, new), NEW a \in new PROVE a.sequence = n /\ Names(a)'
  <2>1. CASE ev.kind = "ALLOC" /\ ev.ptr # Null /\ new = {Entry(ev.pid, ev.ptr)}
    <3>1. a.sequence = n /\ a.pid = ev.pid /\ a.ptr = ev.ptr
      BY <1>6, <1>8, <2>1
    <3> QED BY <1>1, <1>3, <1>4, <2>1, <3>1 DEF Names
  <2>2. CASE ev.kind = "REALLOC" /\ ev.new_ptr # Null /\ new = {Entry(ev.pid, ev.new_ptr)}
    <3>1. a.sequence = n /\ a.pid = ev.pid /\ a.ptr = ev.new_ptr
      BY <1>6, <1>8, <2>2
    <3> QED BY <1>1, <1>3, <1>4, <2>2, <3>1 DEF Names
  <2> QED BY <1>8, <2>1, <2>2 DEF Added
<1> QED BY <1>2, <1>7, <1>8

\* What is in turn with the record was in turn before it.
LEMMA BlocksInTurnBefore ==
    ASSUME TypeOK, NEW ev \in Inputs, Appends(ev), NEW i \in Log, BlocksInTurn(i)'
    PROVE  BlocksInTurn(i)
<1>1. Log \subseteq Log' /\ \A k \in Log : resources'[k] = resources[k]
  BY AppendedLog DEF TypeOK
<1>2. ASSUME NEW k \in Log, NEW n \in Log, BlockAlike(i, k), BlockAlike(i, n), k < n
      PROVE  BlockEnded(k, n)
  <2>1. BlockAlike(i, k)' /\ BlockAlike(i, n)'
    BY <1>1, <1>2, BlockLog DEF BlockAlike, SamePid
  <2>2. BlockEnded(k, n)'
    BY <1>1, <1>2, <2>1 DEF BlocksInTurn
  <2> QED BY <2>2, BlockLog
<1> QED BY <1>2 DEF BlocksInTurn

\* Of two blocks of one process at one address, one has ended in the log.
LEMMA InTurnIsAlone ==
    ASSUME TypeOK, HeldInTurnAreUnended, NEW a \in allocs, NEW b \in allocs, Names(a), Names(b),
           a.pid = b.pid, a.ptr = b.ptr, BlocksInTurn(a.sequence)
    PROVE  a = b
<1>1. a \in Alloc /\ b \in Alloc /\ Len(resources) \in Nat
  BY DEF TypeOK
<1>2. a.sequence \in Log /\ b.sequence \in Log
  BY DEF Names, IsBlock, Births
<1>3. \A k : BlockAlike(a.sequence, k) <=> BlockAlike(b.sequence, k)
  BY DEF BlockAlike, Names, SamePid
<1>4. BlockAlike(a.sequence, a.sequence) /\ BlockAlike(a.sequence, b.sequence)
  BY DEF BlockAlike, Names, SamePid
<1>5. BlocksInTurn(b.sequence)
  BY <1>3 DEF BlocksInTurn
<1>6. ~BlockEnded(a.sequence, Len(resources)) /\ ~BlockEnded(b.sequence, Len(resources))
  BY <1>5 DEF HeldInTurnAreUnended
<1>7. \A k, n \in Log : BlockEnded(k, n) => BlockEnded(k, Len(resources))
  BY <1>1 DEF BlockEnded, Log
<1>8. ~(a.sequence < b.sequence) /\ ~(b.sequence < a.sequence)
  BY <1>2, <1>4, <1>6, <1>7 DEF BlocksInTurn
<1>9. a.sequence = b.sequence
  BY <1>2, <1>8 DEF Log
<1> QED BY <1>1, <1>9 DEF Alloc

LEMMA BlockInvStep ==
    ASSUME ReplayAssumption, BlockInv, TypeOK', Next
    PROVE  BlockInv'
<1>1. SUFFICES ASSUME ~err'
      PROVE  (\A a \in allocs' : Names(a)') /\ UnendedAreHeld' /\ HeldInTurnAreUnended'
  BY DEF BlockInv
<1>2. TypeOK /\ (\A a \in allocs : Names(a)) /\ UnendedAreHeld /\ HeldInTurnAreUnended
  BY StepsFromGoodStates DEF BlockInv
<1>3. CASE UNCHANGED <<resources, allocs>>
  <2>1. \A a : Names(a)' <=> Names(a)
    BY <1>3 DEF Names, IsBlock, Births, IsBirth, BirthPtr, Log, HandsOn, DetailOf
  <2>2. \A i : IsBlock(i)' <=> IsBlock(i)
    BY <1>3 DEF IsBlock, Births, IsBirth, BirthPtr, Log, HandsOn, DetailOf
  <2>3. \A i, n : (BlockEnded(i, n)' <=> BlockEnded(i, n)) /\ (BlockAlike(i, n)' <=> BlockAlike(i, n))
    BY <1>3, <2>2 DEF BlockEnded, BlockAlike, EndsBlock, SamePid, BirthPtr
  <2>4. \A i : BlocksInTurn(i)' <=> BlocksInTurn(i)
    BY <1>3, <2>3 DEF BlocksInTurn, Log
  <2>5. UnendedAreHeld'
    BY <1>2, <1>3, <2>2, <2>3 DEF UnendedAreHeld, Log
  <2>6. HeldInTurnAreUnended'
    BY <1>2, <1>3, <2>3, <2>4 DEF HeldInTurnAreUnended
  <2> QED BY <1>2, <1>3, <2>1, <2>5, <2>6
<1>4. ASSUME NEW ev \in Inputs, NEW old \in SUBSET Alloc, NEW new \in SUBSET Alloc,
             Appends(ev), Taken(ev, old), Added(ev, new), allocs' = (allocs \ old) \cup new
      PROVE  (\A a \in allocs' : Names(a)') /\ UnendedAreHeld' /\ HeldInTurnAreUnended'
  <2> DEFINE top == Len(resources) + 1
  <2>0. PICK n : n = top
    OBVIOUS
  <2>1. /\ n = Len(resources) + 1 /\ n \in Nat /\ Len(resources') = n /\ n - 1 = Len(resources)
        /\ \A i \in Log' : i \in Log \/ i = n
        /\ Log \subseteq Log' /\ \A i \in Log : resources'[i] = resources[i]
    BY <1>2, <1>4, <2>0, AppendedLog DEF TypeOK
  <2>2. \A i \in Log : /\ IsBlock(i)' <=> IsBlock(i)
                       /\ BirthPtr(i)' = BirthPtr(i)
                       /\ BlockEnded(i, n)' <=>
                            \/ BlockEnded(i, n - 1)
                            \/ TakesBlock(ev, resources[i].pid, BirthPtr(i))
    BY <1>2, <1>4, <2>1, BlockLog
  <2>3. /\ IsBlock(n)' => \E ptr \in Ptr : Added(ev, {Entry(ev.pid, ptr)})
        /\ \A a \in new : a.sequence = n /\ Names(a)'
        /\ ~BlockEnded(n, n)'
    BY <1>2, <1>4, <2>1, BlockAdded
  <2>4. \A a \in allocs : a.sequence \in Log
    BY <1>2 DEF Names, IsBlock, Births
  <2>5. \A a \in allocs' : Names(a)'
    <3>1. ASSUME NEW a \in allocs PROVE Names(a)'
      BY <1>2, <2>1, <2>2, <2>4 DEF Names
    <3> QED BY <1>4, <2>3, <3>1
  <2>6. ASSUME NEW a \in allocs
        PROVE  a \in old => BlockEnded(a.sequence, n)'
    <3>1. a \in old => TakesBlock(ev, a.pid, a.ptr)
      BY <1>4 DEF Taken, OneOf, Blocks, TakesBlock
    <3> QED BY <1>2, <2>2, <2>4, <3>1 DEF Names
  <2>7. UnendedAreHeld'
    <3>1. ASSUME NEW i \in Log', IsBlock(i)', ~BlockEnded(i, n)'
          PROVE  \E a \in allocs' : a.sequence = i
      <4>1. CASE i \in Log
        <5>1. IsBlock(i) /\ ~BlockEnded(i, Len(resources))
          BY <2>1, <2>2, <3>1, <4>1
        <5>2. PICK a \in allocs : a.sequence = i
          BY <1>2, <4>1, <5>1 DEF UnendedAreHeld
        <5>3. a \notin old
          BY <2>6, <3>1, <5>2
        <5> QED BY <1>4, <5>2, <5>3
      <4>2. CASE i = n
        <5>1. PICK ptr \in Ptr : Added(ev, {Entry(ev.pid, ptr)})
          BY <2>3, <3>1, <4>2
        <5>2. new # {}
          BY <1>4, <5>1 DEF Added
        <5>3. PICK a : a \in new
          BY <5>2
        <5> QED BY <1>4, <2>3, <4>2, <5>3
      <4> QED BY <2>1, <4>1, <4>2
    <3> QED BY <2>1, <3>1 DEF UnendedAreHeld
  <2>8. ASSUME NEW a \in allocs', BlocksInTurn(a.sequence)' PROVE ~BlockEnded(a.sequence, n)'
    <3>1. CASE a \in new
      BY <2>3, <3>1
    <3>2. CASE a \in allocs /\ a \notin old
      <4>1. BlocksInTurn(a.sequence)
        BY <1>2, <1>4, <2>4, <2>8, <3>2, BlocksInTurnBefore
      <4>2. ~BlockEnded(a.sequence, n - 1)
        BY <1>2, <2>1, <3>2, <4>1 DEF HeldInTurnAreUnended
      <4>3. ASSUME TakesBlock(ev, a.pid, a.ptr) PROVE FALSE
        <5>1. OneOf(old, Blocks(a.pid, a.ptr)) /\ a \in Blocks(a.pid, a.ptr)
          BY <1>4, <3>2, <4>3 DEF TakesBlock, Taken, Blocks
        <5>2. PICK b \in old : b \in allocs /\ b.pid = a.pid /\ b.ptr = a.ptr
          BY <5>1 DEF OneOf, Blocks
        <5>3. a = b
          BY <1>2, <3>2, <4>1, <5>2, InTurnIsAlone
        <5> QED BY <3>2, <5>2, <5>3
      <4> QED BY <1>2, <2>2, <2>4, <3>2, <4>2, <4>3 DEF Names
    <3> QED BY <1>4, <3>1, <3>2
  <2>9. HeldInTurnAreUnended'
    BY <2>1, <2>8 DEF HeldInTurnAreUnended
  <2> QED BY <2>5, <2>7, <2>9
<1>5. \/ UNCHANGED <<resources, allocs>>
      \/ \E ev \in Inputs, old, new \in SUBSET Alloc :
           Appends(ev) /\ Taken(ev, old) /\ Added(ev, new) /\ allocs' = (allocs \ old) \cup new
  BY <1>1, <1>2, AllocEffect
<1> QED BY <1>3, <1>4, <1>5

LEMMA BlockInvSuffices == BlockInv => BlocksAgree
<1> SUFFICES ASSUME BlockInv, ~err, NEW i \in Births({"ALLOC", "REALLOC"}), BirthPtr(i) # Null
    PROVE  LET held   == \E a \in allocs : a.sequence = i
               alike  == {k \in Births({"ALLOC", "REALLOC"}) :
                            SamePid(i, k) /\ BirthPtr(k) = BirthPtr(i)}
               inTurn == \A k, n \in alike : k < n => End(k) \in 1 .. n
           IN  /\ End(i) = 0 => held
               /\ held /\ inTurn => End(i) = 0
  BY DEF BlocksAgree
<1>1. TypeOK /\ UnendedAreHeld /\ HeldInTurnAreUnended
  BY DEF BlockInv
<1>2. IsBlock(i) /\ i \in Log
  BY DEF IsBlock, Births
<1>3. End(i) = 0 <=> ~BlockEnded(i, Len(resources))
  BY <1>1, BlockEndMeaning
<1> DEFINE alike == {k \in Births({"ALLOC", "REALLOC"}) : SamePid(i, k) /\ BirthPtr(k) = BirthPtr(i)}
<1>4. ASSUME \A k, n \in alike : k < n => End(k) \in 1 .. n
      PROVE  BlocksInTurn(i)
  <2>1. ASSUME NEW k \in Log, NEW n \in Log, BlockAlike(i, k), BlockAlike(i, n), k < n
        PROVE  BlockEnded(k, n)
    <3>1. k \in alike /\ n \in alike /\ k \in Births({"ALLOC", "REALLOC"})
      BY <2>1 DEF BlockAlike, IsBlock
    <3>2. End(k) \in 1 .. n
      BY <1>4, <2>1, <3>1
    <3> QED BY <1>1, <3>1, <3>2, BlockEndMeaning
  <2> QED BY <2>1 DEF BlocksInTurn
<1>5. End(i) = 0 => \E a \in allocs : a.sequence = i
  BY <1>1, <1>2, <1>3 DEF UnendedAreHeld
<1>6. (\E a \in allocs : a.sequence = i) /\ BlocksInTurn(i) => End(i) = 0
  BY <1>1, <1>3 DEF HeldInTurnAreUnended
<1> QED BY <1>4, <1>5, <1>6

\* The list of lifetimes and the allocation table tell one story: a block whose
\* lifetime has no end is in the table, and a block in the table has no end
\* unless its process was given an address it still held
\* (lifetime_common.c:98-123, model.c:80-153).
THEOREM BlockLifetimesAgree == Spec => []BlocksAgree
<1>1. Init => BlockInv
  <2>1. SUFFICES ASSUME Init PROVE BlockInv
    OBVIOUS
  <2>2. TypeOK
    BY <2>1, ReplayAssumption, HeldInit DEF HeldInv
  <2>3. Log = {} /\ allocs = {}
    BY <2>1 DEF Init, Log
  <2> QED BY <2>2, <2>3 DEF BlockInv, UnendedAreHeld, HeldInTurnAreUnended
<1>2. BlockInv /\ [Next]_vars => BlockInv'
  <2>1. SUFFICES ASSUME BlockInv, [Next]_vars PROVE BlockInv'
    OBVIOUS
  <2>2. TypeOK /\ TypeOK'
    BY <2>1, ReplayAssumption, TypeStep DEF BlockInv
  <2>3. CASE Next
    BY <2>1, <2>2, <2>3, ReplayAssumption, BlockInvStep
  <2>4. CASE UNCHANGED vars
    BY <2>1, <2>2, <2>4 DEF BlockInv, Names, UnendedAreHeld, HeldInTurnAreUnended, IsBlock, Births,
       IsBirth, BirthPtr, Log, HandsOn, DetailOf, BlocksInTurn, BlockAlike, BlockEnded, EndsBlock,
       SamePid, vars
  <2> QED BY <2>1, <2>3, <2>4
<1>3. BlockInv => BlocksAgree
  BY BlockInvSuffices
<1> QED BY <1>1, <1>2, <1>3, PTL DEF Spec

-----------------------------------------------------------------------------
(* Descriptors.                                                            *)

FdEnded(i, n) == \E j \in i + 1 .. n : Closes(j, resources[i].pid, resources[i].fd)

LEMMA FdEndMeaning ==
    ASSUME TypeOK, NEW i \in Births({"FD_OPEN"})
    PROVE  /\ End(i) = 0 <=> ~FdEnded(i, Len(resources))
           /\ \A n \in Log : End(i) \in 1 .. n <=> FdEnded(i, n)
<1> DEFINE S == {j \in After(i) : Closes(j, resources[i].pid, resources[i].fd)}
<1>1. i \in Nat /\ Len(resources) \in Nat /\ End(i) = FdEnd(i)
  BY DEF TypeOK, Births, End, Log
<1>2. /\ FdEnd(i) \in Nat /\ (S = {} => FdEnd(i) = 0)
      /\ S # {} => FdEnd(i) \in S /\ \A j \in S : FdEnd(i) <= j
  BY <1>1, EndMeaning
<1>3. \A j \in S : j > i /\ j \in 1 .. Len(resources)
  BY <1>1 DEF After
<1>4. \A n \in 0 .. Len(resources) : FdEnded(i, n) <=> \E j \in S : j <= n
  BY <1>1 DEF FdEnded, After
<1> HIDE DEF S
<1>5. \A n \in 0 .. Len(resources) : End(i) \in 1 .. n <=> FdEnded(i, n)
  BY <1>1, <1>2, <1>3, <1>4
<1>6. End(i) = 0 <=> ~FdEnded(i, Len(resources))
  BY <1>1, <1>2, <1>3, <1>4
<1> QED BY <1>1, <1>5, <1>6 DEF Log

\* Every open of that descriptor was closed by the next, and its process was never
\* the child of a fork.
FdsInTurn(pid, fd) ==
    /\ \A k, n \in Log : Opens(k, pid, fd) /\ Opens(n, pid, fd) /\ k < n => FdEnded(k, n)
    /\ \A j \in Log : resources[j].child_pid # pid

UnclosedAreHeld ==
    \A i \in Log :
      resources[i].kind = "FD_OPEN" /\ ~FdEnded(i, Len(resources))
        => (\E e \in fds : e.sequence = i) \/ SweptAway(i)

HeldInTurnAreUnclosed ==
    \A e \in fds : FdsInTurn(e.pid, e.fd) => ~FdEnded(e.sequence, Len(resources))

FdLifeInv ==
    /\ TypeOK /\ PendingIsOpenAttempt /\ FdsComeFromLog
    /\ ~err /\ ~finalized => UnclosedAreHeld /\ HeldInTurnAreUnclosed

LEMMA FdLog ==
    ASSUME TypeOK, NEW ev \in Inputs, Appends(ev), NEW i \in Log, NEW n, n = Len(resources) + 1
    PROVE  /\ resources'[i] = resources[i]
           /\ \A m \in Log : FdEnded(i, m)' <=> FdEnded(i, m)
           /\ FdEnded(i, n)' <=>
                \/ FdEnded(i, n - 1)
                \/ ev.kind = "FD_CLOSE" /\ ev.pid = resources[i].pid /\ ev.fd = resources[i].fd
           /\ SweptAway(i) => SweptAway(i)'
<1>1. /\ n \in Nat /\ \A j \in Log : resources'[j] = resources[j]
      /\ resources'[n] = ev /\ Log' = 1 .. n /\ Log = 1 .. n - 1
  BY AppendedLog DEF TypeOK, Log
<1>2. \A j \in Log : Closes(j, resources[i].pid, resources[i].fd)' <=>
                     Closes(j, resources[i].pid, resources[i].fd)
  BY <1>1 DEF Closes, IsFor
<1>3. Closes(n, resources[i].pid, resources[i].fd)' <=>
        ev.kind = "FD_CLOSE" /\ ev.pid = resources[i].pid /\ ev.fd = resources[i].fd
  BY <1>1 DEF Closes, IsFor
<1>4. \A m \in Log : FdEnded(i, m)' <=> FdEnded(i, m)
  BY <1>1, <1>2 DEF FdEnded
<1>5. FdEnded(i, n)' <=> FdEnded(i, n - 1) \/ Closes(n, resources[i].pid, resources[i].fd)'
  <2>1. \A j \in i + 1 .. n : j = n \/ j \in i + 1 .. n - 1
    BY <1>1
  <2>2. n \in i + 1 .. n /\ \A j \in i + 1 .. n - 1 : j \in i + 1 .. n /\ j \in Log
    BY <1>1
  <2> QED BY <1>2, <2>1, <2>2 DEF FdEnded
<1>6. ASSUME SweptAway(i) PROVE SweptAway(i)'
  <2>1. PICK j \in Log : /\ j > i /\ Execs(j, resources[i].pid, resources[i].fd)
                         /\ resources[j].cloexec /\ Crossed(j)
    BY <1>6 DEF SweptAway
  <2>2. Crossed(j)'
    BY <2>1, CrossedStays
  <2> QED BY <1>1, <2>1, <2>2 DEF SweptAway, Execs, IsFor
<1> QED BY <1>1, <1>3, <1>4, <1>5, <1>6

\* What was in turn after the record was in turn before it.
LEMMA FdsInTurnBefore ==
    ASSUME TypeOK, NEW ev \in Inputs, Appends(ev), NEW p, NEW d, FdsInTurn(p, d)'
    PROVE  FdsInTurn(p, d)
<1>1. Log \subseteq Log' /\ \A k \in Log : resources'[k] = resources[k]
  BY AppendedLog DEF TypeOK
<1>2. ASSUME NEW k \in Log, NEW n \in Log, Opens(k, p, d), Opens(n, p, d), k < n
      PROVE  FdEnded(k, n)
  <2>1. Opens(k, p, d)' /\ Opens(n, p, d)'
    BY <1>1, <1>2 DEF Opens, IsFor
  <2>2. FdEnded(k, n)'
    BY <1>1, <1>2, <2>1 DEF FdsInTurn
  <2> QED BY <2>2, FdLog
<1>3. \A j \in Log : resources[j].child_pid # p
  BY <1>1 DEF FdsInTurn
<1> QED BY <1>2, <1>3 DEF FdsInTurn

LEMMA FdIsAlone ==
    ASSUME TypeOK, FdsComeFromLog, HeldInTurnAreUnclosed, NEW e \in fds, NEW g \in fds,
           Slot(e) = Slot(g), FdsInTurn(e.pid, e.fd)
    PROVE  e = g
<1>1. e.sequence \in Log /\ g.sequence \in Log /\ Len(resources) \in Nat
  BY DEF TypeOK
<1>2. e.pid = g.pid /\ e.fd = g.fd
  BY DEF Slot
<1>3. Opens(e.sequence, e.pid, e.fd) /\ Opens(g.sequence, e.pid, e.fd)
  BY <1>1, <1>2 DEF FdsComeFromLog, Born, FdsInTurn
<1>4. ~FdEnded(e.sequence, Len(resources)) /\ ~FdEnded(g.sequence, Len(resources))
  BY <1>2 DEF HeldInTurnAreUnclosed
<1>5. \A k, n \in Log : FdEnded(k, n) => FdEnded(k, Len(resources))
  BY <1>1 DEF FdEnded, Log
<1>6. ~(e.sequence < g.sequence) /\ ~(g.sequence < e.sequence)
  BY <1>1, <1>3, <1>4, <1>5 DEF FdsInTurn
<1>7. e.sequence = g.sequence
  BY <1>1, <1>6 DEF Log
<1> QED BY <1>7 DEF FdsComeFromLog, EntriesAreDistinct

\* The step of a record that is read well, entry by entry: of the swept table only
\* an FD_CLOSE takes something, an entry of its slot; and every entry of the
\* next table is accounted for.
Closed(ev) ==
    ev.kind = "FD_CLOSE" /\ \E e \in Entries(SettledFds(ev), ev.pid, ev.fd) : fds' = SettledFds(ev) \ {e}

Spared(ev) == \A e \in SettledFds(ev) : \E x \in fds' : Inherits(x, e)

Exact(ev) ==
    /\ \A x \in fds' : Accounted(x, ev)
    /\ Closed(ev) \/ Spared(ev)
    /\ ev.kind = "FD_OPEN" => \E x \in fds' : x.sequence = Sequence
    /\ ev.kind = "FD_CLOSE" =>
         Closed(ev) \/ (fds' = SettledFds(ev) /\ Entries(SettledFds(ev), ev.pid, ev.fd) = {})

LEMMA ExactStep ==
    ASSUME ReplayAssumption, TypeOK, Next, ~err', ~finalized'
    PROVE  \E ev \in Inputs : Appends(ev) /\ Exact(ev)
<1> DEFINE Apart(ev) == /\ Closed(ev) \/ Spared(ev)
                        /\ ev.kind = "FD_OPEN" => \E x \in fds' : x.sequence = Sequence
                        /\ ev.kind = "FD_CLOSE" =>
                             \/ Closed(ev)
                             \/ fds' = SettledFds(ev) /\ Entries(SettledFds(ev), ev.pid, ev.fd) = {}
           Goal == \E ev \in Inputs : Appends(ev) /\ Apart(ev)
<1>0. \A ev : \A e \in SettledFds(ev) : FdOK(e, Len(resources))
  BY SettledOK
<1>1. ASSUME NEW ev \in Inputs,
             \/ FdCloseStray(ev) \/ AllocStore(ev) \/ FreeBlock(ev) \/ FreeStray(ev)
             \/ Realloc(ev) \/ Spawn(ev) \/ ExecUnknown(ev) \/ Generic(ev)
      PROVE  Goal
  <2>1. /\ Stored(ev) /\ fds' = SettledFds(ev) /\ ev.kind # "FD_OPEN"
        /\ ev.kind = "FD_CLOSE" => Entries(SettledFds(ev), ev.pid, ev.fd) = {}
    BY <1>1 DEF FdCloseStray, AllocStore, FreeBlock, FreeStray, Realloc, Spawn, ExecUnknown,
                Generic, Settle
  <2>2. Spared(ev)
    BY <2>1 DEF Spared, Inherits
  <2> QED BY <2>1, <2>2 DEF Stored, Appends
<1>2. ASSUME NEW ev \in Inputs, FdOpen(ev) PROVE Goal
  <2>1. /\ fds' = SettledFds(ev) \cup {NewFd(ev.pid, ev.fd, ev.site)}
        /\ Stored(ev) /\ ev.kind = "FD_OPEN"
    BY <1>2 DEF FdOpen
  <2>2. NewFd(ev.pid, ev.fd, ev.site).sequence = Sequence
    BY DEF NewFd
  <2>3. Spared(ev)
    BY <2>1 DEF Spared, Inherits
  <2>4. \E x \in fds' : x.sequence = Sequence
    BY <2>1, <2>2
  <2> QED BY <2>1, <2>3, <2>4 DEF Stored, Appends
<1>3. ASSUME NEW ev \in Inputs, FdClose(ev) PROVE Goal
  <2>1. Closed(ev) /\ Stored(ev) /\ ev.kind = "FD_CLOSE"
    BY <1>3 DEF FdClose, Closed
  <2> QED BY <2>1 DEF Stored, Appends
<1>4. ASSUME NEW ev \in Inputs, Fork(ev) PROVE Goal
  <2>1. SettledFds(ev) \subseteq fds' /\ Stored(ev) /\ ev.kind = "FORK"
    BY <1>4, ForkTable DEF Fork
  <2>2. Spared(ev)
    BY <2>1 DEF Spared, Inherits
  <2> QED BY <2>1, <2>2 DEF Stored, Appends
<1>5. ASSUME NEW ev \in Inputs, Exec(ev) PROVE Goal
  <2>1. PICK e \in SettledFds(ev) : fds' = (SettledFds(ev) \ {e}) \cup {Marked(e, ev)}
    BY <1>5 DEF Exec, Entries, Marked
  <2>2. Inherits(Marked(e, ev), e)
    <3>1. FdOK(e, Len(resources)) /\ ev.cloexec \in BOOLEAN
      BY <1>0, InputFields
    <3> QED BY <3>1, MarkedOK DEF Inherits
  <2>3. Spared(ev)
    <3>1. ASSUME NEW g \in SettledFds(ev) PROVE \E x \in fds' : Inherits(x, g)
      <4>1. CASE g = e
        BY <2>1, <2>2, <4>1
      <4>2. CASE g # e
        BY <2>1, <4>2 DEF Inherits
      <4> QED BY <4>1, <4>2
    <3> QED BY <3>1 DEF Spared
  <2>4. Stored(ev) /\ ev.kind = "EXEC"
    BY <1>5 DEF Exec
  <2> QED BY <2>3, <2>4 DEF Stored, Appends
<1>6. ASSUME NEW ev \in Inputs, ExecFail(ev) PROVE Goal
  <2>1. Len(resources) \in Nat
    BY DEF TypeOK
  <2>2. \A e \in SettledFds(ev) : Inherits(Cleared(e), e)
    BY <1>0, <2>1, ClearedOK DEF Inherits
  <2>3. \A e \in SettledFds(ev) : e \in fds' \/ Cleared(e) \in fds'
    BY <1>6 DEF ExecFail
  <2>4. Spared(ev)
    BY <2>2, <2>3 DEF Spared, Inherits
  <2>5. Stored(ev) /\ ev.kind = "EXEC_FAIL"
    BY <1>6 DEF ExecFail
  <2> QED BY <2>4, <2>5 DEF Stored, Appends
<1>7. ASSUME NEW ev \in Inputs, SettleFails(ev) \/ StoreFails(ev) PROVE FALSE
  BY <1>7 DEF SettleFails, SweepFails, StoreFails
<1>8. ASSUME Finalize \/ FinalizeFails PROVE FALSE
  BY <1>8 DEF Finalize, FinalizeFails
<1>9. Goal
  <2> HIDE DEF Goal
  <2> QED BY <1>1, <1>2, <1>3, <1>4, <1>5, <1>6, <1>7, <1>8 DEF Next, Ingest
<1>10. PICK ev \in Inputs : Appends(ev) /\ Apart(ev)
  BY <1>9
<1>11. \A x \in fds' : Accounted(x, ev)
  <2>1. Len(resources') # Len(resources) /\ resources'[Len(resources) + 1] = ev
    BY <1>10, AppendedLog DEF TypeOK
  <2>2. PICK e \in Inputs : Appends(e) /\ \A x \in fds' : Accounted(x, e)
    BY <2>1, TableStep
  <2>3. e = ev
    BY <2>1, <2>2, AppendedLog DEF TypeOK
  <2> QED BY <2>2, <2>3
<1> QED BY <1>10, <1>11 DEF Exact

\* A sweep loses an entry only with an exec that crossed.
LEMMA SweptEntry ==
    ASSUME TypeOK, PendingIsOpenAttempt, NEW ev, Appends(ev), NEW e \in fds
    PROVE  \/ \E x \in SettledFds(ev) : Inherits(x, e)
           \/ resources[e.sequence].pid = e.pid /\ resources[e.sequence].fd = e.fd => SweptAway(e.sequence)'
<1>1. CASE e \notin Settling(ev)
  <2>1. e \in SettledFds(ev)
    BY <1>1 DEF SettledFds, SweptFds
  <2> QED BY <2>1 DEF Inherits
<1>2. CASE e \in Settling(ev) /\ ~e.exec_cloexec
  <2>1. Cleared(e) \in SettledFds(ev)
    BY <1>2 DEF SettledFds, SweptFds
  <2>2. FdOK(e, Len(resources)) /\ Len(resources) \in Nat
    BY DEF TypeOK, FdOK, Log
  <2> QED BY <2>1, <2>2, ClearedOK DEF Inherits
<1>3. CASE e \in Settling(ev) /\ e.exec_cloexec
  <2> DEFINE k == e.exec_sequence
  <2>1. e.exec_pending /\ e.pid = ev.pid /\ ev.kind \notin {"EXEC", "EXEC_FAIL"}
    BY <1>3 DEF Settling, Pending
  <2>2. /\ k \in Log /\ e.sequence < k /\ Execs(k, e.pid, e.fd) /\ resources[k].cloexec
        /\ AtExec(k, e.pid)
    BY <1>3, <2>1 DEF PendingIsOpenAttempt
  <2>3. Crossed(k)'
    BY <2>1, <2>2, CrossesNow DEF Execs, IsFor
  <2>4. k \in Log' /\ resources'[k] = resources[k] /\ resources'[e.sequence] = resources[e.sequence]
    BY <2>2, AppendedLog DEF TypeOK
  <2>5. k > e.sequence
    BY <2>2 DEF TypeOK, Log
  <2> HIDE DEF k
  <2> QED BY <2>2, <2>3, <2>4, <2>5 DEF SweptAway, Execs, IsFor
<1> QED BY <1>1, <1>2, <1>3

LEMMA FdLifeStep ==
    ASSUME ReplayAssumption, FdLifeInv, TypeOK', Next, ~err', ~finalized'
    PROVE  UnclosedAreHeld' /\ HeldInTurnAreUnclosed'
<1>1. /\ TypeOK /\ PendingIsOpenAttempt /\ FdsComeFromLog
      /\ UnclosedAreHeld /\ HeldInTurnAreUnclosed
  BY StepsFromGoodStates DEF FdLifeInv
<1>2. PICK ev \in Inputs : Appends(ev) /\ Exact(ev)
  BY <1>1, ExactStep
<1> DEFINE top == Len(resources) + 1
<1>3. PICK n : n = top
  OBVIOUS
<1>4. /\ n = Len(resources) + 1 /\ n \in Nat /\ Len(resources') = n /\ n - 1 = Len(resources)
      /\ \A i \in Log' : i \in Log \/ i = n
      /\ Log \subseteq Log' /\ \A i \in Log : resources'[i] = resources[i]
      /\ resources'[n] = ev
  BY <1>1, <1>2, <1>3, AppendedLog DEF TypeOK
<1>5. \A i \in Log : /\ FdEnded(i, n)' <=>
                          \/ FdEnded(i, n - 1)
                          \/ ev.kind = "FD_CLOSE" /\ ev.pid = resources[i].pid /\ ev.fd = resources[i].fd
                     /\ SweptAway(i) => SweptAway(i)'
  BY <1>1, <1>2, <1>4, FdLog
<1>6. \A e \in fds : e.sequence \in Log
  BY <1>1 DEF TypeOK
<1>7. ASSUME NEW i \in Log', resources'[i].kind = "FD_OPEN", ~FdEnded(i, n)'
      PROVE  (\E x \in fds' : x.sequence = i) \/ SweptAway(i)'
  <2>1. CASE i = n
    <3>1. \E x \in fds' : x.sequence = Sequence
      BY <1>2, <1>4, <1>7, <2>1 DEF Exact
    <3> QED BY <1>4, <2>1, <3>1 DEF Sequence
  <2>2. CASE i \in Log
    <3>1. resources[i].kind = "FD_OPEN" /\ ~FdEnded(i, Len(resources))
      BY <1>4, <1>5, <1>7, <2>2
    <3>2. CASE SweptAway(i)
      BY <1>5, <2>2, <3>2
    <3>3. CASE \E e \in fds : e.sequence = i
      <4>1. PICK e \in fds : e.sequence = i
        BY <3>3
      <4>2. resources[i].pid = e.pid /\ resources[i].fd = e.fd
        <5>1. Born(e)
          BY <1>1 DEF FdsComeFromLog
        <5> QED BY <3>1, <4>1, <5>1 DEF Born, Opens, IsFor
      <4>3. CASE \E x \in SettledFds(ev) : Inherits(x, e)
        <5>1. PICK x \in SettledFds(ev) : Inherits(x, e)
          BY <4>3
        <5>2. x.sequence = i /\ x.pid = e.pid /\ x.fd = e.fd
          BY <4>1, <5>1 DEF Inherits
        <5>3. CASE Spared(ev)
          <6>1. PICK y \in fds' : Inherits(y, x)
            BY <5>3 DEF Spared
          <6> QED BY <5>2, <6>1 DEF Inherits
        <5>4. CASE Closed(ev)
          <6>1. PICK g \in Entries(SettledFds(ev), ev.pid, ev.fd) : fds' = SettledFds(ev) \ {g}
            BY <5>4 DEF Closed
          <6>2. x # g
            BY <1>5, <1>7, <2>2, <4>2, <5>2, <5>4, <6>1 DEF Entries, Closed
          <6> QED BY <5>1, <5>2, <6>1, <6>2
        <5> QED BY <1>2, <5>3, <5>4 DEF Exact
      <4>4. CASE resources[e.sequence].pid = e.pid /\ resources[e.sequence].fd = e.fd => SweptAway(e.sequence)'
        BY <4>1, <4>2, <4>4
      <4> QED BY <1>1, <1>2, <4>3, <4>4, SweptEntry
    <3> QED BY <1>1, <2>2, <3>1, <3>2, <3>3 DEF UnclosedAreHeld
  <2> QED BY <1>4, <2>1, <2>2
<1>8. ASSUME NEW x \in fds', FdsInTurn(x.pid, x.fd)' PROVE ~FdEnded(x.sequence, n)'
  <2>1. Accounted(x, ev)
    BY <1>2 DEF Exact
  <2>2. CASE x.sequence = n
    BY <1>4, <2>2 DEF FdEnded
  <2>3. CASE \E e \in fds : Inherits(x, e)
    <3>1. PICK e \in fds : Inherits(x, e)
      BY <2>3
    <3>2. FdsInTurn(e.pid, e.fd) /\ x.sequence = e.sequence /\ x.pid = e.pid /\ x.fd = e.fd
      BY <1>1, <1>2, <1>8, <3>1, FdsInTurnBefore DEF Inherits
    <3>3. ~FdEnded(e.sequence, n - 1) /\ e.sequence \in Log
      BY <1>1, <1>4, <1>6, <3>2 DEF HeldInTurnAreUnclosed
    <3>4. resources[e.sequence].pid = e.pid /\ resources[e.sequence].fd = e.fd
      <4>1. Born(e)
        BY <1>1 DEF FdsComeFromLog
      <4> QED BY <3>2, <3>3, <4>1 DEF Born, Opens, IsFor, FdsInTurn
    <3>5. ASSUME ev.kind = "FD_CLOSE", ev.pid = e.pid, ev.fd = e.fd PROVE FALSE
      <4>1. x \in SettledFds(ev)
        BY <1>2, <3>5 DEF Exact, Closed
      <4>2. x \in Entries(SettledFds(ev), ev.pid, ev.fd)
        BY <3>2, <3>5, <4>1 DEF Entries
      <4>3. Closed(ev)
        BY <1>2, <3>5, <4>2 DEF Exact
      <4>4. PICK g \in Entries(SettledFds(ev), ev.pid, ev.fd) : fds' = SettledFds(ev) \ {g}
        BY <4>3 DEF Closed
      <4>5. g \in SettledFds(ev) /\ g.pid = ev.pid /\ g.fd = ev.fd /\ g # x
        BY <4>4 DEF Entries
      <4>6. PICK h \in fds : Inherits(g, h)
        BY <1>1, <3>5, <4>5, SettledKept DEF Kept, SameFd, Inherits
      <4>7. Slot(e) = Slot(h)
        BY <3>5, <4>5, <4>6 DEF Inherits, Slot
      <4>8. e = h
        BY <1>1, <3>2, <4>6, <4>7, FdIsAlone
      <4>9. SameBirth(x, g)
        BY <3>2, <4>6, <4>8, <4>5, <3>5 DEF SameBirth, Slot, Inherits
      <4>10. Distinct(SettledFds(ev))
        BY <1>1, SettledDistinct DEF FdsComeFromLog
      <4> QED BY <4>1, <4>5, <4>9, <4>10 DEF Distinct
    <3> QED BY <1>5, <3>2, <3>3, <3>4, <3>5
  <2> QED BY <1>1, <1>2, <1>4, <2>1, <2>2, <2>3, OldOrNew
<1>9. UnclosedAreHeld'
  BY <1>4, <1>7 DEF UnclosedAreHeld
<1>10. HeldInTurnAreUnclosed'
  BY <1>4, <1>8 DEF HeldInTurnAreUnclosed
<1> QED BY <1>9, <1>10

LEMMA FdLifeSuffices == FdLifeInv => DescriptorsAgree
<1> SUFFICES ASSUME FdLifeInv, ~err, ~finalized, NEW i \in Births({"FD_OPEN"})
    PROVE  LET held   == \E e \in fds : e.sequence = i
               alike  == {k \in Births({"FD_OPEN"}) :
                            SamePid(i, k) /\ resources[k].fd = resources[i].fd}
               inTurn == /\ \A k, n \in alike : k < n => End(k) \in 1 .. n
                         /\ \A j \in Log : resources[j].child_pid # resources[i].pid
           IN  /\ End(i) = 0 => held \/ SweptAway(i)
               /\ held /\ inTurn => End(i) = 0
  BY DEF DescriptorsAgree
<1>1. TypeOK /\ FdsComeFromLog /\ UnclosedAreHeld /\ HeldInTurnAreUnclosed
  BY DEF FdLifeInv
<1>2. resources[i].kind = "FD_OPEN" /\ i \in Log
  BY DEF Births
<1>3. End(i) = 0 <=> ~FdEnded(i, Len(resources))
  BY <1>1, FdEndMeaning
<1> DEFINE alike == {k \in Births({"FD_OPEN"}) : SamePid(i, k) /\ resources[k].fd = resources[i].fd}
           turn == \A k, n \in alike : k < n => End(k) \in 1 .. n
           alone == \A j \in Log : resources[j].child_pid # resources[i].pid
<1>4. ASSUME turn, alone
      PROVE  FdsInTurn(resources[i].pid, resources[i].fd)
  <2>1. ASSUME NEW k \in Log, NEW n \in Log, Opens(k, resources[i].pid, resources[i].fd),
               Opens(n, resources[i].pid, resources[i].fd), k < n
        PROVE  FdEnded(k, n)
    <3>1. k \in Births({"FD_OPEN"}) /\ n \in Births({"FD_OPEN"})
      BY <2>1 DEF Births, IsBirth, Opens, IsFor
    <3>2. k \in alike /\ n \in alike
      BY <2>1, <3>1 DEF Opens, IsFor, SamePid
    <3>3. End(k) \in 1 .. n
      BY <1>4, <2>1, <3>2
    <3> QED BY <1>1, <3>1, <3>3, FdEndMeaning
  <2> QED BY <1>4, <2>1 DEF FdsInTurn
<1>5. End(i) = 0 => (\E e \in fds : e.sequence = i) \/ SweptAway(i)
  BY <1>1, <1>2, <1>3 DEF UnclosedAreHeld
<1>6. ASSUME NEW e \in fds, e.sequence = i, FdsInTurn(resources[i].pid, resources[i].fd)
      PROVE  End(i) = 0
  <2>1. resources[i].pid = e.pid /\ resources[i].fd = e.fd
    <3>1. Born(e)
      BY <1>1 DEF FdsComeFromLog
    <3> QED BY <1>2, <1>6, <3>1 DEF Born, Opens, IsFor
  <2> QED BY <1>1, <1>3, <1>6, <2>1 DEF HeldInTurnAreUnclosed
<1> QED BY <1>4, <1>5, <1>6

\* The list of lifetimes and the descriptor table tell one story: a descriptor
\* whose lifetime has no end is in the table or was closed by an exec that
\* crossed; and one in the table has no end, unless its number was opened again
\* while it was open or its process is the child of a fork
\* (lifetime_common.c:77-96, model.c:45-79, 286-330).
THEOREM DescriptorLifetimesAgree == Spec => []DescriptorsAgree
<1>1. Init => FdLifeInv
  <2>1. SUFFICES ASSUME Init PROVE FdLifeInv
    OBVIOUS
  <2>2. TypeOK /\ PendingIsOpenAttempt
    BY <2>1, ReplayAssumption, HeldInit DEF HeldInv
  <2>3. Log = {} /\ fds = {}
    BY <2>1 DEF Init, Log
  <2>4. FdsComeFromLog
    BY <2>3 DEF FdsComeFromLog, DuplicatesAreOpens, EntriesAreDistinct
  <2> QED BY <2>2, <2>3, <2>4 DEF FdLifeInv, UnclosedAreHeld, HeldInTurnAreUnclosed
<1>2. FdLifeInv /\ [Next]_vars => FdLifeInv'
  <2>1. SUFFICES ASSUME FdLifeInv, [Next]_vars PROVE FdLifeInv'
    OBVIOUS
  <2>2. TypeOK /\ TypeOK' /\ PendingIsOpenAttempt'
    BY <2>1, ReplayAssumption, TypeStep, PendingStep DEF FdLifeInv
  <2>3. FdsComeFromLog'
    <3>1. DuplicatesAreOpens' /\ EntriesAreDistinct' /\ \A x \in fds' : Born(x)'
      BY <2>1, ReplayAssumption, BornStep, DuplicatesStep, DistinctStep DEF FdLifeInv, FdsComeFromLog
    <3> QED BY <3>1 DEF FdsComeFromLog
  <2>4. CASE Next /\ ~err' /\ ~finalized'
    BY <2>1, <2>2, <2>3, <2>4, ReplayAssumption, FdLifeStep DEF FdLifeInv
  <2>5. CASE err' \/ finalized'
    BY <2>2, <2>3, <2>5 DEF FdLifeInv
  <2>6. CASE UNCHANGED vars
    <3>1. UNCHANGED <<resources, fds, err, finalized>>
      BY <2>6 DEF vars
    <3>2. \A i, n : FdEnded(i, n)' <=> FdEnded(i, n)
      BY <3>1 DEF FdEnded, Closes, IsFor
    <3>3. \A i : SweptAway(i)' <=> SweptAway(i)
      BY <3>1 DEF SweptAway, Execs, IsFor, Crossed, Log
    <3>4. \A p, d : FdsInTurn(p, d)' <=> FdsInTurn(p, d)
      BY <3>1, <3>2 DEF FdsInTurn, Opens, IsFor, Log
    <3>5. ~err /\ ~finalized => UnclosedAreHeld' /\ HeldInTurnAreUnclosed'
      BY <2>1, <3>1, <3>2, <3>3, <3>4 DEF FdLifeInv, UnclosedAreHeld, HeldInTurnAreUnclosed, Log
    <3> QED BY <2>2, <2>3, <3>1, <3>5 DEF FdLifeInv
  <2> QED BY <2>1, <2>4, <2>5, <2>6
<1>3. FdLifeInv => DescriptorsAgree
  BY FdLifeSuffices
<1> QED BY <1>1, <1>2, <1>3, PTL DEF Spec

-----------------------------------------------------------------------------
(* The renderings.                                                         *)

LEMMA ByInduction ==
    ASSUME NEW S, 0 \in S, \A n \in Nat : n \in S => n + 1 \in S
    PROVE  \A n \in Nat : n \in S
<1> DEFINE R == {n \in Nat : n \notin S}
<1>1. SUFFICES ASSUME R # {} PROVE FALSE
  OBVIOUS
<1>2. PICK n \in R : \A m \in R : n <= m
  BY <1>1, LeastExists
<1>3. n \in Nat /\ n # 0
  BY <1>2
<1>4. n - 1 \in Nat /\ n - 1 \notin R /\ (n - 1) + 1 = n
  BY <1>2, <1>3
<1> QED BY <1>2, <1>4

LifetimeRecord == [birth : Nat, death : Nat]

LEMMA LifetimeTyped ==
    ASSUME Len(resources) \in Nat, NEW n \in Nat
    PROVE  Lifetime(n) \in LifetimeRecord
BY EndIsNat DEF Lifetime, LifetimeRecord

\* The tests and the choices of the three loops come to the same.
LEMMA DeathsAgree ==
    ASSUME Len(resources) \in Nat, NEW n \in Nat
    PROVE  /\ TextDeath(n) = IF IsBirth(n) THEN End(n) ELSE NoLifetime
           /\ MermaidDeath(n) = IF IsBirth(n) THEN End(n) ELSE NoLifetime
           /\ End(n) # NoLifetime
<1>1. End(n) # NoLifetime
  BY EndIsNat DEF NoLifetime
<1>2. CASE IsBirth(n)
  BY <1>1, <1>2 DEF IsBirth, End, TextDeath, MermaidDeath
<1>3. CASE ~IsBirth(n)
  BY <1>1, <1>3 DEF IsBirth, End, TextDeath, MermaidDeath
<1> QED BY <1>1, <1>2, <1>3

\* So a round of the text and one of the diagram add what a round of the list adds.
LEMMA RoundsAdd ==
    ASSUME Len(resources) \in Nat, NEW n \in Nat, NEW text, NEW drawn
    PROVE  /\ Count(text, n) =
                 IF ~IsBirth(n) THEN text
                 ELSE [total |-> text.total + 1,
                       shown |-> IF Len(text.shown) >= TextLimit THEN text.shown
                                 ELSE Append(text.shown, Lifetime(n))]
           /\ Draw(drawn, n) =
                 IF IsBirth(n) /\ Len(drawn) < TextLimit THEN Append(drawn, Lifetime(n)) ELSE drawn
BY DeathsAgree DEF Count, Draw, Lifetime

LEMMA JsonMeaning ==
    ASSUME Len(resources) \in Nat
    PROVE  /\ JsonRows[0] = <<>>
           /\ \A n \in Nat : JsonRows[n + 1] = JsonRound(JsonRows[n], n + 1)
<1> DEFINE T == Seq(LifetimeRecord)
           step == [x \in Nat \X T |-> JsonRound(x[2], x[1])]
           goal(g) == [n \in Nat |-> IF n = 0 THEN <<>> ELSE JsonRound(g[n - 1], n)]
<1>1. \A rows \in T, n \in Nat : JsonRound(rows, n) \in T
  BY LifetimeTyped DEF JsonRound
<1>2. step \in [Nat \X T -> T]
  BY <1>1
<1>3. \A n \in Nat, rows \in T : step[<<n, rows>>] = JsonRound(rows, n)
  OBVIOUS
<1>4. <<>> \in T
  OBVIOUS
<1> HIDE DEF step, T
<1>5. PICK g : Iterates(T, <<>>, step, g)
  BY <1>2, <1>4, FunctionExists
<1>6. g \in [Nat -> T] /\ g[0] = <<>> /\ \A n \in Nat \ {0} : g[n] = step[<<n, g[n - 1]>>]
  BY <1>5 DEF Iterates
<1>7. ASSUME NEW n \in Nat \ {0} PROVE g[n] = JsonRound(g[n - 1], n)
  <2>1. n - 1 \in Nat /\ g[n - 1] \in T
    BY <1>6
  <2> QED BY <1>3, <1>6, <2>1
<1>8. g = goal(g)
  <2>1. \A n \in Nat : g[n] = IF n = 0 THEN <<>> ELSE JsonRound(g[n - 1], n)
    BY <1>6, <1>7
  <2> QED BY <1>6, <2>1
<1>9. JsonRows = CHOOSE f : f = goal(f)
  BY DEF JsonRows
<1>10. JsonRows = goal(JsonRows)
  BY <1>8, <1>9
<1> DEFINE f == JsonRows
<1>11. f = goal(f)
  BY <1>10
<1> HIDE DEF f
<1>12. f[0] = <<>> /\ \A n \in Nat \ {0} : f[n] = JsonRound(f[n - 1], n)
  BY <1>11
<1>13. ASSUME NEW n \in Nat PROVE f[n + 1] = JsonRound(f[n], n + 1)
  <2>1. n + 1 \in Nat \ {0} /\ (n + 1) - 1 = n
    OBVIOUS
  <2> QED BY <1>12, <2>1
<1> QED BY <1>12, <1>13 DEF f

LEMMA MermaidMeaning ==
    ASSUME Len(resources) \in Nat
    PROVE  /\ MermaidRows[0] = <<>>
           /\ \A n \in Nat : MermaidRows[n + 1] = Draw(MermaidRows[n], n + 1)
<1> DEFINE T == Seq(LifetimeRecord)
           step == [x \in Nat \X T |-> Draw(x[2], x[1])]
           goal(g) == [n \in Nat |-> IF n = 0 THEN <<>> ELSE Draw(g[n - 1], n)]
<1>1. ASSUME NEW rows \in T, NEW n \in Nat PROVE Draw(rows, n) \in T
  <2>1. Draw(rows, n) = IF IsBirth(n) /\ Len(rows) < TextLimit THEN Append(rows, Lifetime(n)) ELSE rows
    BY RoundsAdd
  <2> QED BY <2>1, LifetimeTyped
<1>2. step \in [Nat \X T -> T]
  BY <1>1
<1>3. \A n \in Nat, rows \in T : step[<<n, rows>>] = Draw(rows, n)
  OBVIOUS
<1>4. <<>> \in T
  OBVIOUS
<1> HIDE DEF step, T
<1>5. PICK g : Iterates(T, <<>>, step, g)
  BY <1>2, <1>4, FunctionExists
<1>6. g \in [Nat -> T] /\ g[0] = <<>> /\ \A n \in Nat \ {0} : g[n] = step[<<n, g[n - 1]>>]
  BY <1>5 DEF Iterates
<1>7. ASSUME NEW n \in Nat \ {0} PROVE g[n] = Draw(g[n - 1], n)
  <2>1. n - 1 \in Nat /\ g[n - 1] \in T
    BY <1>6
  <2> QED BY <1>3, <1>6, <2>1
<1>8. g = goal(g)
  <2>1. \A n \in Nat : g[n] = IF n = 0 THEN <<>> ELSE Draw(g[n - 1], n)
    BY <1>6, <1>7
  <2> QED BY <1>6, <2>1
<1>9. MermaidRows = CHOOSE f : f = goal(f)
  BY DEF MermaidRows
<1>10. MermaidRows = goal(MermaidRows)
  BY <1>8, <1>9
<1> DEFINE f == MermaidRows
<1>11. f = goal(f)
  BY <1>10
<1> HIDE DEF f
<1>12. f[0] = <<>> /\ \A n \in Nat \ {0} : f[n] = Draw(f[n - 1], n)
  BY <1>11
<1>13. ASSUME NEW n \in Nat PROVE f[n + 1] = Draw(f[n], n + 1)
  <2>1. n + 1 \in Nat \ {0} /\ (n + 1) - 1 = n
    OBVIOUS
  <2> QED BY <1>12, <2>1
<1> QED BY <1>12, <1>13 DEF f

NoReport == [total |-> 0, shown |-> <<>>]

LEMMA TextMeaning ==
    ASSUME Len(resources) \in Nat
    PROVE  /\ TextRows[0] = NoReport
           /\ \A n \in Nat : TextRows[n + 1] = Count(TextRows[n], n + 1)
<1> DEFINE T == [total : Nat, shown : Seq(LifetimeRecord)]
           step == [x \in Nat \X T |-> Count(x[2], x[1])]
           goal(g) == [n \in Nat |-> IF n = 0 THEN NoReport ELSE Count(g[n - 1], n)]
<1>1. ASSUME NEW report \in T, NEW n \in Nat PROVE Count(report, n) \in T
  <2>1. Count(report, n) =
          IF ~IsBirth(n) THEN report
          ELSE [total |-> report.total + 1,
                shown |-> IF Len(report.shown) >= TextLimit THEN report.shown
                          ELSE Append(report.shown, Lifetime(n))]
    BY RoundsAdd
  <2> QED BY <2>1, LifetimeTyped
<1>2. step \in [Nat \X T -> T]
  BY <1>1
<1>3. \A n \in Nat, report \in T : step[<<n, report>>] = Count(report, n)
  OBVIOUS
<1>4. NoReport \in T
  BY DEF NoReport
<1> HIDE DEF step, T
<1>5. PICK g : Iterates(T, NoReport, step, g)
  BY <1>2, <1>4, FunctionExists
<1>6. g \in [Nat -> T] /\ g[0] = NoReport /\ \A n \in Nat \ {0} : g[n] = step[<<n, g[n - 1]>>]
  BY <1>5 DEF Iterates
<1>7. ASSUME NEW n \in Nat \ {0} PROVE g[n] = Count(g[n - 1], n)
  <2>1. n - 1 \in Nat /\ g[n - 1] \in T
    BY <1>6
  <2> QED BY <1>3, <1>6, <2>1
<1>8. g = goal(g)
  <2>1. \A n \in Nat : g[n] = IF n = 0 THEN NoReport ELSE Count(g[n - 1], n)
    BY <1>6, <1>7
  <2> QED BY <1>6, <2>1
<1>9. TextRows = CHOOSE f : f = goal(f)
  BY DEF TextRows, NoReport
<1>10. TextRows = goal(TextRows)
  BY <1>8, <1>9
<1> DEFINE f == TextRows
<1>11. f = goal(f)
  BY <1>10
<1> HIDE DEF f
<1>12. f[0] = NoReport /\ \A n \in Nat \ {0} : f[n] = Count(f[n - 1], n)
  BY <1>11
<1>13. ASSUME NEW n \in Nat PROVE f[n + 1] = Count(f[n], n + 1)
  <2>1. n + 1 \in Nat \ {0} /\ (n + 1) - 1 = n
    OBVIOUS
  <2> QED BY <1>12, <2>1
<1> QED BY <1>12, <1>13 DEF f

\* What the three loops have after a round, together.
InStep(text, json, drawn) ==
    /\ json \in Seq(LifetimeRecord) /\ text.shown \in Seq(LifetimeRecord)
    /\ text.total = Len(json)
    /\ Len(text.shown) = IF Len(json) < TextLimit THEN Len(json) ELSE TextLimit
    /\ \A k \in 1 .. Len(text.shown) : text.shown[k] = json[k]
    /\ drawn = text.shown

LEMMA RoundsInStep ==
    ASSUME TextLimit \in Nat, Len(resources) \in Nat,
           NEW text, NEW json, NEW drawn, InStep(text, json, drawn),
           NEW n \in Nat, Lifetime(n) \in LifetimeRecord
    PROVE  InStep(Count(text, n), JsonRound(json, n), Draw(drawn, n))
<1>0. /\ Count(text, n) =
           IF ~IsBirth(n) THEN text
           ELSE [total |-> text.total + 1,
                 shown |-> IF Len(text.shown) >= TextLimit THEN text.shown
                           ELSE Append(text.shown, Lifetime(n))]
      /\ Draw(drawn, n) =
           IF IsBirth(n) /\ Len(drawn) < TextLimit THEN Append(drawn, Lifetime(n)) ELSE drawn
  BY RoundsAdd
<1>1. CASE ~IsBirth(n)
  <2>1. Count(text, n) = text /\ JsonRound(json, n) = json /\ Draw(drawn, n) = drawn
    BY <1>0, <1>1 DEF JsonRound
  <2> QED BY <2>1
<1>2. CASE IsBirth(n)
  <2> DEFINE life == Lifetime(n)
             rows == Append(json, life)
  <2>0. life \in LifetimeRecord
    OBVIOUS
  <2> HIDE DEF life
  <2>1. JsonRound(json, n) = rows
    BY <1>2 DEF JsonRound, life
  <2>2. /\ rows \in Seq(LifetimeRecord) /\ Len(rows) = Len(json) + 1
        /\ \A k \in 1 .. Len(json) : rows[k] = json[k]
        /\ rows[Len(json) + 1] = life /\ Len(json) \in Nat
    BY <2>0 DEF InStep
  <2>3. CASE Len(text.shown) >= TextLimit
    <3>1. /\ Count(text, n).total = text.total + 1 /\ Count(text, n).shown = text.shown
          /\ Draw(drawn, n) = drawn
      BY <1>0, <1>2, <2>3 DEF InStep
    <3>2. Len(text.shown) = TextLimit /\ Len(json) >= TextLimit
      BY <2>2, <2>3 DEF InStep
    <3> HIDE DEF rows
    <3>3. \A k \in 1 .. Len(text.shown) : text.shown[k] = rows[k]
      BY <2>2, <3>2 DEF InStep
    <3>4. Len(text.shown) = IF Len(rows) < TextLimit THEN Len(rows) ELSE TextLimit
      BY <2>2, <3>2
    <3> QED BY <2>1, <2>2, <3>1, <3>3, <3>4 DEF InStep
  <2>4. CASE Len(text.shown) < TextLimit
    <3> DEFINE more == Append(text.shown, life)
    <3>1. /\ Count(text, n).total = text.total + 1 /\ Count(text, n).shown = more
          /\ Draw(drawn, n) = more
      BY <1>0, <1>2, <2>4 DEF InStep, life
    <3>2. Len(text.shown) = Len(json) /\ Len(json) < TextLimit
      BY <2>2, <2>4 DEF InStep
    <3>3. /\ more \in Seq(LifetimeRecord) /\ Len(more) = Len(json) + 1
          /\ \A k \in 1 .. Len(json) : more[k] = text.shown[k]
          /\ more[Len(json) + 1] = life
      BY <2>0, <3>2 DEF InStep
    <3> HIDE DEF rows, more
    <3>4. \A k \in 1 .. Len(more) : more[k] = rows[k]
      <4>1. \A k \in 1 .. Len(json) : more[k] = rows[k]
        BY <2>2, <3>2, <3>3 DEF InStep
      <4> QED BY <2>2, <3>3, <4>1
    <3>5. Len(more) = IF Len(rows) < TextLimit THEN Len(rows) ELSE TextLimit
      BY <2>2, <3>2, <3>3
    <3> QED BY <2>1, <2>2, <3>1, <3>3, <3>4, <3>5 DEF InStep
  <2>5. Len(text.shown) >= TextLimit \/ Len(text.shown) < TextLimit
    BY DEF InStep
  <2> QED BY <2>3, <2>4, <2>5
<1> QED BY <1>1, <1>2

LEMMA RenderingsFollow ==
    ASSUME TypeOK, TextLimit \in Nat
    PROVE  RenderingsAgree
<1>1. Len(resources) \in Nat
  BY DEF TypeOK
<1> DEFINE S == {n \in Nat : InStep(TextRows[n], JsonRows[n], MermaidRows[n])}
<1>2. 0 \in S
  <2>1. TextRows[0] = NoReport /\ JsonRows[0] = <<>> /\ MermaidRows[0] = <<>>
    BY <1>1, TextMeaning, JsonMeaning, MermaidMeaning
  <2>2. NoReport.total = 0 /\ NoReport.shown = <<>>
    BY DEF NoReport
  <2>3. <<>> \in Seq(LifetimeRecord) /\ Len(<<>>) = 0
    OBVIOUS
  <2>4. InStep(NoReport, <<>>, <<>>)
    BY <2>2, <2>3 DEF InStep
  <2> QED BY <2>1, <2>4
<1>3. ASSUME NEW n \in Nat, n \in S PROVE n + 1 \in S
  <2>1. Lifetime(n + 1) \in LifetimeRecord
    BY <1>1, LifetimeTyped
  <2>2. /\ TextRows[n + 1] = Count(TextRows[n], n + 1)
        /\ JsonRows[n + 1] = JsonRound(JsonRows[n], n + 1)
        /\ MermaidRows[n + 1] = Draw(MermaidRows[n], n + 1)
    BY <1>1, TextMeaning, JsonMeaning, MermaidMeaning
  <2>3. InStep(TextRows[n], JsonRows[n], MermaidRows[n])
    BY <1>3
  <2>4. InStep(Count(TextRows[n], n + 1), JsonRound(JsonRows[n], n + 1), Draw(MermaidRows[n], n + 1))
    BY <1>1, <2>1, <2>3, RoundsInStep
  <2> QED BY <2>2, <2>4
<1>4. InStep(TextLifetimes, JsonLifetimes, MermaidLifetimes)
  <2>1. Len(resources) \in S
    <3> HIDE DEF S
    <3> QED BY <1>1, <1>2, <1>3, ByInduction
  <2> QED BY <2>1 DEF TextLifetimes, JsonLifetimes, MermaidLifetimes
<1> DEFINE json == JsonLifetimes
           text == TextLifetimes
<1>5. InStep(text, json, MermaidLifetimes)
  BY <1>4
<1> HIDE DEF json, text
<1>6. Len(text.shown) \in Nat /\ Len(json) \in Nat /\ Len(text.shown) <= Len(json)
  BY <1>5 DEF InStep
<1>7. text.shown = SubSeq(json, 1, Len(text.shown))
  BY <1>5, <1>6 DEF InStep
<1>8. Len(text.shown) < text.total => Len(text.shown) = TextLimit
  BY <1>5, <1>6 DEF InStep
<1>9. text.total = Len(json) /\ MermaidLifetimes = text.shown
  BY <1>5 DEF InStep
<1> QED BY <1>7, <1>8, <1>9 DEF RenderingsAgree, json, text

\* The text and the diagram show the beginning of what the JSON report lists, they
\* show the same, and the text says how much it leaves out
\* (lifetime.c:119-249, 251-276, lifetime_mermaid.c:8-78).
THEOREM RenderingsShowTheSame == Spec => []RenderingsAgree
<1>1. TypeOK => RenderingsAgree
  <2>1. TextLimit \in Nat
    BY LifetimesAssumption DEF LifetimesAssumption
  <2> QED BY <2>1, RenderingsFollow
<1> QED BY <1>1, TypeCorrect, PTL

-----------------------------------------------------------------------------
(* The traced run: what the report says of it is true.                     *)
(*                                                                         *)
(* The invariant relates the state of each process to the tables while     *)
(* attempts and forks are half logged: which entries a sweep may take      *)
(* (Secure), which a FORK record still has to bring (ToCome), and which    *)
(* findings the EXEC_FAIL of an open attempt would take back (Attempted).  *)

RunTyped ==
    /\ TypeOK
    /\ world \in World
    /\ alive \subseteq Pid
    /\ open \in [Pid -> SUBSET Fd] /\ keep \in [Pid -> SUBSET Fd] /\ todo \in [Pid -> SUBSET Fd]
    /\ call \in [Pid -> Call \cup {Null}]
    /\ snapshots \in [Pid -> SUBSET (Fd \X Nat)]
    /\ unannounced \subseteq Pid \X Pid
    /\ fresh \subseteq Pid /\ crossed \subseteq Nat

\* What the processes can be in the middle of.
Processes ==
    /\ \A x \in Pid : keep[x] \subseteq open[x] /\ todo[x] \subseteq open[x]
    /\ \A x \in Pid : open[x] # {} \/ InAttempt(x) => x \in alive
    /\ \A x \in Pid : ~InAttempt(x) => todo[x] = {} /\ snapshots[x] = {}
    /\ \A v \in unannounced : ~InAttempt(v[1]) /\ v[1] \in alive
    /\ ~world.late_fork => unannounced = {}
    /\ ~world.reexec => \A x \in fresh : ~InAttempt(x)
    /\ ~world.interleave => \A x, y \in Pid : InAttempt(x) /\ InAttempt(y) => x = y

RunInv == RunTyped /\ Processes

-----------------------------------------------------------------------------
(* A step of the run is a step of the replay.                              *)

LEMMA WorldTyped ==
    ASSUME world \in World
    PROVE  /\ world.interleave \in BOOLEAN /\ world.reexec \in BOOLEAN
           /\ world.late_fork \in BOOLEAN /\ world.nested \in BOOLEAN
           /\ world.exiting \in BOOLEAN /\ world.threads \in BOOLEAN
           /\ world.fds \subseteq Fd /\ world.targets \subseteq Target
BY DEF World

LEMMA RunIsReplay ==
    ASSUME RunNext
    PROVE  [Next]_vars
<1>1. PICK x \in Pid : Runs(x)
  BY DEF RunNext
<1>2. \A ev \in Inputs : Ingest(ev) => Next
  BY DEF Next
<1>3. ASSUME NEW fd, NEW survives, OpensFd(x, fd, survives)
      PROVE  Next
  BY <1>2, <1>3 DEF OpensFd, Ingest
<1>4. ASSUME NEW fd, ClosesFd(x, fd)
      PROVE  Next
  BY <1>2, <1>4 DEF ClosesFd, Ingest
<1>5. ASSUME NEW fd, LogsSnapshot(x, fd)
      PROVE  Next
  BY <1>2, <1>5 DEF LogsSnapshot, Ingest
<1>6. ASSUME NEW child, Forks(x, child)
      PROVE  [Next]_vars
  BY <1>2, <1>6 DEF Forks, Ingest
<1>7. ASSUME NEW child, LogsFork(x, child)
      PROVE  Next
  BY <1>2, <1>7 DEF LogsFork, Ingest
<1>8. ASSUME ExecReturns(x)
      PROVE  Next
  BY <1>2, <1>8 DEF ExecReturns, Ingest
<1>9. ASSUME ExecSucceeds(x) \/ Exits(x) \/ \E g \in world.targets : StartsExec(x, g)
      PROVE  UNCHANGED vars
  BY <1>9 DEF ExecSucceeds, Exits, StartsExec
<1> QED BY <1>1, <1>3, <1>4, <1>5, <1>6, <1>7, <1>8, <1>9 DEF Runs

-----------------------------------------------------------------------------
(* What the steps of the processes do to their state.                      *)

LEMMA OpensTyped ==
    ASSUME RunInv, NEW x \in Pid, NEW fd \in Fd, NEW survives, OpensFd(x, fd, survives),
           TypeOK', world' = world
    PROVE  RunInv'
<1>1. RunTyped'
  BY DEF RunInv, RunTyped, OpensFd, UserLogs, Notices
<1>2. Processes'
  <2>1. \A y \in Pid : InAttempt(y)' = InAttempt(y)
    BY DEF OpensFd, UserLogs, InAttempt
  <2>2. \A y \in Pid : /\ keep'[y] \subseteq open'[y] /\ todo'[y] \subseteq open'[y]
                       /\ open'[y] # {} \/ InAttempt(y) => y \in alive'
                       /\ ~InAttempt(y) => todo'[y] = {} /\ snapshots'[y] = {}
    BY DEF RunInv, RunTyped, Processes, OpensFd, UserLogs, UserRuns, Free, Notices
  <2> QED BY <2>1, <2>2 DEF RunInv, RunTyped, Processes, OpensFd, UserLogs
<1> QED BY <1>1, <1>2 DEF RunInv

LEMMA ClosesTyped ==
    ASSUME RunInv, NEW x \in Pid, NEW fd \in Fd, ClosesFd(x, fd), TypeOK', world' = world
    PROVE  RunInv'
<1>1. RunTyped'
  BY DEF RunInv, RunTyped, ClosesFd, UserLogs
<1>2. Processes'
  <2>1. \A y \in Pid : InAttempt(y)' = InAttempt(y)
    BY DEF ClosesFd, UserLogs, InAttempt
  <2>2. \A y \in Pid : /\ keep'[y] \subseteq open'[y] /\ todo'[y] \subseteq open'[y]
                       /\ open'[y] # {} \/ InAttempt(y) => y \in alive'
                       /\ ~InAttempt(y) => todo'[y] = {} /\ snapshots'[y] = {}
    BY DEF RunInv, RunTyped, Processes, ClosesFd, UserLogs
  <2> QED BY <2>1, <2>2 DEF RunInv, RunTyped, Processes, ClosesFd, UserLogs
<1> QED BY <1>1, <1>2 DEF RunInv

\* Whether the FORK record is logged at once or later.
LEMMA ForksState ==
    ASSUME NEW x \in Pid, NEW child \in Pid, Forks(x, child)
    PROVE  /\ Free(x) /\ child \notin alive /\ alive' = alive \cup {child}
           /\ open' = [open EXCEPT ![child] = open[x]]
           /\ keep' = [keep EXCEPT ![child] = keep[x]]
           /\ UNCHANGED <<call, todo, snapshots, crossed>>
           /\ \/ unannounced' = unannounced \cup {<<x, child>>} /\ world.late_fork /\ fresh' = fresh
              \/ unannounced' = unannounced /\ fresh' = fresh \ {x}
BY DEF Forks

LEMMA ForksTyped ==
    ASSUME RunInv, NEW x \in Pid, NEW child \in Pid, Forks(x, child), TypeOK', world' = world
    PROVE  RunInv'
<1>1. RunTyped'
  <2>1. open' \in [Pid -> SUBSET Fd] /\ keep' \in [Pid -> SUBSET Fd] /\ alive' \subseteq Pid
    BY ForksState DEF RunInv, RunTyped
  <2>2. unannounced' \subseteq Pid \X Pid /\ fresh' \subseteq Pid
    BY ForksState DEF RunInv, RunTyped
  <2>3. UNCHANGED <<call, todo, snapshots, crossed>>
    BY ForksState
  <2> QED BY <2>1, <2>2, <2>3 DEF RunInv, RunTyped
<1>2. Processes'
  <2>1. \A y \in Pid : InAttempt(y)' = InAttempt(y)
    BY ForksState DEF InAttempt
  <2>2. ~InAttempt(x) /\ x \in alive
    BY ForksState DEF Free
  <2>3. \A y \in Pid : /\ keep'[y] \subseteq open'[y] /\ todo'[y] \subseteq open'[y]
                       /\ open'[y] # {} \/ InAttempt(y) => y \in alive'
                       /\ ~InAttempt(y) => todo'[y] = {} /\ snapshots'[y] = {}
    BY ForksState DEF RunInv, RunTyped, Processes
  <2>4. \A v \in unannounced' : ~InAttempt(v[1]) /\ v[1] \in alive' /\ v[1] \in Pid
    BY <2>2, ForksState DEF RunInv, RunTyped, Processes
  <2>5. ~world.late_fork => unannounced' = {}
    BY ForksState DEF RunInv, Processes
  <2>6. ~world.reexec => \A y \in fresh' : ~InAttempt(y) /\ y \in Pid
    BY ForksState DEF RunInv, RunTyped, Processes
  <2>7. ~world.interleave => \A y, z \in Pid : InAttempt(y) /\ InAttempt(z) => y = z
    BY DEF RunInv, Processes
  <2> QED BY <2>1, <2>3, <2>4, <2>5, <2>6, <2>7 DEF Processes
<1> QED BY <1>1, <1>2 DEF RunInv

LEMMA LogsForkTyped ==
    ASSUME RunInv, NEW x \in Pid, NEW child \in Pid, LogsFork(x, child), TypeOK', world' = world
    PROVE  RunInv'
<1>1. RunTyped'
  BY DEF RunInv, RunTyped, LogsFork
<1>2. Processes'
  BY DEF RunInv, Processes, LogsFork, InAttempt
<1> QED BY <1>1, <1>2 DEF RunInv

LEMMA StartsTyped ==
    ASSUME RunAssumption, RunInv, NEW x \in Pid, NEW g \in world.targets, StartsExec(x, g),
           TypeOK', world' = world
    PROVE  RunInv'
<1>1. PICK site \in Site : call' = [call EXCEPT ![x] = [target |-> g, site |-> site]]
  BY DEF StartsExec
<1>2. [target |-> g, site |-> site] \in Call /\ [target |-> g, site |-> site] # Null
  BY WorldTyped DEF RunInv, RunTyped, Call, RunAssumption
<1>3. /\ \A y \in Pid : call'[y] = IF y = x THEN [target |-> g, site |-> site] ELSE call[y]
      /\ call' \in [Pid -> Call \cup {Null}]
  BY <1>1, <1>2 DEF RunInv, RunTyped
<1>4. RunTyped'
  BY <1>3 DEF RunInv, RunTyped, StartsExec
<1>5. \A y \in Pid : InAttempt(y)' <=> InAttempt(y) \/ y = x
  BY <1>2, <1>3 DEF InAttempt
<1>6. Processes'
  <2>1. \A y \in Pid : /\ keep'[y] \subseteq open'[y] /\ todo'[y] \subseteq open'[y]
                       /\ open'[y] # {} \/ InAttempt(y)' => y \in alive'
                       /\ ~InAttempt(y)' => todo'[y] = {} /\ snapshots'[y] = {}
    BY <1>5 DEF RunInv, RunTyped, Processes, StartsExec, Free
  <2>2. \A v \in unannounced' : v[1] \in Pid /\ ~InAttempt(v[1])' /\ v[1] \in alive'
    <3> SUFFICES ASSUME NEW v \in unannounced PROVE v[1] \in Pid /\ ~InAttempt(v[1])' /\ v[1] \in alive
      BY DEF StartsExec
    <3>1. v \in Pid \X Pid /\ v = <<v[1], v[2]>> /\ v[1] # x
      BY DEF RunInv, RunTyped, StartsExec, Free
    <3> QED BY <1>5, <3>1 DEF RunInv, Processes
  <2>3. ~world.reexec => \A y \in fresh' : y \in Pid /\ ~InAttempt(y)'
    BY <1>5 DEF RunInv, RunTyped, Processes, StartsExec
  <2>4. ~world.interleave => \A y, z \in Pid : InAttempt(y)' /\ InAttempt(z)' => y = z
    BY <1>5 DEF RunInv, Processes, StartsExec, MayLog
  <2> QED BY <2>1, <2>2, <2>3, <2>4 DEF Processes, RunInv, StartsExec
<1> QED BY <1>4, <1>6 DEF RunInv

LEMMA SnapshotTyped ==
    ASSUME RunInv, NEW x \in Pid, NEW fd \in Fd, LogsSnapshot(x, fd), TypeOK', world' = world
    PROVE  RunInv'
<1>1. Sequence \in Nat
  BY DEF RunInv, RunTyped, TypeOK, Sequence
<1>2. RunTyped'
  BY <1>1 DEF RunInv, RunTyped, LogsSnapshot
<1>3. Processes'
  <2>1. \A y \in Pid : InAttempt(y)' = InAttempt(y)
    BY DEF LogsSnapshot, InAttempt
  <2>2. \A y \in Pid : /\ keep'[y] \subseteq open'[y] /\ todo'[y] \subseteq open'[y]
                       /\ open'[y] # {} \/ InAttempt(y) => y \in alive'
                       /\ ~InAttempt(y) => todo'[y] = {} /\ snapshots'[y] = {}
    BY DEF RunInv, RunTyped, Processes, LogsSnapshot
  <2> QED BY <2>1, <2>2 DEF RunInv, RunTyped, Processes, LogsSnapshot
<1> QED BY <1>2, <1>3 DEF RunInv

\* ExecSucceeds and ExecReturns end the attempt in the same way.
LEMMA EndsTyped ==
    ASSUME RunInv, NEW x \in Pid, EndsAttempt(x), TypeOK', world' = world,
           \/ open' = [open EXCEPT ![x] = keep[x]] /\ fresh' = fresh \cup {x}
           \/ open' = open /\ fresh' = fresh \ {x},
           keep' = keep, crossed' \subseteq Nat
    PROVE  RunInv'
<1>1. RunTyped'
  BY DEF RunInv, RunTyped, EndsAttempt
<1>2. \A y \in Pid : InAttempt(y)' <=> InAttempt(y) /\ y # x
  BY DEF EndsAttempt, InAttempt, RunInv, RunTyped
<1>3. \A y \in Pid : /\ keep'[y] \subseteq open'[y] /\ todo'[y] \subseteq open'[y]
                     /\ open'[y] # {} \/ InAttempt(y)' => y \in alive'
                     /\ ~InAttempt(y)' => todo'[y] = {} /\ snapshots'[y] = {}
  BY <1>2 DEF RunInv, RunTyped, Processes, EndsAttempt
<1>4. \A v \in unannounced' : v[1] \in Pid /\ ~InAttempt(v[1])' /\ v[1] \in alive'
  BY <1>2 DEF RunInv, RunTyped, Processes, EndsAttempt
<1>5. ~world.reexec => \A y \in fresh' : y \in Pid /\ ~InAttempt(y)'
  BY <1>2 DEF RunInv, RunTyped, Processes
<1>6. ~world.interleave => \A y, z \in Pid : InAttempt(y)' /\ InAttempt(z)' => y = z
  BY <1>2 DEF RunInv, Processes
<1> QED BY <1>1, <1>3, <1>4, <1>5, <1>6 DEF RunInv, Processes, EndsAttempt

LEMMA ExitsTyped ==
    ASSUME RunInv, NEW x \in Pid, Exits(x), TypeOK', world' = world
    PROVE  RunInv'
<1>1. RunTyped'
  BY DEF RunInv, RunTyped, Exits
<1>2. \A y \in Pid : InAttempt(y)' = InAttempt(y)
  BY DEF Exits, InAttempt
<1>3. \A y \in Pid : /\ keep'[y] \subseteq open'[y] /\ todo'[y] \subseteq open'[y]
                     /\ open'[y] # {} \/ InAttempt(y) => y \in alive'
                     /\ ~InAttempt(y) => todo'[y] = {} /\ snapshots'[y] = {}
  BY DEF RunInv, RunTyped, Processes, Exits, Free
<1>4. \A v \in unannounced : v[1] \in Pid /\ v[1] # x /\ ~InAttempt(v[1]) /\ v[1] \in alive
  <2> SUFFICES ASSUME NEW v \in unannounced
               PROVE  v[1] \in Pid /\ v[1] # x /\ ~InAttempt(v[1]) /\ v[1] \in alive
    OBVIOUS
  <2>1. v \in Pid \X Pid /\ v = <<v[1], v[2]>> /\ v[1] # x
    BY DEF RunInv, RunTyped, Exits, Free
  <2> QED BY <2>1 DEF RunInv, Processes
<1> QED BY <1>1, <1>2, <1>3, <1>4 DEF RunInv, RunTyped, Processes, Exits

LEMMA RunInvStep ==
    ASSUME ReplayAssumption, RunAssumption, RunInv, [RunNext]_runVars
    PROVE  RunInv'
<1>1. CASE UNCHANGED runVars
  <2>1. UNCHANGED vars
    BY <1>1 DEF runVars
  <2>2. TypeOK'
    BY <2>1, TypeStep DEF RunInv, RunTyped
  <2>3. RunTyped'
    BY <1>1, <2>2 DEF RunInv, RunTyped, runVars, procs
  <2> QED BY <1>1, <2>3 DEF RunInv, Processes, InAttempt, runVars, procs
<1>2. CASE RunNext
  <2>1. PICK x \in Pid : Runs(x)
    BY <1>2 DEF RunNext
  <2>2. TypeOK' /\ world' = world
    BY <1>2, RunIsReplay, TypeStep DEF RunInv, RunTyped, RunNext
  <2>3. world.fds \subseteq Fd
    BY WorldTyped DEF RunInv, RunTyped
  <2>4. ASSUME ExecSucceeds(x) PROVE RunInv'
    <3>1. crossed' \subseteq Nat
      <4> DEFINE S == {n[2] : n \in {m \in snapshots[x] : m[1] \in keep[x]}}
      <4>1. crossed' = crossed \cup S
        BY <2>4 DEF ExecSucceeds
      <4>2. \A n \in snapshots[x] : n \in Fd \X Nat
        BY DEF RunInv, RunTyped
      <4>3. \A n \in snapshots[x] : n[2] \in Nat
        BY <4>2
      <4>4. S \subseteq Nat
        BY <4>3
      <4> HIDE DEF S
      <4> QED BY <4>1, <4>4 DEF RunInv, RunTyped
    <3> QED BY <2>2, <2>4, <3>1, EndsTyped DEF ExecSucceeds
  <2>5. ASSUME ExecReturns(x) PROVE RunInv'
    BY <2>2, <2>5, EndsTyped DEF ExecReturns, RunInv, RunTyped
  <2> QED BY <2>1, <2>2, <2>3, <2>4, <2>5, OpensTyped, ClosesTyped, ForksTyped, LogsForkTyped,
             StartsTyped, SnapshotTyped, ExitsTyped DEF Runs
<1> QED BY <1>1, <1>2

LEMMA RunInvInit ==
    ASSUME ReplayAssumption, RunAssumption, RunInit
    PROVE  RunInv
<1>1. TypeOK
  <2>1. Init => resources \in Seq(Inputs) /\ Len(resources) <= MaxRecords
    BY DEF Init, ReplayAssumption
  <2> QED BY <2>1 DEF RunInit, Init, TypeOK
<1>2. world \in World /\ alive \subseteq Pid
  BY DEF RunInit, RunAssumption
<1>3. RunTyped
  BY <1>1, <1>2 DEF RunInit, RunTyped
<1>4. Processes
  BY DEF RunInit, Processes, InAttempt
<1> QED BY <1>3, <1>4 DEF RunInv

-----------------------------------------------------------------------------
(* The log and the findings.                                               *)

\* A step of the run that logs stores one record while the replay goes well.
Logs(ev) == Appends(ev) /\ ~err /\ UNCHANGED finalized

LEMMA RecordLogs ==
    ASSUME NEW ev \in Inputs,
           \/ FdOpen(ev) \/ FdClose(ev) \/ FdCloseStray(ev) \/ Fork(ev)
           \/ Exec(ev) \/ ExecUnknown(ev) \/ ExecFail(ev)
    PROVE  Logs(ev)
BY DEF Logs, Appends, Stored, Reading, FdOpen, FdClose, FdCloseStray, Fork, Exec, ExecUnknown, ExecFail

\* The records of a process outside an exec leave the findings alone.
LEMMA FindingsAlone ==
    ASSUME NEW ev,
           FdOpen(ev) \/ FdClose(ev) \/ FdCloseStray(ev) \/ Fork(ev) \/ ExecUnknown(ev)
    PROVE  findings' = findings
BY DEF FdOpen, FdClose, FdCloseStray, Fork, ExecUnknown

LEMMA SnapshotFinds ==
    ASSUME NEW ev, Exec(ev)
    PROVE  /\ \A f \in findings' :
                f \in findings \/ (~ev.cloexec /\ \E e \in fds : f = InheritFinding(ev, e))
           /\ findings \subseteq findings'
           /\ ~err' /\ ~ev.cloexec => \E e \in fds : InheritFinding(ev, e) \in findings'
<1>1. ev.kind = "EXEC" /\ SettledFds(ev) = fds
  <2>1. ev.kind = "EXEC"
    BY DEF Exec
  <2> QED BY <2>1 DEF SettledFds, SweptFds, Settling
<1>2. PICK adopted \in Outcomes, grows \in Outcomes, e \in Entries(fds, ev.pid, ev.fd) :
        IF ~ExecInherits(ev.cloexec)
          THEN findings' = findings /\ err' = ~adopted
          ELSE /\ err' = ~(adopted /\ grows)
               /\ findings' = findings \cup
                    IF adopted /\ grows THEN {InheritFinding(ev, e)} ELSE {}
  BY <1>1 DEF Exec
<1> QED BY <1>2 DEF Entries, ExecInherits

-----------------------------------------------------------------------------
(* Nothing false is reported.                                              *)

\* The finding of a snapshot of an attempt that is still open, and all the process
\* has logged since are snapshots of that attempt.
Attempted(f) ==
    /\ f.pid \in Pid /\ InAttempt(f.pid)
    /\ <<f.fd, f.sequence>> \in snapshots[f.pid] /\ f.fd \in keep[f.pid]
    /\ f.target = call[f.pid].target
    /\ \A i \in Log : i >= f.sequence =>
         /\ resources[i].kind = "EXEC" /\ resources[i].pid = f.pid
         /\ resources[i].target = call[f.pid].target /\ resources[i].site = call[f.pid].site

NoneFalse ==
    ~world.interleave /\ ~world.threads =>
      \A f \in InheritFindings : f.sequence \in crossed \/ Attempted(f)

Torn == world.interleave \/ world.threads

\* With nobody in an attempt, every finding is of one that crossed.
LEMMA NoneFalseAtRest ==
    ASSUME NoneFalse, ~Torn, \A y \in Pid : ~InAttempt(y),
           world' = world, InheritFindings' \subseteq InheritFindings, crossed' = crossed
    PROVE  NoneFalse'
BY DEF NoneFalse, Torn, Attempted

LEMMA NoneFalseLogging ==
    ASSUME RunInv, NoneFalse, ~Torn, NEW x \in Pid, MayLog(x), ~InAttempt(x),
           world' = world, crossed' = crossed, findings' = findings
    PROVE  NoneFalse'
<1>1. \A y \in Pid : ~InAttempt(y)
  BY DEF MayLog, Torn
<1> QED BY <1>1, NoneFalseAtRest DEF InheritFindings

LEMMA NoneFalseSnapshot ==
    ASSUME RunInv, NoneFalse, ~Torn, NEW x \in Pid, NEW fd \in Fd, LogsSnapshot(x, fd),
           world' = world
    PROVE  NoneFalse'
<1>1. /\ InAttempt(x) /\ \A y \in Pid : InAttempt(y) => y = x
      /\ UNCHANGED <<keep, call, crossed>>
      /\ snapshots' = [snapshots EXCEPT ![x] = @ \cup {<<fd, Sequence>>}]
  BY DEF LogsSnapshot, RunInv, Processes, Torn
<1>2. PICK ev \in Inputs :
        /\ ev.pid = x /\ ev.fd = fd /\ ev.target = call[x].target /\ ev.site = call[x].site
        /\ ev.cloexec = (fd \notin keep[x])
        /\ Exec(ev) \/ ExecUnknown(ev)
  BY DEF LogsSnapshot
<1>3. ev.kind = "EXEC" /\ Logs(ev)
  BY <1>2, RecordLogs DEF Exec, ExecUnknown
<1>4. /\ Log' = Log \cup {Sequence} /\ resources'[Sequence] = ev /\ Sequence \in Nat
      /\ \A i \in Log : resources'[i] = resources[i] /\ i < Sequence
  <2>1. resources \in Seq(Inputs) /\ Len(resources) \in Nat
    BY DEF RunInv, RunTyped, TypeOK
  <2>2. /\ Log' = Log \cup {Sequence} /\ resources'[Sequence] = ev
        /\ \A i \in Log : resources'[i] = resources[i]
    <3>1. Appends(ev)
      BY <1>3 DEF Logs
    <3>2. /\ \A i \in Log : resources'[i] = resources[i]
          /\ resources'[Sequence] = ev
          /\ \A i \in Log' : i \in Log \/ i = Sequence
          /\ Log \subseteq Log' /\ Sequence \in Log'
      BY <2>1, <3>1, AppendedLog DEF Sequence
    <3> QED BY <3>2
  <2>3. Sequence \in Nat /\ \A i \in Log : i < Sequence
    BY <2>1 DEF Log, Sequence
  <2> QED BY <2>2, <2>3
<1>5. /\ snapshots'[x] = snapshots[x] \cup {<<fd, Sequence>>}
      /\ InAttempt(x)' /\ keep'[x] = keep[x] /\ call'[x] = call[x]
  BY <1>1 DEF RunInv, RunTyped, InAttempt
<1>6. ASSUME NEW f \in InheritFindings, Attempted(f)
      PROVE  Attempted(f)'
  <2>1. f.pid = x
    BY <1>1, <1>6 DEF Attempted
  <2> QED BY <1>2, <1>3, <1>4, <1>5, <1>6, <2>1 DEF Attempted
<1>7. ASSUME NEW f, ~ev.cloexec, NEW e \in fds, f = InheritFinding(ev, e)
      PROVE  Attempted(f)'
  <2>1. f.pid = x /\ f.fd = fd /\ f.target = ev.target /\ f.sequence = Sequence
    BY <1>2, <1>7 DEF InheritFinding
  <2>2. \A i \in Log' : i >= Sequence => i = Sequence
    BY <1>4 DEF Log, RunInv, RunTyped, TypeOK
  <2> QED BY <1>2, <1>3, <1>4, <1>5, <1>7, <2>1, <2>2 DEF Attempted
<1>8. \A f \in findings' :
        f \in findings \/ (~ev.cloexec /\ \E e \in fds : f = InheritFinding(ev, e))
  BY <1>2, SnapshotFinds, FindingsAlone
<1> QED BY <1>1, <1>6, <1>7, <1>8 DEF NoneFalse, Torn, InheritFindings

LEMMA NoneFalseSucceeds ==
    ASSUME RunInv, NoneFalse, ~Torn, NEW x \in Pid, ExecSucceeds(x), world' = world
    PROVE  NoneFalse'
<1>1. /\ InAttempt(x) /\ \A y \in Pid : InAttempt(y) => y = x
      /\ crossed' = crossed \cup {n[2] : n \in {m \in snapshots[x] : m[1] \in keep[x]}}
      /\ findings' = findings
  BY DEF ExecSucceeds, EndsAttempt, RunInv, Processes, Torn, vars
<1>2. ASSUME NEW f \in InheritFindings, Attempted(f)
      PROVE  f.sequence \in crossed'
  <2>1. <<f.fd, f.sequence>> \in snapshots[x] /\ f.fd \in keep[x]
    BY <1>1, <1>2 DEF Attempted
  <2> QED BY <1>1, <2>1
<1> QED BY <1>1, <1>2 DEF NoneFalse, Torn, InheritFindings

LEMMA NoneFalseReturns ==
    ASSUME ReplayAssumption, RunInv, NoneFalse, ~Torn, NEW x \in Pid, ExecReturns(x), world' = world
    PROVE  NoneFalse'
<1>1. /\ InAttempt(x) /\ \A y \in Pid : InAttempt(y) => y = x
      /\ crossed' = crossed
  BY DEF ExecReturns, EndsAttempt, RunInv, Processes, Torn
<1>2. PICK ev \in Inputs :
         /\ ev.pid = x /\ ev.target = call[x].target /\ ev.site = call[x].site
         /\ ExecFail(ev)
  BY DEF ExecReturns
<1>3. findings' = {f \in findings : ~FindingMatches(f, ev)}
  BY <1>2 DEF ExecFail
<1>4. call[x].target \in Target /\ call[x].target # Null
  <2>1. call[x] \in Call
    BY <1>1 DEF RunInv, RunTyped, InAttempt
  <2> QED BY <2>1 DEF Call, ReplayAssumption
<1>5. ASSUME NEW f \in InheritFindings, Attempted(f)
      PROVE  FindingMatches(f, ev)
  <2>1. f.pid = x /\ f.kind = "EXEC_INHERIT" /\ f.target = ev.target /\ f.target # Null
    BY <1>1, <1>2, <1>4, <1>5 DEF Attempted, InheritFindings
  <2>2. f.sequence \in Log
    BY DEF RunInv, RunTyped, TypeOK, InheritFindings
  <2>3. \A i \in f.sequence .. Len(resources) : i \in Log /\ i >= f.sequence
    BY <2>2 DEF Log, RunInv, RunTyped, TypeOK
  <2>4. \A i \in f.sequence .. Len(resources) : AttemptMatches(resources[i], ev)
    BY <1>2, <1>4, <1>5, <2>1, <2>3 DEF Attempted, AttemptMatches
  <2> QED BY <1>2, <2>1, <2>4 DEF FindingMatches
<1> QED BY <1>1, <1>3, <1>5 DEF NoneFalse, Torn, InheritFindings

\* Steps that change nothing Attempted looks at.
LEMMA NoneFalseSame ==
    ASSUME RunInv, NoneFalse, ~Torn, world' = world, UNCHANGED <<vars, call, snapshots, crossed>>,
           \A y \in Pid : InAttempt(y) => keep'[y] = keep[y]
    PROVE  NoneFalse'
<1>1. UNCHANGED <<resources, findings>>
  BY DEF vars
<1>2. \A f : Attempted(f) => Attempted(f)'
  BY <1>1 DEF Attempted, InAttempt, Log
<1> QED BY <1>1, <1>2 DEF NoneFalse, Torn, InheritFindings

LEMMA NoneFalseStep ==
    ASSUME ReplayAssumption, RunAssumption, RunInv, NoneFalse, [RunNext]_runVars
    PROVE  NoneFalse'
<1>1. CASE Torn
  <2>1. world' = world
    BY DEF RunNext, runVars
  <2> QED BY <1>1, <2>1 DEF NoneFalse, Torn
<1>2. CASE ~Torn /\ UNCHANGED runVars
  BY <1>2, NoneFalseSame DEF runVars, procs
<1>3. CASE ~Torn /\ RunNext
  <2>1. PICK x \in Pid : Runs(x)
    BY <1>3 DEF RunNext
  <2>2. world' = world /\ ~Torn /\ ~world.threads /\ world.fds \subseteq Fd
    BY <1>3, WorldTyped DEF RunNext, Torn, RunInv, RunTyped
  <2>3. ASSUME NEW fd, NEW survives, OpensFd(x, fd, survives) PROVE NoneFalse'
    <3>1. MayLog(x) /\ ~InAttempt(x) /\ crossed' = crossed
      BY <2>2, <2>3 DEF OpensFd, UserLogs, UserRuns, Free
    <3>2. findings' = findings
      BY <2>3, FindingsAlone DEF OpensFd
    <3> QED BY <2>2, <3>1, <3>2, NoneFalseLogging
  <2>4. ASSUME NEW fd, ClosesFd(x, fd) PROVE NoneFalse'
    <3>1. MayLog(x) /\ ~InAttempt(x) /\ crossed' = crossed
      BY <2>2, <2>4 DEF ClosesFd, UserLogs, UserRuns, Free
    <3>2. findings' = findings
      BY <2>4, FindingsAlone DEF ClosesFd
    <3> QED BY <2>2, <3>1, <3>2, NoneFalseLogging
  <2>5. ASSUME NEW child \in Pid, Forks(x, child) PROVE NoneFalse'
    <3>1. CASE world.late_fork
      <4>1. UNCHANGED <<vars, call, snapshots, crossed>> /\ child \notin alive
        BY <2>5, <3>1 DEF Forks
      <4>2. \A y \in Pid : InAttempt(y) => keep'[y] = keep[y]
        BY <2>5, <4>1 DEF Forks, RunInv, RunTyped, Processes
      <4> QED BY <2>2, <4>1, <4>2, NoneFalseSame
    <3>2. CASE ~world.late_fork
      <4>1. MayLog(x) /\ ~InAttempt(x) /\ crossed' = crossed
        BY <2>5, <3>2 DEF Forks, Free
      <4>2. findings' = findings
        BY <2>5, <3>2, FindingsAlone DEF Forks
      <4> QED BY <2>2, <4>1, <4>2, NoneFalseLogging
    <3> QED BY <3>1, <3>2
  <2>6. ASSUME NEW child \in Pid, LogsFork(x, child) PROVE NoneFalse'
    <3>1. MayLog(x) /\ <<x, child>> \in unannounced /\ crossed' = crossed
      BY <2>6 DEF LogsFork
    <3>2. ~InAttempt(x)
      <4>1. <<x, child>>[1] = x
        OBVIOUS
      <4> QED BY <3>1, <4>1 DEF RunInv, Processes
    <3>3. findings' = findings
      BY <2>6, FindingsAlone DEF LogsFork
    <3> QED BY <2>2, <3>1, <3>2, <3>3, NoneFalseLogging
  <2>7. ASSUME NEW g \in world.targets, StartsExec(x, g) PROVE NoneFalse'
    <3>1. MayLog(x) /\ ~InAttempt(x) /\ crossed' = crossed /\ findings' = findings
      BY <2>7 DEF StartsExec, Free, vars
    <3> QED BY <2>2, <3>1, NoneFalseLogging
  <2>8. ASSUME Exits(x) PROVE NoneFalse'
    <3>1. UNCHANGED <<vars, call, snapshots, crossed>> /\ ~InAttempt(x)
      BY <2>8 DEF Exits, Free
    <3>2. \A y \in Pid : InAttempt(y) => keep'[y] = keep[y]
      BY <2>8, <3>1 DEF Exits, RunInv, RunTyped
    <3> QED BY <2>2, <3>1, <3>2, NoneFalseSame
  <2> QED BY <2>1, <2>2, <2>3, <2>4, <2>5, <2>6, <2>7, <2>8, NoneFalseSnapshot,
             NoneFalseSucceeds, NoneFalseReturns DEF Runs
<1> QED BY <1>1, <1>2, <1>3

LEMMA RunInvHolds ==
    ASSUME ReplayAssumption, RunAssumption
    PROVE  RunSpec => []RunInv
<1>1. RunInit => RunInv
  BY RunInvInit
<1>2. RunInv /\ [RunNext]_runVars => RunInv'
  BY RunInvStep
<1> QED BY <1>1, <1>2, PTL DEF RunSpec

\* As long as the records of an attempt are not torn apart by those of another process or
\* thread, every descriptor the report calls inherited did cross into a new image:
\* the EXEC_FAIL of a call takes all its findings back and nothing else does
\* (model.c:332-396).
THEOREM NothingFalseIsReported == RunSpec => []NoFalseReportUntorn
<1> USE ReplayAssumption, RunAssumption
<1>1. RunInit => NoneFalse
  BY DEF RunInit, Init, NoneFalse, InheritFindings
<1>2. RunInv /\ NoneFalse /\ [RunNext]_runVars => NoneFalse'
  BY NoneFalseStep
<1>3. NoneFalse => NoFalseReportUntorn
  BY DEF NoneFalse, NoFalseReportUntorn, NoFalseReport, Quiescent, Reported, Attempted
<1> QED BY <1>1, <1>2, <1>3, RunInvHolds, PTL DEF RunSpec

-----------------------------------------------------------------------------
(* What a false report takes.                                              *)

\* The finding of a snapshot of an attempt that is still open: all its process has
\* logged about execs since is about that call.
Undecided(f) ==
    /\ f.pid \in Pid /\ InAttempt(f.pid)
    /\ <<f.fd, f.sequence>> \in snapshots[f.pid] /\ f.fd \in keep[f.pid]
    /\ f.target = call[f.pid].target
    /\ Execs(f.sequence, f.pid, f.fd)
    /\ \A i \in Log : i >= f.sequence /\ resources[i].pid = f.pid =>
         /\ resources[i].kind # "EXEC_FAIL"
         /\ resources[i].kind = "EXEC" =>
              /\ resources[i].target = call[f.pid].target
              /\ resources[i].site = call[f.pid].site

\* What may make the report of snapshot n false.
Excused(n) == (\E k \in Log : FailsAt(n, k) /\ BrokenUp(n, k)) \/ ClosedInside(n)

Judged(f) == f.sequence \in crossed \/ Undecided(f) \/ Excused(f.sequence)

AllJudged == \A f \in InheritFindings : Judged(f)

LEMMA ExcusedLater ==
    ASSUME TypeOK, NEW ev, Logs(ev), world' = world, NEW n \in Log, Excused(n)
    PROVE  Excused(n)'
<1>1. /\ resources \in Seq(Inputs) /\ Log \subseteq Log' /\ n \in Nat
      /\ \A i \in Log : resources'[i] = resources[i] /\ i \in Nat
  BY AppendedLog DEF TypeOK, Logs, Log
<1>2. CASE ClosedInside(n)
  BY <1>1, <1>2 DEF ClosedInside, Closes, IsFor, Excused
<1>3. ASSUME NEW k \in Log, FailsAt(n, k), BrokenUp(n, k)
      PROVE  Excused(n)'
  <2>1. k \in Nat /\ k > n /\ \A i \in n+1 .. k-1 : i \in Log
    BY <1>1, <1>3 DEF FailsAt, Log, TypeOK
  <2>2. FailsAt(n, k)' /\ BrokenUp(n, k)'
    BY <1>1, <1>3, <2>1 DEF FailsAt, BrokenUp
  <2> QED BY <1>1, <1>3, <2>2 DEF Excused
<1> QED BY <1>2, <1>3 DEF Excused

\* Another process logs, or the process itself does, but not the end of the attempt.
LEMMA UndecidedLater ==
    ASSUME TypeOK, NEW ev, Logs(ev), NEW f \in InheritFindings, Undecided(f),
           ev.pid = f.pid => /\ ev.kind # "EXEC_FAIL"
                             /\ ev.kind = "EXEC" => /\ ev.target = call[f.pid].target
                                                    /\ ev.site = call[f.pid].site,
           call'[f.pid] = call[f.pid],
           <<f.fd, f.sequence>> \in snapshots'[f.pid], f.fd \in keep'[f.pid]
    PROVE  Undecided(f)'
<1>1. /\ \A i \in Log : resources'[i] = resources[i]
      /\ resources'[Sequence] = ev
      /\ \A i \in Log' : i \in Log \/ i = Sequence
  BY AppendedLog DEF TypeOK, Logs, Sequence
<1>2. f.sequence \in Log
  BY DEF TypeOK, InheritFindings
<1> QED BY <1>1, <1>2 DEF Undecided, Execs, IsFor, InAttempt

\* A record that is not about the end of an attempt, by a process that is not
\* closing anything.
LEMMA JudgedLogging ==
    ASSUME RunInv, AllJudged, NEW ev, Logs(ev), world' = world, crossed' = crossed,
           NEW f \in InheritFindings, Undecided(f) => Undecided(f)' \/ Excused(f.sequence)'
    PROVE  Judged(f)'
<1>1. TypeOK /\ f.sequence \in Log
  BY DEF RunInv, RunTyped, TypeOK, InheritFindings
<1> QED BY <1>1, ExcusedLater DEF AllJudged, Judged

\* Steps that log nothing and leave the open attempts alone.
LEMMA JudgedSilent ==
    ASSUME AllJudged, world' = world, UNCHANGED <<vars, snapshots, crossed>>,
           \A y \in Pid : InAttempt(y) => keep'[y] = keep[y] /\ call'[y] = call[y]
    PROVE  AllJudged'
<1>1. UNCHANGED <<resources, findings>>
  BY DEF vars
<1>2. \A f : Undecided(f) => Undecided(f)'
  BY <1>1 DEF Undecided, InAttempt, Log, Execs, IsFor
<1>3. \A n : Excused(n) => Excused(n)'
  BY <1>1 DEF Excused, FailsAt, BrokenUp, ClosedInside, Closes, IsFor, Log
<1> QED BY <1>1, <1>2, <1>3 DEF AllJudged, Judged, InheritFindings

LEMMA JudgedOpens ==
    ASSUME RunInv, AllJudged, NEW x \in Pid, NEW fd \in Fd, NEW survives, OpensFd(x, fd, survives),
           world' = world
    PROVE  AllJudged'
<1>1. PICK ev \in Inputs : ev.pid = x /\ ev.fd = fd /\ FdOpen(ev)
  BY DEF OpensFd
<1>2. Logs(ev) /\ findings' = findings /\ ev.kind = "FD_OPEN"
  BY <1>1, RecordLogs, FindingsAlone DEF FdOpen
<1>3. /\ UNCHANGED <<call, snapshots, crossed>>
      /\ \A y \in Pid : keep[y] \subseteq keep'[y]
  BY DEF OpensFd, UserLogs, RunInv, RunTyped
<1>4. ASSUME NEW f \in InheritFindings, Undecided(f) PROVE Undecided(f)'
  <2>1. f.pid \in Pid /\ <<f.fd, f.sequence>> \in snapshots[f.pid] /\ f.fd \in keep[f.pid]
    BY <1>4 DEF Undecided
  <2> QED BY <1>2, <1>3, <1>4, <2>1, UndecidedLater DEF RunInv, RunTyped
<1> QED BY <1>2, <1>3, <1>4, JudgedLogging DEF AllJudged, InheritFindings

\* A descriptor closed in the middle of an attempt was closed by another thread.
LEMMA JudgedCloses ==
    ASSUME RunInv, AllJudged, NEW x \in Pid, NEW fd \in Fd, ClosesFd(x, fd), world' = world
    PROVE  AllJudged'
<1>1. PICK ev \in Inputs : ev.pid = x /\ ev.fd = fd /\ (FdClose(ev) \/ FdCloseStray(ev))
  BY DEF ClosesFd
<1>2. Logs(ev) /\ findings' = findings /\ ev.kind = "FD_CLOSE"
  BY <1>1, RecordLogs, FindingsAlone DEF FdClose, FdCloseStray
<1>3. /\ UNCHANGED <<call, crossed>>
      /\ keep' = [keep EXCEPT ![x] = @ \ {fd}]
      /\ snapshots' = [snapshots EXCEPT ![x] = {n \in @ : n[1] # fd}]
      /\ keep \in [Pid -> SUBSET Fd] /\ snapshots \in [Pid -> SUBSET (Fd \X Nat)]
  BY DEF ClosesFd, UserLogs, RunInv, RunTyped
<1>4. ASSUME NEW f \in InheritFindings, Undecided(f)
      PROVE  Undecided(f)' \/ Excused(f.sequence)'
  <2>1. /\ f.pid \in Pid /\ <<f.fd, f.sequence>> \in snapshots[f.pid] /\ f.fd \in keep[f.pid]
        /\ InAttempt(f.pid) /\ Execs(f.sequence, f.pid, f.fd)
    BY <1>4 DEF Undecided
  <2>2. CASE f.pid = x /\ f.fd = fd
    <3>1. world.threads
      BY <2>1, <2>2 DEF ClosesFd, UserLogs, UserRuns, Free
    <3>2. /\ resources \in Seq(Inputs) /\ f.sequence \in Log /\ Len(resources) \in Nat
      BY DEF RunInv, RunTyped, TypeOK, InheritFindings
    <3>3. /\ Sequence \in Log' /\ resources'[Sequence] = ev
          /\ resources'[f.sequence] = resources[f.sequence] /\ Sequence > f.sequence
      BY <1>2, <3>2, AppendedLog DEF Logs, Sequence, Log
    <3>4. ClosedInside(f.sequence)'
      BY <1>1, <1>2, <2>1, <2>2, <3>1, <3>3 DEF ClosedInside, Closes, Execs, IsFor
    <3> QED BY <3>4 DEF Excused
  <2>3. CASE ~(f.pid = x /\ f.fd = fd)
    <3>1. f.fd \in keep'[f.pid]
      BY <1>3, <2>1, <2>3
    <3>2. <<f.fd, f.sequence>> \in snapshots'[f.pid]
      <4>1. <<f.fd, f.sequence>>[1] = f.fd
        OBVIOUS
      <4> QED BY <1>3, <2>1, <2>3, <4>1
    <3> QED BY <1>2, <1>3, <1>4, <3>1, <3>2, UndecidedLater DEF RunInv, RunTyped
  <2> QED BY <2>2, <2>3
<1> QED BY <1>2, <1>3, <1>4, JudgedLogging DEF AllJudged, InheritFindings

\* A FORK record, at once or later.
LEMMA JudgedForkRecord ==
    ASSUME RunInv, AllJudged, NEW ev \in Inputs, Fork(ev), world' = world,
           UNCHANGED <<call, snapshots, crossed>>,
           \A y \in Pid : InAttempt(y) => keep'[y] = keep[y]
    PROVE  AllJudged'
<1>1. Logs(ev) /\ findings' = findings /\ ev.kind = "FORK"
  BY RecordLogs, FindingsAlone DEF Fork
<1>2. ASSUME NEW f \in InheritFindings, Undecided(f) PROVE Undecided(f)'
  <2>1. /\ f.pid \in Pid /\ <<f.fd, f.sequence>> \in snapshots[f.pid] /\ f.fd \in keep[f.pid]
        /\ InAttempt(f.pid)
    BY <1>2 DEF Undecided
  <2> QED BY <1>1, <1>2, <2>1, UndecidedLater DEF RunInv, RunTyped
<1> QED BY <1>1, <1>2, JudgedLogging DEF AllJudged, InheritFindings

LEMMA JudgedForks ==
    ASSUME RunInv, AllJudged, NEW x \in Pid, NEW child \in Pid, Forks(x, child), world' = world
    PROVE  AllJudged'
<1>1. \A y \in Pid : InAttempt(y) => keep'[y] = keep[y] /\ call'[y] = call[y]
  BY ForksState DEF RunInv, RunTyped, Processes
<1>2. CASE world.late_fork
  <2>1. UNCHANGED <<vars, snapshots, crossed>>
    BY <1>2 DEF Forks
  <2> QED BY <1>1, <2>1, JudgedSilent
<1>3. CASE ~world.late_fork
  <2>1. /\ UNCHANGED <<call, snapshots, crossed>>
        /\ \E ev \in Inputs : Fork(ev)
    BY <1>3 DEF Forks
  <2> QED BY <1>1, <2>1, JudgedForkRecord
<1> QED BY <1>2, <1>3

LEMMA JudgedSnapshot ==
    ASSUME RunInv, AllJudged, NEW x \in Pid, NEW fd \in Fd, LogsSnapshot(x, fd), world' = world
    PROVE  AllJudged'
<1>1. PICK ev \in Inputs :
        /\ ev.pid = x /\ ev.fd = fd /\ ev.target = call[x].target /\ ev.site = call[x].site
        /\ ev.cloexec = (fd \notin keep[x])
        /\ Exec(ev) \/ ExecUnknown(ev)
  BY DEF LogsSnapshot
<1>2. Logs(ev) /\ ev.kind = "EXEC"
  BY <1>1, RecordLogs DEF Exec, ExecUnknown
<1>3. /\ UNCHANGED <<keep, call, crossed>> /\ InAttempt(x)
      /\ snapshots' = [snapshots EXCEPT ![x] = @ \cup {<<fd, Sequence>>}]
      /\ snapshots \in [Pid -> SUBSET (Fd \X Nat)]
  BY DEF LogsSnapshot, RunInv, RunTyped, Processes
<1>4. ASSUME NEW f \in InheritFindings PROVE Judged(f)'
  <2>1. ASSUME Undecided(f) PROVE Undecided(f)'
    <3>1. f.pid \in Pid /\ <<f.fd, f.sequence>> \in snapshots[f.pid] /\ f.fd \in keep[f.pid]
      BY <2>1 DEF Undecided
    <3>2. <<f.fd, f.sequence>> \in snapshots'[f.pid]
      BY <1>3, <3>1
    <3> QED BY <1>1, <1>2, <1>3, <2>1, <3>1, <3>2, UndecidedLater DEF RunInv, RunTyped
  <2> QED BY <1>2, <1>3, <2>1, JudgedLogging
<1>5. ASSUME NEW f, ~ev.cloexec, NEW e \in fds, f = InheritFinding(ev, e)
      PROVE  Judged(f)'
  <2>1. f.pid = x /\ f.fd = fd /\ f.target = ev.target /\ f.sequence = Sequence
    BY <1>1, <1>5 DEF InheritFinding
  <2>2. /\ resources'[Sequence] = ev
        /\ \A i \in Log' : i >= Sequence => i = Sequence
    <3>1. resources \in Seq(Inputs) /\ Len(resources) \in Nat
      BY DEF RunInv, RunTyped, TypeOK
    <3>2. \A i \in Log : ~(i >= Sequence)
      BY <3>1 DEF Log, Sequence
    <3> QED BY <1>2, <3>1, <3>2, AppendedLog DEF Logs, Sequence
  <2>3. <<f.fd, f.sequence>> \in snapshots'[x] /\ InAttempt(x)'
    BY <1>3, <2>1 DEF InAttempt
  <2>4. Undecided(f)'
    BY <1>1, <1>2, <1>3, <1>5, <2>1, <2>2, <2>3 DEF Undecided, Execs, IsFor
  <2> QED BY <2>4 DEF Judged
<1>6. \A f \in findings' :
        f \in findings \/ (~ev.cloexec /\ \E e \in fds : f = InheritFinding(ev, e))
  BY <1>1, SnapshotFinds, FindingsAlone
<1> QED BY <1>4, <1>5, <1>6 DEF AllJudged, InheritFindings

LEMMA JudgedSucceeds ==
    ASSUME RunInv, AllJudged, NEW x \in Pid, ExecSucceeds(x), world' = world
    PROVE  AllJudged'
<1>1. /\ UNCHANGED <<resources, findings, keep>>
      /\ crossed' = crossed \cup {n[2] : n \in {m \in snapshots[x] : m[1] \in keep[x]}}
      /\ \A y \in Pid : y # x => call'[y] = call[y] /\ snapshots'[y] = snapshots[y]
  BY DEF ExecSucceeds, EndsAttempt, vars, RunInv, RunTyped
<1>2. \A n : Excused(n) => Excused(n)'
  BY <1>1 DEF Excused, FailsAt, BrokenUp, ClosedInside, Closes, IsFor, Log
<1>3. ASSUME NEW f \in InheritFindings, Undecided(f)
      PROVE  f.sequence \in crossed' \/ Undecided(f)'
  <2>1. CASE f.pid = x
    <3>1. <<f.fd, f.sequence>> \in snapshots[x] /\ f.fd \in keep[x]
      BY <1>3, <2>1 DEF Undecided
    <3> QED BY <1>1, <3>1
  <2>2. CASE f.pid # x
    BY <1>1, <1>3, <2>2 DEF Undecided, InAttempt, Log, Execs, IsFor
  <2> QED BY <2>1, <2>2
<1> QED BY <1>1, <1>2, <1>3 DEF AllJudged, Judged, InheritFindings

\* The rollback takes every finding of the call with it whose records are not torn
\* apart.
LEMMA JudgedReturns ==
    ASSUME ReplayAssumption, RunInv, AllJudged, NEW x \in Pid, ExecReturns(x), world' = world
    PROVE  AllJudged'
<1>1. PICK ev \in Inputs :
         /\ ev.pid = x /\ ev.target = call[x].target /\ ev.site = call[x].site
         /\ ExecFail(ev)
  BY DEF ExecReturns
<1>2. /\ Logs(ev) /\ ev.kind = "EXEC_FAIL"
      /\ findings' = {f \in findings : ~FindingMatches(f, ev)}
  BY <1>1, RecordLogs DEF ExecFail
<1>3. /\ InAttempt(x) /\ UNCHANGED <<keep, crossed>>
      /\ \A y \in Pid : y # x => call'[y] = call[y] /\ snapshots'[y] = snapshots[y]
  BY DEF ExecReturns, EndsAttempt, RunInv, RunTyped
<1>4. call[x].target # Null
  <2>1. call[x] \in Call
    BY <1>3 DEF RunInv, RunTyped, InAttempt
  <2> QED BY <2>1 DEF Call, ReplayAssumption
<1>5. ASSUME NEW f \in InheritFindings, ~FindingMatches(f, ev), Undecided(f)
      PROVE  Undecided(f)' \/ Excused(f.sequence)'
  <2> DEFINE n == f.sequence
  <2>1. CASE f.pid # x
    <3>1. f.pid \in Pid /\ <<f.fd, n>> \in snapshots[f.pid] /\ f.fd \in keep[f.pid]
      BY <1>5 DEF Undecided
    <3> QED BY <1>1, <1>2, <1>3, <1>5, <2>1, <3>1, UndecidedLater DEF RunInv, RunTyped
  <2>2. CASE f.pid = x
    <3>1. /\ resources \in Seq(Inputs) /\ Len(resources) \in Nat /\ n \in Log /\ n \in Nat
          /\ f.kind = "EXEC_INHERIT"
      BY DEF RunInv, RunTyped, TypeOK, InheritFindings, Log
    <3>2. PICK k \in Nat :
            /\ k \in Log' /\ resources'[k] = ev /\ k > n /\ k-1 = Len(resources)
            /\ \A i \in Log : resources'[i] = resources[i]
            /\ \A i \in n .. k-1 : i \in Log /\ i >= n /\ i \in Nat
      BY <1>2, <3>1, AppendedLog DEF Logs, Sequence, Log
    <3>3. /\ resources[n].pid = x /\ resources[n].kind = "EXEC"
          /\ f.target = call[x].target
          /\ \A i \in Log : i >= n /\ resources[i].pid = x =>
               /\ resources[i].kind # "EXEC_FAIL"
               /\ resources[i].kind = "EXEC" =>
                    resources[i].target = call[x].target /\ resources[i].site = call[x].site
      BY <1>5, <2>2 DEF Undecided, Execs, IsFor
    <3>4. \A i \in n+1 .. k-1 : i \in n .. k-1
      BY <3>1, <3>2
    <3>5. FailsAt(n, k)'
      BY <1>1, <1>2, <3>1, <3>2, <3>3, <3>4 DEF FailsAt
    <3>6. ASSUME ~BrokenUp(n, k)' PROVE FALSE
      <4>1. ASSUME NEW i \in n .. Len(resources) PROVE AttemptMatches(resources[i], ev)
        <5>1. i \in Log /\ i >= n /\ resources'[i] = resources[i] /\ i \in Nat
          BY <3>2
        <5>2. resources[i].pid = x /\ resources[i].kind = "EXEC"
          <6>1. CASE i = n
            BY <3>3, <6>1
          <6>2. CASE i # n
            <7>1. i \in n+1 .. k-1
              BY <3>1, <3>2, <5>1, <6>2
            <7> QED BY <3>1, <3>2, <3>3, <3>6, <5>1, <7>1 DEF BrokenUp
          <6> QED BY <6>1, <6>2
        <5> QED BY <1>1, <1>4, <3>3, <5>1, <5>2 DEF AttemptMatches
      <4>2. f.pid = ev.pid /\ f.target = ev.target /\ f.target # Null
        BY <1>1, <1>4, <2>2, <3>3
      <4>3. FindingMatches(f, ev)
        BY <3>1, <4>1, <4>2 DEF FindingMatches
      <4> QED BY <1>5, <4>3
    <3> QED BY <3>2, <3>5, <3>6 DEF Excused
  <2> QED BY <2>1, <2>2
<1>6. \A f \in InheritFindings' : f \in InheritFindings /\ ~FindingMatches(f, ev)
  BY <1>2 DEF InheritFindings
<1> QED BY <1>2, <1>3, <1>5, <1>6, JudgedLogging DEF AllJudged

LEMMA JudgedStep ==
    ASSUME ReplayAssumption, RunAssumption, RunInv, AllJudged, [RunNext]_runVars
    PROVE  AllJudged'
<1>1. CASE UNCHANGED runVars
  BY <1>1, JudgedSilent DEF runVars, procs
<1>2. CASE RunNext
  <2>1. PICK x \in Pid : Runs(x)
    BY <1>2 DEF RunNext
  <2>2. world' = world /\ world.fds \subseteq Fd
    BY <1>2, WorldTyped DEF RunNext, RunInv, RunTyped
  <2>3. ASSUME NEW child \in Pid, LogsFork(x, child) PROVE AllJudged'
    BY <2>2, <2>3, JudgedForkRecord DEF LogsFork
  <2>4. ASSUME NEW g \in world.targets, StartsExec(x, g) PROVE AllJudged'
    <3>1. \A y \in Pid : InAttempt(y) => keep'[y] = keep[y] /\ call'[y] = call[y]
      BY <2>4 DEF StartsExec, Free, RunInv, RunTyped
    <3> QED BY <2>2, <2>4, <3>1, JudgedSilent DEF StartsExec
  <2>5. ASSUME Exits(x) PROVE AllJudged'
    <3>1. \A y \in Pid : InAttempt(y) => keep'[y] = keep[y] /\ call'[y] = call[y]
      BY <2>5 DEF Exits, Free, RunInv, RunTyped
    <3> QED BY <2>2, <2>5, <3>1, JudgedSilent DEF Exits
  <2> QED BY <2>1, <2>2, <2>3, <2>4, <2>5, JudgedOpens, JudgedCloses, JudgedForks,
             JudgedSnapshot, JudgedSucceeds, JudgedReturns DEF Runs
<1> QED BY <1>1, <1>2

\* Whatever processes and threads do, a report is false only if its exec failed and
\* another process or thread logged something between the snapshot and the EXEC_FAIL,
\* or if another thread closed the descriptor before the exec (model.c:332-396).
THEOREM FalseReportsNeedABreak == RunSpec => []FalseReportsAreBrokenUp
<1> USE ReplayAssumption, RunAssumption
<1>1. RunInit => AllJudged
  BY DEF RunInit, Init, AllJudged, InheritFindings
<1>2. RunInv /\ AllJudged /\ [RunNext]_runVars => AllJudged'
  BY JudgedStep
<1>3. AllJudged => FalseReportsAreBrokenUp
  BY DEF AllJudged, Judged, Excused, FalseReportsAreBrokenUp, Quiescent, Reported, Undecided
<1> QED BY <1>1, <1>2, <1>3, RunInvHolds, PTL DEF RunSpec

-----------------------------------------------------------------------------
(* What the sweep leaves of the table.                                     *)

LEMMA FdFields ==
    ASSUME TypeOK, NEW e \in fds
    PROVE  /\ FdOK(e, Len(resources)) /\ Len(resources) \in Nat
           /\ e.pid \in Pid /\ e.fd \in Fd /\ e.exec_pending \in BOOLEAN /\ e.exec_cloexec \in BOOLEAN
BY DEF TypeOK, FdOK, LiveFd, Log

\* The entry e once its attempt is known to be over.
Rested(e) == IF e.exec_pending THEN Cleared(e) ELSE e

LEMMA RestedFields ==
    ASSUME TypeOK, NEW e \in fds
    PROVE  Rested(e).pid = e.pid /\ Rested(e).fd = e.fd /\ ~Rested(e).exec_pending
BY FdFields, ClearedOK DEF Rested

\* Entries of other processes stay as they are.
LEMMA SettledElsewhere ==
    ASSUME TypeOK, NEW ev
    PROVE  /\ \A e \in fds : e.pid # ev.pid => e \in SettledFds(ev)
           /\ \A g \in SettledFds(ev) : g.pid # ev.pid => g \in fds
<1>1. \A e \in Settling(ev) : e \in fds /\ e.pid = ev.pid
  BY SettlingPending
<1>2. \A e \in fds : e.pid # ev.pid => e \in SettledFds(ev)
  BY <1>1 DEF SettledFds, SweptFds
<1>3. ASSUME NEW g \in SettledFds(ev), g.pid # ev.pid
      PROVE  g \in fds
  <2>1. \A e \in Settling(ev) : Cleared(e).pid = ev.pid
    BY <1>1, FdFields, ClearedOK
  <2> QED BY <1>3, <2>1 DEF SettledFds, SweptFds
<1> QED BY <1>2, <1>3

\* Of the process's own entries, those that are not doomed come to rest.
LEMMA SettledOwn ==
    ASSUME TypeOK, NEW ev, ev.kind \notin {"EXEC", "EXEC_FAIL"}
    PROVE  /\ \A e \in fds : e.pid = ev.pid /\ ~Doomed(e) => Rested(e) \in SettledFds(ev)
           /\ \A g \in SettledFds(ev) : g.pid = ev.pid =>
                \E e \in fds : g = Rested(e) /\ e.pid = ev.pid /\ ~Doomed(e)
<1>1. Settling(ev) = {e \in fds : e.pid = ev.pid /\ e.exec_pending}
  BY DEF Settling, Pending
<1>2. ASSUME NEW e \in fds, e.pid = ev.pid, ~Doomed(e)
      PROVE  Rested(e) \in SettledFds(ev)
  BY <1>1, <1>2 DEF SettledFds, SweptFds, Rested, Doomed
<1>3. ASSUME NEW g \in SettledFds(ev), g.pid = ev.pid
      PROVE  \E e \in fds : g = Rested(e) /\ e.pid = ev.pid /\ ~Doomed(e)
  <2>1. CASE g \in fds \ Settling(ev)
    BY <1>1, <1>3, <2>1 DEF Rested, Doomed
  <2>2. CASE \E e \in Settling(ev) : g = Cleared(e) /\ ~e.exec_cloexec
    BY <1>1, <2>2 DEF Rested, Doomed
  <2> QED BY <1>3, <2>1, <2>2 DEF SettledFds, SweptFds
<1> QED BY <1>2, <1>3

LEMMA SettledSlots ==
    ASSUME TypeOK, NEW ev
    PROVE  /\ closed_fds \subseteq SettledClosed(ev)
           /\ \A p, d : <<p, d>> \in SettledClosed(ev) /\ <<p, d>> \notin closed_fds =>
                p = ev.pid /\ \E e \in fds : e.pid = p /\ e.fd = d
<1>1. \A e \in Settling(ev) : e \in fds /\ e.pid = ev.pid
  BY SettlingPending
<1> QED BY <1>1 DEF SettledClosed, SweptClosed, Slot

-----------------------------------------------------------------------------
(* What the records do to the tables while memory lasts.                   *)

\* Nothing changes in the entries of other processes than x.
Elsewhere(x) ==
    /\ \A e \in fds : e.pid # x => e \in fds'
    /\ \A p, d : <<p, d>> \in closed_fds' /\ p # x => <<p, d>> \in closed_fds

OnlyOwn(x) == \A g \in fds' : g.pid # x => g \in fds

\* The process x keeps what it has, and learns of nothing new but those of fds `opened`.
Retains(x, closing) ==
    \A e \in fds : e.pid = x /\ ~Doomed(e) /\ e.fd \notin closing =>
      \E g \in fds' : g.pid = x /\ g.fd = e.fd /\ ~g.exec_pending

Gains(x, opening) ==
    \A g \in fds' : g.pid = x =>
      ~g.exec_pending /\ (g.fd \in opening \/ \E e \in fds : e.pid = x /\ e.fd = g.fd /\ ~Doomed(e))

Forgets(x, closing) ==
    \A d : <<x, d>> \in closed_fds' =>
      <<x, d>> \in closed_fds \/ d \in closing \/ \E e \in fds : e.pid = x /\ e.fd = d

LEMMA OpenTable ==
    ASSUME ReplayAssumption, TypeOK, NEW ev \in Inputs, FdOpen(ev), ~err'
    PROVE  /\ Elsewhere(ev.pid) /\ OnlyOwn(ev.pid)
           /\ Retains(ev.pid, {}) /\ Gains(ev.pid, {ev.fd}) /\ Forgets(ev.pid, {})
           /\ \E g \in fds' : g.pid = ev.pid /\ g.fd = ev.fd /\ ~g.exec_pending
<1>1. /\ ev.kind \notin {"EXEC", "EXEC_FAIL"}
      /\ fds' = SettledFds(ev) \cup {NewFd(ev.pid, ev.fd, ev.site)}
      /\ closed_fds' = SettledClosed(ev)
  BY DEF FdOpen
<1>2. LET new == NewFd(ev.pid, ev.fd, ev.site)
      IN  new.pid = ev.pid /\ new.fd = ev.fd /\ ~new.exec_pending
  BY DEF NewFd
<1>3. Elsewhere(ev.pid) /\ OnlyOwn(ev.pid)
  BY <1>1, <1>2, SettledElsewhere, SettledSlots DEF Elsewhere, OnlyOwn
<1>4. Retains(ev.pid, {}) /\ Gains(ev.pid, {ev.fd})
  BY <1>1, <1>2, SettledOwn, RestedFields DEF Retains, Gains
<1>5. Forgets(ev.pid, {})
  BY <1>1, SettledSlots DEF Forgets
<1> QED BY <1>1, <1>2, <1>3, <1>4, <1>5

LEMMA CloseTable ==
    ASSUME ReplayAssumption, TypeOK, NEW ev \in Inputs, FdClose(ev) \/ FdCloseStray(ev), ~err'
    PROVE  /\ Elsewhere(ev.pid) /\ OnlyOwn(ev.pid)
           /\ Retains(ev.pid, {ev.fd}) /\ Gains(ev.pid, {}) /\ Forgets(ev.pid, {ev.fd})
<1>1. ev.kind \notin {"EXEC", "EXEC_FAIL"}
  BY DEF FdClose, FdCloseStray
<1>2. \/ /\ fds' = SettledFds(ev) /\ closed_fds' = SettledClosed(ev)
      \/ /\ \E e \in SettledFds(ev) : e.pid = ev.pid /\ e.fd = ev.fd /\ fds' = SettledFds(ev) \ {e}
         /\ closed_fds' = SettledClosed(ev) \cup {<<ev.pid, ev.fd>>}
  BY DEF FdClose, FdCloseStray, Settle, Entries
<1>3. Elsewhere(ev.pid) /\ OnlyOwn(ev.pid)
  BY <1>2, SettledElsewhere, SettledSlots DEF Elsewhere, OnlyOwn
<1>4. Retains(ev.pid, {ev.fd}) /\ Gains(ev.pid, {})
  BY <1>1, <1>2, SettledOwn, RestedFields DEF Retains, Gains
<1>5. Forgets(ev.pid, {ev.fd})
  BY <1>2, SettledSlots DEF Forgets
<1> QED BY <1>3, <1>4, <1>5

\* With memory, the child receives all that is open and that it has no trace of.
LEMMA ForkTableWhole ==
    ASSUME ReplayAssumption, TypeOK, NEW ev \in Inputs, Fork(ev), ~err', ev.child_pid # ev.pid
    PROVE  /\ Elsewhere(ev.pid)
           /\ Retains(ev.pid, {}) /\ Gains(ev.pid, {}) /\ Forgets(ev.pid, {})
           /\ \A g \in fds' : g.pid # ev.pid =>
                \/ g \in fds
                \/ /\ g.pid = ev.child_pid /\ ~g.exec_pending
                   /\ \A e \in fds : ~(e.pid = g.pid /\ e.fd = g.fd)
                   /\ \E e \in fds : e.pid = ev.pid /\ e.fd = g.fd /\ ~Doomed(e)
           /\ \A g, h \in fds' : g \notin fds /\ h \notin fds /\ g.pid = ev.child_pid
                                   /\ h.pid = g.pid /\ h.fd = g.fd => g = h
           /\ \A e \in fds : /\ e.pid = ev.pid /\ ~Doomed(e)
                             /\ \A g \in fds : ~(g.pid = ev.child_pid /\ g.fd = e.fd)
                             /\ <<ev.child_pid, e.fd>> \notin closed_fds
                => \E g \in fds' : g.pid = ev.child_pid /\ g.fd = e.fd /\ ~g.exec_pending
<1> DEFINE table == SettledFds(ev)
           all == Inherited(ev, table)
<1>1. ev.kind \notin {"EXEC", "EXEC_FAIL"} /\ closed_fds' = SettledClosed(ev)
  BY DEF Fork
<1>2. PICK source \in [all -> table] :
        /\ \A d \in all : source[d] \in Entries(table, ev.pid, d)
        /\ fds' = table \cup {NewFd(ev.child_pid, d, source[d].site) : d \in all}
  BY DEF Fork
<1>3. \A d, site : /\ NewFd(ev.child_pid, d, site).pid = ev.child_pid
                   /\ NewFd(ev.child_pid, d, site).fd = d
                   /\ ~NewFd(ev.child_pid, d, site).exec_pending
  BY DEF NewFd
<1>4. \A g \in fds' : g \in table \/ \E d \in all : g = NewFd(ev.child_pid, d, source[d].site)
  BY <1>2
<1>5. /\ table \subseteq fds'
      /\ \A d \in all : \E g \in fds' : g.pid = ev.child_pid /\ g.fd = d /\ ~g.exec_pending
  BY <1>2, <1>3
<1>6. \A d : d \in all <=> /\ d \in Fd
                           /\ \E e \in table : e.pid = ev.pid /\ e.fd = d
                           /\ \A e \in table : ~(e.pid = ev.child_pid /\ e.fd = d)
                           /\ <<ev.child_pid, d>> \notin SettledClosed(ev)
  BY DEF Inherited, Entries
<1>7. /\ \A e \in fds : e.pid # ev.pid => e \in table
      /\ \A g \in table : g.pid # ev.pid => g \in fds
  BY SettledElsewhere
<1>8. /\ \A e \in fds : e.pid = ev.pid /\ ~Doomed(e) =>
           \E g \in table : g.pid = ev.pid /\ g.fd = e.fd /\ ~g.exec_pending
      /\ \A g \in table : g.pid = ev.pid =>
           ~g.exec_pending /\ \E e \in fds : e.pid = ev.pid /\ e.fd = g.fd /\ ~Doomed(e)
  BY <1>1, SettledOwn, RestedFields
<1> HIDE DEF table, all
<1>9. Elsewhere(ev.pid) /\ Retains(ev.pid, {}) /\ Gains(ev.pid, {})
  <2>1. Elsewhere(ev.pid)
    BY <1>1, <1>5, <1>7, SettledSlots DEF Elsewhere
  <2>2. Retains(ev.pid, {})
    BY <1>5, <1>8 DEF Retains
  <2>3. Gains(ev.pid, {})
    BY <1>3, <1>4, <1>8 DEF Gains
  <2> QED BY <2>1, <2>2, <2>3
<1>10. Forgets(ev.pid, {})
  BY <1>1, SettledSlots DEF Forgets
<1>11. ASSUME NEW g \in fds', g.pid # ev.pid, g \notin fds
       PROVE  /\ g.pid = ev.child_pid /\ ~g.exec_pending
              /\ \A e \in fds : ~(e.pid = g.pid /\ e.fd = g.fd)
              /\ \E e \in fds : e.pid = ev.pid /\ e.fd = g.fd /\ ~Doomed(e)
  <2>1. PICK d \in all : g = NewFd(ev.child_pid, d, source[d].site)
    BY <1>4, <1>7, <1>11
  <2>2. g.pid = ev.child_pid /\ g.fd = d /\ ~g.exec_pending
    BY <1>3, <2>1
  <2>3. \E e \in table : e.pid = ev.pid /\ e.fd = d
    BY <1>6
  <2>4. \E e \in fds : e.pid = ev.pid /\ e.fd = d /\ ~Doomed(e)
    BY <1>8, <2>3
  <2>5. \A e \in fds : ~(e.pid = ev.child_pid /\ e.fd = d)
    BY <1>6, <1>7
  <2> QED BY <2>2, <2>4, <2>5
<1>12. ASSUME NEW g \in fds', NEW h \in fds', g \notin fds, h \notin fds,
              g.pid = ev.child_pid, h.pid = g.pid, h.fd = g.fd
       PROVE  g = h
  <2>1. PICK d \in all : g = NewFd(ev.child_pid, d, source[d].site)
    BY <1>4, <1>7, <1>12
  <2>2. PICK c \in all : h = NewFd(ev.child_pid, c, source[c].site)
    BY <1>4, <1>7, <1>12
  <2> QED BY <1>3, <1>12, <2>1, <2>2
<1>13. ASSUME NEW e \in fds, e.pid = ev.pid, ~Doomed(e),
              \A g \in fds : ~(g.pid = ev.child_pid /\ g.fd = e.fd),
              <<ev.child_pid, e.fd>> \notin closed_fds
       PROVE  \E g \in fds' : g.pid = ev.child_pid /\ g.fd = e.fd /\ ~g.exec_pending
  <2>1. <<ev.child_pid, e.fd>> \notin SettledClosed(ev)
    BY <1>13, SettledSlots
  <2>2. e.fd \in all
    BY <1>6, <1>7, <1>8, <1>13, <2>1, FdFields
  <2> QED BY <1>5, <2>2
<1> QED BY <1>9, <1>10, <1>11, <1>12, <1>13

\* A snapshot marks one entry of its descriptor, or finds none.
LEMMA SnapshotTable ==
    ASSUME ReplayAssumption, TypeOK, NEW ev \in Inputs, Exec(ev) \/ ExecUnknown(ev), ~err'
    PROVE  /\ closed_fds' = closed_fds
           /\ \/ fds' = fds /\ \A e \in fds : ~(e.pid = ev.pid /\ e.fd = ev.fd)
              \/ \E e \in fds, m \in fds' :
                   /\ e.pid = ev.pid /\ e.fd = ev.fd /\ m.pid = ev.pid /\ m.fd = ev.fd
                   /\ Doomed(m) <=> ev.cloexec
                   /\ fds' = (fds \ {e}) \cup {m}
           /\ Elsewhere(ev.pid) /\ OnlyOwn(ev.pid)
<1>1. SettledFds(ev) = fds /\ SettledClosed(ev) = closed_fds
  <2>1. ev.kind = "EXEC"
    BY DEF Exec, ExecUnknown
  <2> QED BY <2>1, ExecSettlesNothing
<1>2. CASE Exec(ev)
  <2>1. PICK e \in Entries(fds, ev.pid, ev.fd) : fds' = (fds \ {e}) \cup {Marked(e, ev)}
    BY <1>1, <1>2 DEF Exec, Marked
  <2>2. e \in fds /\ e.pid = ev.pid /\ e.fd = ev.fd /\ closed_fds' = closed_fds
    BY <1>1, <1>2, <2>1 DEF Exec, Entries
  <2>3. Marked(e, ev).pid = ev.pid /\ Marked(e, ev).fd = ev.fd /\ (Doomed(Marked(e, ev)) <=> ev.cloexec)
    BY <2>2, FdFields, InputFields DEF Marked, Doomed, FdOK, LiveFd
  <2>4. Elsewhere(ev.pid) /\ OnlyOwn(ev.pid)
    BY <2>1, <2>2, <2>3 DEF Elsewhere, OnlyOwn
  <2>5. Marked(e, ev) \in fds'
    BY <2>1
  <2> QED BY <2>1, <2>2, <2>3, <2>4, <2>5
<1>3. CASE ExecUnknown(ev)
  BY <1>1, <1>3 DEF ExecUnknown, Settle, Entries, Elsewhere, OnlyOwn
<1> QED BY <1>2, <1>3

\* An EXEC_FAIL brings the entries of its process to rest.
LEMMA FailTable ==
    ASSUME ReplayAssumption, TypeOK, NEW ev \in Inputs, ExecFail(ev)
    PROVE  /\ closed_fds' = closed_fds
           /\ \A e \in fds : e.pid = ev.pid => Rested(e) \in fds'
           /\ \A g \in fds' : g.pid = ev.pid => \E e \in fds : e.pid = ev.pid /\ g = Rested(e)
           /\ Elsewhere(ev.pid) /\ OnlyOwn(ev.pid)
<1>1. SettledFds(ev) = fds /\ SettledClosed(ev) = closed_fds
  <2>1. ev.kind = "EXEC_FAIL"
    BY DEF ExecFail
  <2> QED BY <2>1, ExecSettlesNothing
<1>2. /\ fds' = {IF e.pid = ev.pid /\ e.exec_pending THEN Cleared(e) ELSE e : e \in fds}
      /\ closed_fds' = closed_fds
  BY <1>1 DEF ExecFail
<1>3. /\ \A e \in fds : e.pid = ev.pid => Rested(e) \in fds'
      /\ \A e \in fds : e.pid # ev.pid => e \in fds'
      /\ \A g \in fds' : \E e \in fds : g = e \/ (g = Rested(e) /\ e.pid = ev.pid)
  BY <1>2 DEF Rested
<1>4. \A g \in fds' : g.pid = ev.pid => \E e \in fds : e.pid = ev.pid /\ g = Rested(e)
  BY <1>2, FdFields, ClearedOK DEF Rested
<1>5. Elsewhere(ev.pid) /\ OnlyOwn(ev.pid)
  BY <1>2, <1>3, RestedFields, ZenonT(30) DEF Elsewhere, OnlyOwn
<1> QED BY <1>2, <1>3, <1>4, <1>5

-----------------------------------------------------------------------------
(* What a process has open is in the table, or a FORK record still brings  *)
(* it.                                                                     *)

Looked(x) == IF world.threads THEN keep[x] ELSE open[x]

\* An entry that no sweep takes while its process has the descriptor.
Secure(e) == ~Doomed(e) \/ (InAttempt(e.pid) /\ ~world.threads /\ e.fd \notin keep[e.pid])

Known(x, d) == \E e \in fds : e.pid = x /\ e.fd = d /\ Secure(e)

ToCome(x, d) ==
    /\ \A e \in fds : ~(e.pid = x /\ e.fd = d)
    /\ <<x, d>> \notin closed_fds
    /\ \E y \in Pid : /\ <<y, x>> \in unannounced
                      /\ \E e \in fds : e.pid = y /\ e.fd = d /\ ~Doomed(e)

Entered(x, d) == Known(x, d) \/ ToCome(x, d)

\* The tables tell of processes that run, and no fork is inside another.
Peopled ==
    /\ \A e \in fds : e.pid \in alive
    /\ \A p, d : <<p, d>> \in closed_fds => p \in alive

OneParent ==
    \A y, z \in Pid : <<y, z>> \in unannounced =>
      /\ z \in alive /\ y # z
      /\ \A w \in Pid : <<z, w>> \notin unannounced /\ (<<w, z>> \in unannounced => w = y)

Covered ==
    ~err /\ Orderly => Peopled /\ OneParent /\ \A x \in Pid : \A d \in Looked(x) : Entered(x, d)

LEMMA KnownAtRest ==
    ASSUME NEW x, NEW d, Known(x, d), ~InAttempt(x) \/ world.threads \/ d \in keep[x]
    PROVE  \E e \in fds : e.pid = x /\ e.fd = d /\ ~Doomed(e)
BY DEF Known, Secure

LEMMA PeopledStep ==
    ASSUME NEW x \in alive, Peopled, Elsewhere(x), OnlyOwn(x), alive \subseteq alive'
    PROVE  Peopled'
BY DEF Peopled, Elsewhere, OnlyOwn

LEMMA EnteredElsewhere ==
    ASSUME NEW x \in Pid, NEW y \in Pid, y # x, NEW d, Elsewhere(x), OnlyOwn(x),
           world' = world, call'[y] = call[y], keep'[y] = keep[y], Entered(y, d),
           \A z \in Pid : <<z, y>> \in unannounced => <<z, y>> \in unannounced',
           <<x, y>> \notin unannounced \/ Retains(x, {})
    PROVE  Entered(y, d)'
<1>1. CASE Known(y, d)
  BY <1>1 DEF Entered, Known, Secure, InAttempt, Elsewhere
<1>2. CASE ToCome(y, d)
  <2>1. PICK z \in Pid : /\ <<z, y>> \in unannounced
                         /\ \E e \in fds : e.pid = z /\ e.fd = d /\ ~Doomed(e)
    BY <1>2 DEF ToCome
  <2>2. \E g \in fds' : g.pid = z /\ g.fd = d /\ ~Doomed(g)
    BY <2>1 DEF Elsewhere, Retains, Doomed
  <2>3. /\ \A e \in fds' : ~(e.pid = y /\ e.fd = d)
        /\ <<y, d>> \notin closed_fds'
    BY <1>2 DEF ToCome, Elsewhere, OnlyOwn
  <2> QED BY <2>1, <2>2, <2>3 DEF Entered, ToCome
<1> QED BY <1>1, <1>2 DEF Entered

LEMMA EnteredOwn ==
    ASSUME NEW x \in Pid, NEW d, NEW opening, NEW closing, Elsewhere(x),
           Retains(x, closing), Gains(x, opening), Forgets(x, closing),
           d \notin opening, d \notin closing, Entered(x, d), OneParent,
           ~InAttempt(x) \/ world.threads,
           \A z \in Pid : <<z, x>> \in unannounced => <<z, x>> \in unannounced'
    PROVE  Entered(x, d)'
<1>1. CASE Known(x, d)
  BY <1>1, KnownAtRest DEF Retains, Entered, Known, Secure, Doomed
<1>2. CASE ToCome(x, d)
  <2>1. PICK z \in Pid : /\ <<z, x>> \in unannounced
                         /\ \E e \in fds : e.pid = z /\ e.fd = d /\ ~Doomed(e)
    BY <1>2 DEF ToCome
  <2>2. \E g \in fds' : g.pid = z /\ g.fd = d /\ ~Doomed(g)
    BY <2>1 DEF Elsewhere, OneParent
  <2>3. /\ \A e \in fds' : ~(e.pid = x /\ e.fd = d)
        /\ <<x, d>> \notin closed_fds'
    BY <1>2 DEF ToCome, Gains, Forgets
  <2> QED BY <2>1, <2>2, <2>3 DEF Entered, ToCome
<1> QED BY <1>1, <1>2 DEF Entered

\* The guards of a process that logs for itself.
LEMMA UserFacts ==
    ASSUME RunInv, NEW x \in Pid, UserLogs(x), world' = world
    PROVE  /\ x \in alive /\ (Orderly => ~InAttempt(x) \/ world.threads)
           /\ Orderly => \A z \in Pid : <<x, z>> \notin unannounced
           /\ UNCHANGED <<alive, call, unannounced>>
<1>1. x \in alive /\ (~InAttempt(x) \/ world.threads) /\ UNCHANGED <<alive, call, unannounced>>
  BY DEF UserLogs, UserRuns, Free
<1>2. ASSUME Orderly, NEW z \in Pid
      PROVE  <<x, z>> \notin unannounced
  <2>1. CASE world.threads
    BY <1>2, <2>1 DEF Orderly, RunInv, Processes
  <2>2. CASE ~world.threads
    BY <2>2 DEF UserLogs, UserRuns, Free
  <2> QED BY <2>1, <2>2
<1> QED BY <1>1, <1>2

LEMMA CoveredOpens ==
    ASSUME ReplayAssumption, RunInv, Covered, NEW x \in Pid, NEW fd \in Fd, NEW survives,
           OpensFd(x, fd, survives), world' = world
    PROVE  Covered'
<1> SUFFICES ASSUME ~err', Orderly
             PROVE  Peopled' /\ OneParent' /\ \A y \in Pid : \A d \in Looked(y)' : Entered(y, d)'
  BY DEF Covered, Orderly
<1>1. PICK ev \in Inputs : ev.pid = x /\ ev.fd = fd /\ FdOpen(ev)
  BY DEF OpensFd
<1>2. Peopled /\ OneParent /\ \A y \in Pid : \A d \in Looked(y) : Entered(y, d)
  BY <1>1, RecordLogs DEF Logs, Covered
<1>3. /\ x \in alive /\ (~InAttempt(x) \/ world.threads) /\ \A z \in Pid : <<x, z>> \notin unannounced
      /\ UNCHANGED <<alive, call, unannounced>>
  BY UserFacts DEF OpensFd
<1>4. /\ open' = [open EXCEPT ![x] = @ \cup {fd}]
      /\ \A y \in Pid : y # x => keep'[y] = keep[y]
      /\ keep'[x] \subseteq keep[x] \cup {fd}
  BY DEF OpensFd, RunInv, RunTyped
<1>5. /\ Elsewhere(x) /\ OnlyOwn(x) /\ Retains(x, {}) /\ Gains(x, {fd}) /\ Forgets(x, {})
      /\ \E g \in fds' : g.pid = x /\ g.fd = fd /\ ~g.exec_pending
  BY <1>1, OpenTable DEF RunInv, RunTyped
<1>6. Peopled' /\ OneParent'
  <2>1. Peopled'
    BY <1>2, <1>3, <1>5, PeopledStep
  <2> QED BY <1>2, <1>3, <2>1 DEF OneParent
<1>7. ASSUME NEW y \in Pid, y # x, NEW d \in Looked(y)'
      PROVE  Entered(y, d)'
  <2>1. d \in Looked(y)
    BY <1>4, <1>7 DEF Looked, RunInv, RunTyped
  <2> QED BY <1>2, <1>3, <1>4, <1>5, <1>7, <2>1, EnteredElsewhere
<1>8. ASSUME NEW d \in Looked(x)'
      PROVE  Entered(x, d)'
  <2>1. CASE d = fd
    BY <1>5, <2>1 DEF Entered, Known, Secure, Doomed
  <2>2. CASE d # fd
    <3>1. d \in Looked(x)
      BY <1>4, <1>8, <2>2 DEF Looked, RunInv, RunTyped
    <3>2. d \notin {fd} /\ d \notin {}
      BY <2>2
    <3>3. Entered(x, d)
      BY <1>2, <3>1
    <3> QED BY <1>2, <1>3, <1>5, <3>2, <3>3, EnteredOwn
  <2> QED BY <2>1, <2>2
<1> QED BY <1>6, <1>7, <1>8

LEMMA CoveredCloses ==
    ASSUME ReplayAssumption, RunInv, Covered, NEW x \in Pid, NEW fd \in Fd, ClosesFd(x, fd),
           world' = world
    PROVE  Covered'
<1> SUFFICES ASSUME ~err', Orderly
             PROVE  Peopled' /\ OneParent' /\ \A y \in Pid : \A d \in Looked(y)' : Entered(y, d)'
  BY DEF Covered, Orderly
<1>1. PICK ev \in Inputs : ev.pid = x /\ ev.fd = fd /\ (FdClose(ev) \/ FdCloseStray(ev))
  BY DEF ClosesFd
<1>2. Peopled /\ OneParent /\ \A y \in Pid : \A d \in Looked(y) : Entered(y, d)
  BY <1>1, RecordLogs DEF Logs, Covered
<1>3. /\ x \in alive /\ (~InAttempt(x) \/ world.threads) /\ \A z \in Pid : <<x, z>> \notin unannounced
      /\ UNCHANGED <<alive, call, unannounced>>
  BY UserFacts DEF ClosesFd
<1>4. open' = [open EXCEPT ![x] = @ \ {fd}] /\ keep' = [keep EXCEPT ![x] = @ \ {fd}]
  BY DEF ClosesFd
<1>5. Elsewhere(x) /\ OnlyOwn(x) /\ Retains(x, {fd}) /\ Gains(x, {}) /\ Forgets(x, {fd})
  BY <1>1, CloseTable DEF RunInv, RunTyped
<1>6. Peopled' /\ OneParent'
  <2>1. Peopled'
    BY <1>2, <1>3, <1>5, PeopledStep
  <2> QED BY <1>2, <1>3, <2>1 DEF OneParent
<1>7. ASSUME NEW y \in Pid, y # x, NEW d \in Looked(y)'
      PROVE  Entered(y, d)'
  <2>1. d \in Looked(y) /\ keep'[y] = keep[y]
    BY <1>4, <1>7 DEF Looked, RunInv, RunTyped
  <2> QED BY <1>2, <1>3, <1>5, <1>7, <2>1, EnteredElsewhere
<1>8. ASSUME NEW d \in Looked(x)'
      PROVE  Entered(x, d)'
  <2>1. d \in Looked(x) /\ d \notin {fd} /\ d \notin {}
    BY <1>4, <1>8 DEF Looked, RunInv, RunTyped
  <2>2. Entered(x, d)
    BY <1>2, <2>1
  <2> QED BY <1>2, <1>3, <1>5, <2>1, <2>2, EnteredOwn
<1> QED BY <1>6, <1>7, <1>8

\* The steps of one process inside an exec say nothing of the others.
LEMMA CoveredAround ==
    ASSUME RunInv, Covered, Orderly, ~err, NEW x \in Pid, InAttempt(x), world' = world,
           \A y \in Pid : y # x => call'[y] = call[y],
           \A y \in Pid : y # x => keep'[y] = keep[y] /\ open'[y] = open[y],
           UNCHANGED <<alive, unannounced>>, Elsewhere(x), OnlyOwn(x),
           \A d \in Looked(x)' : Entered(x, d)'
    PROVE  Covered'
<1>1. Peopled /\ OneParent /\ \A y \in Pid : \A d \in Looked(y) : Entered(y, d)
  BY DEF Covered
<1>2. x \in alive /\ \A z \in Pid : <<x, z>> \notin unannounced
  <2>1. ASSUME NEW z \in Pid, <<x, z>> \in unannounced PROVE FALSE
    <3>1. <<x, z>>[1] = x
      OBVIOUS
    <3> QED BY <2>1, <3>1 DEF RunInv, Processes
  <2> QED BY <2>1 DEF RunInv, Processes
<1>3. Peopled' /\ OneParent'
  <2>1. Peopled'
    BY <1>1, <1>2, PeopledStep
  <2> QED BY <1>1, <2>1 DEF OneParent
<1>4. ASSUME NEW y \in Pid, y # x, NEW d \in Looked(y)'
      PROVE  Entered(y, d)'
  <2>1. d \in Looked(y)
    BY <1>4 DEF Looked
  <2> QED BY <1>1, <1>2, <1>4, <2>1, EnteredElsewhere
<1> QED BY <1>3, <1>4 DEF Covered

LEMMA CoveredSnapshot ==
    ASSUME ReplayAssumption, RunInv, Covered, NEW x \in Pid, NEW fd \in Fd, LogsSnapshot(x, fd),
           world' = world
    PROVE  Covered'
<1> SUFFICES ASSUME ~err', Orderly PROVE Covered'
  BY DEF Covered, Orderly
<1>1. PICK ev \in Inputs : /\ ev.pid = x /\ ev.fd = fd /\ ev.cloexec = (fd \notin keep[x])
                           /\ Exec(ev) \/ ExecUnknown(ev)
  BY DEF LogsSnapshot
<1>2. ~err /\ InAttempt(x) /\ OneParent /\ \A d \in Looked(x) : Entered(x, d)
  BY <1>1, RecordLogs DEF Logs, Covered, LogsSnapshot, RunInv, Processes
<1>3. UNCHANGED <<alive, open, keep, call, unannounced>>
  BY DEF LogsSnapshot
<1>4. /\ closed_fds' = closed_fds /\ Elsewhere(x) /\ OnlyOwn(x)
      /\ \/ fds' = fds /\ \A e \in fds : ~(e.pid = x /\ e.fd = fd)
         \/ \E e \in fds, m \in fds' :
              /\ e.pid = x /\ e.fd = fd /\ m.pid = x /\ m.fd = fd
              /\ Doomed(m) <=> fd \notin keep[x]
              /\ fds' = (fds \ {e}) \cup {m}
  BY <1>1, SnapshotTable, ZenonT(30) DEF RunInv, RunTyped
<1>5. ASSUME NEW d \in Looked(x)' PROVE Entered(x, d)'
  <2>1. d \in Looked(x) /\ Entered(x, d) /\ \A e : Secure(e)' <=> Secure(e)
    BY <1>2, <1>3, <1>5 DEF Looked, Secure, InAttempt, Doomed
  <2>2. CASE fds' = fds
    BY <1>3, <1>4, <2>1, <2>2 DEF Entered, Known, ToCome
  <2>3. CASE fds' # fds
    <3>1. PICK e \in fds, m \in fds' :
            /\ e.pid = x /\ e.fd = fd /\ m.pid = x /\ m.fd = fd
            /\ Doomed(m) <=> fd \notin keep[x]
            /\ fds' = (fds \ {e}) \cup {m}
      BY <1>4, <2>3
    <3>2. d = fd => Secure(m)
      BY <1>2, <2>1, <3>1 DEF Secure, Looked
    <3>3. CASE d = fd
      BY <2>1, <3>1, <3>2, <3>3 DEF Entered, Known
    <3>4. CASE d # fd /\ Known(x, d)
      BY <2>1, <3>1, <3>4 DEF Entered, Known
    <3>5. CASE d # fd /\ ToCome(x, d)
      BY <1>2, <1>3, <1>4, <3>1, <3>5 DEF Entered, ToCome, OneParent
    <3> QED BY <2>1, <3>3, <3>4, <3>5 DEF Entered
  <2> QED BY <2>2, <2>3
<1> QED BY <1>2, <1>3, <1>4, <1>5, CoveredAround

LEMMA CoveredReturns ==
    ASSUME ReplayAssumption, RunInv, Covered, NEW x \in Pid, ExecReturns(x), world' = world
    PROVE  Covered'
<1> SUFFICES ASSUME ~err', Orderly PROVE Covered'
  BY DEF Covered, Orderly
<1>1. PICK ev \in Inputs : ev.pid = x /\ ExecFail(ev)
  BY DEF ExecReturns
<1>2. ~err /\ InAttempt(x) /\ OneParent /\ \A d \in Looked(x) : Entered(x, d)
  BY <1>1, RecordLogs DEF Logs, Covered, ExecReturns, EndsAttempt
<1>3. /\ UNCHANGED <<alive, open, keep, unannounced>>
      /\ \A y \in Pid : y # x => call'[y] = call[y]
  BY DEF ExecReturns, EndsAttempt, RunInv, RunTyped
<1>4. /\ closed_fds' = closed_fds /\ Elsewhere(x) /\ OnlyOwn(x)
      /\ \A e \in fds : e.pid = x => Rested(e) \in fds'
      /\ \A g \in fds' : g.pid = x => \E e \in fds : e.pid = x /\ g = Rested(e)
  BY <1>1, FailTable DEF RunInv, RunTyped
<1>5. ASSUME NEW d \in Looked(x)' PROVE Entered(x, d)'
  <2>1. Entered(x, d)
    BY <1>2, <1>3, <1>5 DEF Looked
  <2>2. \A e \in fds : /\ Rested(e).pid = e.pid /\ Rested(e).fd = e.fd /\ ~Rested(e).exec_pending
    BY RestedFields DEF RunInv, RunTyped
  <2>3. CASE Known(x, d)
    BY <1>4, <2>2, <2>3 DEF Entered, Known, Secure, Doomed
  <2>4. CASE ToCome(x, d)
    <3>1. \A e \in fds' : ~(e.pid = x /\ e.fd = d)
      BY <1>4, <2>2, <2>4 DEF ToCome
    <3>2. PICK z \in Pid : /\ <<z, x>> \in unannounced
                           /\ \E e \in fds : e.pid = z /\ e.fd = d /\ ~Doomed(e)
      BY <2>4 DEF ToCome
    <3>3. \E e \in fds' : e.pid = z /\ e.fd = d /\ ~Doomed(e)
      BY <1>2, <1>4, <3>2 DEF Elsewhere, OneParent
    <3> QED BY <1>3, <1>4, <2>4, <3>1, <3>2, <3>3 DEF Entered, ToCome
  <2> QED BY <2>1, <2>3, <2>4 DEF Entered
<1> QED BY <1>2, <1>3, <1>4, <1>5, CoveredAround

LEMMA CoveredSucceeds ==
    ASSUME RunInv, Covered, NEW x \in Pid, ExecSucceeds(x), world' = world
    PROVE  Covered'
<1> SUFFICES ASSUME ~err', Orderly PROVE Covered'
  BY DEF Covered, Orderly
<1>1. /\ UNCHANGED <<fds, closed_fds, err, alive, keep, unannounced>>
      /\ open' = [open EXCEPT ![x] = keep[x]] /\ InAttempt(x)
      /\ \A y \in Pid : y # x => call'[y] = call[y]
  BY DEF ExecSucceeds, EndsAttempt, vars, RunInv, RunTyped
<1>2. ~err /\ \A d \in Looked(x) : Entered(x, d)
  BY <1>1 DEF Covered
<1>3. Elsewhere(x) /\ OnlyOwn(x)
  BY <1>1 DEF Elsewhere, OnlyOwn
<1>4. ASSUME NEW d \in Looked(x)' PROVE Entered(x, d)'
  <2>1. d \in keep[x] /\ d \in Looked(x)
    BY <1>1, <1>4 DEF Looked, RunInv, RunTyped, Processes
  <2>2. CASE Known(x, d)
    BY <1>1, <2>1, <2>2, KnownAtRest DEF Entered, Known, Secure, Doomed
  <2>3. CASE ToCome(x, d)
    BY <1>1, <2>3 DEF Entered, ToCome
  <2> QED BY <1>2, <2>1, <2>2, <2>3 DEF Entered
<1>5. \A y \in Pid : y # x => keep'[y] = keep[y] /\ open'[y] = open[y]
  BY <1>1 DEF RunInv, RunTyped
<1> QED BY <1>1, <1>2, <1>3, <1>4, <1>5, CoveredAround

LEMMA CoveredStarts ==
    ASSUME RunInv, Covered, NEW x \in Pid, NEW g, StartsExec(x, g), world' = world
    PROVE  Covered'
<1> SUFFICES ASSUME ~err', Orderly
             PROVE  Peopled' /\ OneParent' /\ \A y \in Pid : \A d \in Looked(y)' : Entered(y, d)'
  BY DEF Covered, Orderly
<1>1. /\ UNCHANGED <<fds, closed_fds, err, alive, open, keep, unannounced>> /\ ~InAttempt(x)
      /\ \A y \in Pid : y # x => call'[y] = call[y]
  BY DEF StartsExec, Free, vars, RunInv, RunTyped
<1>2. Peopled /\ OneParent /\ \A y \in Pid : \A d \in Looked(y) : Entered(y, d)
  BY <1>1 DEF Covered
<1>3. Peopled' /\ OneParent'
  BY <1>1, <1>2 DEF Peopled, OneParent
<1>4. ASSUME NEW y \in Pid, NEW d \in Looked(y)' PROVE Entered(y, d)'
  <2>1. Entered(y, d)
    BY <1>1, <1>2, <1>4 DEF Looked
  <2>2. CASE ToCome(y, d)
    BY <1>1, <2>2 DEF Entered, ToCome
  <2>3. CASE Known(y, d) /\ y = x
    BY <1>1, <2>3, KnownAtRest DEF Entered, Known, Secure
  <2>4. CASE Known(y, d) /\ y # x
    BY <1>1, <2>4 DEF Entered, Known, Secure, InAttempt
  <2> QED BY <2>1, <2>2, <2>3, <2>4 DEF Entered
<1> QED BY <1>3, <1>4

\* A child whose FORK record is still to come.
LEMMA CoveredForksLate ==
    ASSUME RunInv, Covered, NEW x \in Pid, NEW child \in Pid, Forks(x, child), world.late_fork,
           world' = world
    PROVE  Covered'
<1> SUFFICES ASSUME ~err', Orderly
             PROVE  Peopled' /\ OneParent' /\ \A y \in Pid : \A d \in Looked(y)' : Entered(y, d)'
  BY DEF Covered, Orderly
<1>1. /\ UNCHANGED <<fds, closed_fds, err, call>> /\ alive' = alive \cup {child}
      /\ unannounced' = unannounced \cup {<<x, child>>}
      /\ x \in alive /\ ~InAttempt(x) /\ child \notin alive
      /\ \A z \in Pid : <<x, z>> \notin unannounced
  BY DEF Forks, Free, vars
<1>2. Peopled /\ OneParent /\ \A y \in Pid : \A d \in Looked(y) : Entered(y, d)
  BY <1>1 DEF Covered
<1>3. \A z \in Pid : <<z, x>> \notin unannounced
  BY DEF Forks, Orderly
<1>4. ~world.threads /\ open' = [open EXCEPT ![child] = open[x]]
      /\ keep' = [keep EXCEPT ![child] = keep[x]]
  BY DEF Orderly, Forks
<1>5. Peopled' /\ OneParent'
  <2>1. Peopled'
    BY <1>1, <1>2 DEF Peopled
  <2>2. ASSUME NEW y \in Pid, NEW z \in Pid, <<y, z>> \in unannounced'
        PROVE  /\ z \in alive' /\ y # z
               /\ \A w \in Pid : <<z, w>> \notin unannounced' /\ (<<w, z>> \in unannounced' => w = y)
    <3>1. \A w \in Pid : <<child, w>> \notin unannounced /\ <<w, child>> \notin unannounced
      <4>1. ASSUME NEW w \in Pid, <<child, w>> \in unannounced PROVE FALSE
        <5>1. <<child, w>>[1] = child
          OBVIOUS
        <5> QED BY <1>1, <4>1, <5>1 DEF RunInv, Processes
      <4> QED BY <1>1, <1>2, <4>1 DEF OneParent
    <3>2. CASE <<y, z>> \in unannounced
      BY <1>1, <1>2, <1>3, <3>1, <3>2 DEF OneParent
    <3>3. CASE y = x /\ z = child
      BY <1>1, <3>1, <3>3
    <3> QED BY <1>1, <2>2, <3>2, <3>3
  <2> QED BY <2>1, <2>2 DEF OneParent
<1>6. ASSUME NEW y \in Pid, y # child, NEW d \in Looked(y)' PROVE Entered(y, d)'
  <2>1. Entered(y, d)
    BY <1>2, <1>4, <1>6 DEF Looked, RunInv, RunTyped
  <2>2. CASE ToCome(y, d)
    BY <1>1, <2>2 DEF Entered, ToCome
  <2>3. CASE Known(y, d)
    BY <1>1, <1>4, <1>6, <2>3 DEF Entered, Known, Secure, InAttempt, RunInv, RunTyped
  <2> QED BY <2>1, <2>2, <2>3 DEF Entered
<1>7. ASSUME NEW d \in Looked(child)' PROVE Entered(child, d)'
  <2>1. d \in open[x] /\ Entered(x, d)
    BY <1>2, <1>4, <1>7 DEF Looked, RunInv, RunTyped
  <2>2. \E e \in fds : e.pid = x /\ e.fd = d /\ ~Doomed(e)
    <3>1. Known(x, d)
      BY <1>3, <2>1 DEF Entered, ToCome
    <3> QED BY <1>1, <3>1, KnownAtRest
  <2>3. \A e \in fds : ~(e.pid = child /\ e.fd = d)
    BY <1>1, <1>2 DEF Peopled
  <2>4. <<child, d>> \notin closed_fds
    BY <1>1, <1>2 DEF Peopled
  <2>5. ToCome(child, d)'
    BY <1>1, <2>2, <2>3, <2>4 DEF ToCome
  <2> QED BY <2>5 DEF Entered
<1> QED BY <1>5, <1>6, <1>7

\* The FORK record gives a child what its parent has; the others are bystanders.
LEMMA CoveredForkRecord ==
    ASSUME ReplayAssumption, RunInv, NEW x \in alive, ~InAttempt(x), NEW child \in Pid, child # x,
           NEW ev \in Inputs, ev.pid = x, ev.child_pid = child, Fork(ev), ~err',
           Peopled, OneParent, world' = world, call' = call, child \in alive', alive \subseteq alive',
           \A y \in Pid : y # child => keep'[y] = keep[y],
           \A y, z \in Pid : <<y, z>> \in unannounced /\ z # child => <<y, z>> \in unannounced',
           \A z \in Pid : <<z, x>> \notin unannounced,
           \A z \in Pid : <<z, child>> \in unannounced => z = x
    PROVE  /\ Peopled'
           /\ \A y \in Pid : \A d : y # child /\ Entered(y, d) => Entered(y, d)'
           /\ \A d : ToCome(child, d) => Known(child, d)'
           /\ \A d : Known(child, d) /\ keep'[child] = keep[child] => Known(child, d)'
           /\ \A d : Known(x, d) /\ child \notin alive => Known(child, d)'
<1>1. /\ Elsewhere(x) /\ Retains(x, {}) /\ Gains(x, {}) /\ Forgets(x, {})
      /\ \A g \in fds' : g.pid # x => g \in fds \/ g.pid = child
      /\ \A e \in fds : /\ e.pid = x /\ ~Doomed(e)
                        /\ \A g \in fds : ~(g.pid = child /\ g.fd = e.fd)
                        /\ <<child, e.fd>> \notin closed_fds
           => \E g \in fds' : g.pid = child /\ g.fd = e.fd /\ ~g.exec_pending
  BY ForkTableWhole DEF RunInv, RunTyped
<1>2. x \in Pid
  BY DEF RunInv, RunTyped
<1>3. Peopled'
  BY <1>1 DEF Peopled, Elsewhere
<1>4. ASSUME NEW y \in Pid, NEW d, y # child, Entered(y, d) PROVE Entered(y, d)'
  <2>1. CASE y = x
    <3>1. d \notin {} /\ \A z \in Pid : <<z, x>> \in unannounced => <<z, x>> \in unannounced'
      OBVIOUS
    <3> QED BY <1>1, <1>2, <1>4, <2>1, <3>1, EnteredOwn
  <2>2. CASE y # x /\ Known(y, d)
    BY <1>1, <1>4, <2>2 DEF Entered, Known, Secure, InAttempt, Elsewhere
  <2>3. CASE y # x /\ ToCome(y, d)
    <3>1. PICK z \in Pid : /\ <<z, y>> \in unannounced
                           /\ \E e \in fds : e.pid = z /\ e.fd = d /\ ~Doomed(e)
      BY <2>3 DEF ToCome
    <3>2. \E g \in fds' : g.pid = z /\ g.fd = d /\ ~Doomed(g)
      BY <1>1, <3>1 DEF Elsewhere, Retains, Doomed
    <3>3. /\ \A e \in fds' : ~(e.pid = y /\ e.fd = d)
          /\ <<y, d>> \notin closed_fds'
      BY <1>1, <1>4, <2>3 DEF ToCome, Elsewhere
    <3> QED BY <1>4, <3>1, <3>2, <3>3 DEF Entered, ToCome
  <2> QED BY <1>4, <2>1, <2>2, <2>3 DEF Entered
<1>5. ASSUME NEW d, ToCome(child, d) PROVE Known(child, d)'
  BY <1>1, <1>5 DEF ToCome, Known, Secure, Doomed
<1>6. ASSUME NEW d, Known(child, d), keep'[child] = keep[child] PROVE Known(child, d)'
  BY <1>1, <1>6 DEF Known, Secure, InAttempt, Elsewhere
<1>7. ASSUME NEW d, Known(x, d), child \notin alive PROVE Known(child, d)'
  <2>1. PICK e \in fds : e.pid = x /\ e.fd = d /\ ~Doomed(e)
    BY <1>7, KnownAtRest
  <2>2. \A g \in fds : ~(g.pid = child /\ g.fd = e.fd)
    BY <1>7 DEF Peopled
  <2>3. <<child, e.fd>> \notin closed_fds
    BY <1>7 DEF Peopled
  <2> QED BY <1>1, <2>1, <2>2, <2>3 DEF Known, Secure, Doomed
<1> QED BY <1>3, <1>4, <1>5, <1>6, <1>7

LEMMA CoveredForksNow ==
    ASSUME ReplayAssumption, RunInv, Covered, NEW x \in Pid, NEW child \in Pid, Forks(x, child),
           ~world.late_fork, world' = world
    PROVE  Covered'
<1> SUFFICES ASSUME ~err', Orderly
             PROVE  Peopled' /\ OneParent' /\ \A y \in Pid : \A d \in Looked(y)' : Entered(y, d)'
  BY DEF Covered, Orderly
<1>1. PICK ev \in Inputs : ev.pid = x /\ ev.child_pid = child /\ Fork(ev)
  BY DEF Forks
<1>2. Peopled /\ OneParent /\ \A y \in Pid : \A d \in Looked(y) : Entered(y, d)
  BY <1>1, RecordLogs DEF Logs, Covered
<1>3. /\ x \in alive /\ ~InAttempt(x) /\ child \notin alive /\ child # x
      /\ UNCHANGED <<call, unannounced>> /\ unannounced = {} /\ alive' = alive \cup {child}
      /\ open' = [open EXCEPT ![child] = open[x]] /\ keep' = [keep EXCEPT ![child] = keep[x]]
  BY DEF Forks, Free, RunInv, Processes
<1>4. \A y \in Pid : y # child => keep'[y] = keep[y] /\ open'[y] = open[y]
  BY <1>3 DEF RunInv, RunTyped
<1>5. /\ Peopled'
      /\ \A y \in Pid : \A d : y # child /\ Entered(y, d) => Entered(y, d)'
      /\ \A d : Known(x, d) /\ child \notin alive => Known(child, d)'
  BY <1>1, <1>2, <1>3, <1>4, CoveredForkRecord
<1>6. OneParent'
  BY <1>3 DEF OneParent
<1>7. ASSUME NEW y \in Pid, y # child, NEW d \in Looked(y)' PROVE Entered(y, d)'
  BY <1>2, <1>4, <1>5, <1>7 DEF Looked
<1>8. ASSUME NEW d \in Looked(child)' PROVE Entered(child, d)'
  <2>1. d \in Looked(x)
    BY <1>3, <1>8 DEF Looked, RunInv, RunTyped
  <2>2. Known(x, d)
    BY <1>2, <1>3, <2>1 DEF Entered, ToCome
  <2> QED BY <1>3, <1>5, <2>2 DEF Entered
<1> QED BY <1>5, <1>6, <1>7, <1>8

LEMMA CoveredLogsFork ==
    ASSUME ReplayAssumption, RunInv, Covered, NEW x \in Pid, NEW child \in Pid, LogsFork(x, child),
           world' = world
    PROVE  Covered'
<1> SUFFICES ASSUME ~err', Orderly
             PROVE  Peopled' /\ OneParent' /\ \A y \in Pid : \A d \in Looked(y)' : Entered(y, d)'
  BY DEF Covered, Orderly
<1>1. PICK ev \in Inputs : ev.pid = x /\ ev.child_pid = child /\ Fork(ev)
  BY DEF LogsFork
<1>2. Peopled /\ OneParent /\ \A y \in Pid : \A d \in Looked(y) : Entered(y, d)
  BY <1>1, RecordLogs DEF Logs, Covered
<1>3. /\ <<x, child>> \in unannounced /\ unannounced' = unannounced \ {<<x, child>>}
      /\ UNCHANGED <<alive, open, keep, call>>
  BY DEF LogsFork
<1>4. x \in alive /\ ~InAttempt(x)
  <2>1. <<x, child>>[1] = x
    OBVIOUS
  <2> QED BY <1>3, <2>1 DEF RunInv, Processes
<1>5. /\ child \in alive /\ child # x
      /\ \A z \in Pid : <<z, x>> \notin unannounced /\ (<<z, child>> \in unannounced => z = x)
  BY <1>2, <1>3 DEF OneParent
<1>6. \A y, z \in Pid : <<y, z>> \in unannounced /\ z # child => <<y, z>> \in unannounced'
  BY <1>3
<1>7. /\ Peopled'
      /\ \A y \in Pid : \A d : y # child /\ Entered(y, d) => Entered(y, d)'
      /\ \A d : ToCome(child, d) => Known(child, d)'
      /\ \A d : Known(child, d) /\ keep'[child] = keep[child] => Known(child, d)'
  BY <1>1, <1>2, <1>3, <1>4, <1>5, <1>6, CoveredForkRecord
<1>8. OneParent'
  BY <1>2, <1>3 DEF OneParent
<1>9. ASSUME NEW y \in Pid, NEW d \in Looked(y)' PROVE Entered(y, d)'
  <2>1. Entered(y, d)
    BY <1>2, <1>3, <1>9 DEF Looked
  <2> QED BY <1>3, <1>7, <2>1 DEF Entered
<1> QED BY <1>7, <1>8, <1>9

LEMMA CoveredStep ==
    ASSUME ReplayAssumption, RunAssumption, RunInv, Covered, [RunNext]_runVars
    PROVE  Covered'
<1>1. CASE UNCHANGED runVars
  <2>1. UNCHANGED <<fds, closed_fds, err, world, alive, open, keep, call, unannounced>>
    BY <1>1 DEF runVars, procs, vars
  <2>2. Peopled' <=> Peopled
    BY <2>1 DEF Peopled
  <2>3. OneParent' <=> OneParent
    BY <2>1 DEF OneParent
  <2>4. \A x : Looked(x)' = Looked(x)
    BY <2>1 DEF Looked
  <2>5. \A x, d : Entered(x, d)' <=> Entered(x, d)
    BY <2>1 DEF Entered, Known, ToCome, Secure, InAttempt
  <2> QED BY <2>1, <2>2, <2>3, <2>4, <2>5 DEF Covered, Orderly
<1>2. CASE RunNext
  <2>1. PICK x \in Pid : Runs(x)
    BY <1>2 DEF RunNext
  <2>2. world' = world /\ world.fds \subseteq Fd
    BY <1>2, WorldTyped DEF RunNext, RunInv, RunTyped
  <2>3. ASSUME Exits(x) PROVE Covered'
    BY <2>2, <2>3 DEF Exits, Covered, Orderly
  <2>4. ASSUME NEW child \in Pid, Forks(x, child) PROVE Covered'
    BY <2>2, <2>4, CoveredForksLate, CoveredForksNow
  <2> QED BY <2>1, <2>2, <2>3, <2>4, CoveredOpens, CoveredCloses, CoveredLogsFork, CoveredStarts,
             CoveredSnapshot, CoveredSucceeds, CoveredReturns DEF Runs
<1> QED BY <1>1, <1>2

LEMMA CoveredHolds ==
    ASSUME ReplayAssumption, RunAssumption
    PROVE  RunSpec => []Covered
<1>1. RunInit => Covered
  BY DEF RunInit, Init, Covered, Peopled, OneParent, Looked
<1>2. RunInv /\ Covered /\ [RunNext]_runVars => Covered'
  BY CoveredStep
<1> QED BY <1>1, <1>2, RunInvHolds, PTL DEF RunSpec

\* What a process has open is in the table once every fork is known, also when images
\* exec at once, and when children log before their FORK record; where other
\* threads log inside an exec, what is not close-on-exec is (model.c:24-27, 161-190,
\* 302-328).
THEOREM TheTableCovers == RunSpec => []TableCoversOpen
<1> USE ReplayAssumption, RunAssumption
<1>1. Covered => TableCoversOpen
  BY DEF Covered, TableCoversOpen, Quiescent, Looked, Entered, Known, ToCome, Entries
<1> QED BY <1>1, CoveredHolds, PTL

-----------------------------------------------------------------------------
(* Every descriptor that crossed is reported.                              *)

\* What crossed is reported, and no EXEC_FAIL of its process is still to come: the
\* process has logged something since, or it runs a new image and will not be
\* inside an exec before it does.
CrossedFound ==
    \A n \in crossed :
      /\ n \in Log /\ n \in Reported
      /\ \A p \in Pid : resources[n].pid = p => p \in fresh \/ ~AtExec(n, p)

\* So is what will cross if the open attempt succeeds.
SnapshotsFound ==
    \A x \in Pid : \A d, n : <<d, n>> \in snapshots[x] =>
      /\ d \in open[x] /\ n \in Log /\ resources[n].pid = x
      /\ d \in keep[x] => n \in Reported

AllFound == ~err /\ ~world.reexec /\ Announced => CrossedFound /\ SnapshotsFound

LEMMA LogLater ==
    ASSUME TypeOK, NEW ev, Logs(ev)
    PROVE  /\ Sequence \in Log' /\ resources'[Sequence] = ev
           /\ \A n \in Log : /\ n \in Log' /\ resources'[n] = resources[n]
                             /\ \A p : ~AtExec(n, p) => ~AtExec(n, p)'
                             /\ ev.kind # "EXEC" => ~AtExec(n, ev.pid)'
<1>1. resources \in Seq(Inputs) /\ Len(resources) \in Nat /\ Appends(ev)
  BY DEF TypeOK, Logs
<1>2. /\ Log \subseteq Log' /\ \A i \in Log : resources'[i] = resources[i]
      /\ Sequence \in Log' /\ resources'[Sequence] = ev
  BY <1>1, AppendedLog DEF Sequence
<1>3. \A n \in Log : Sequence >= n
  BY <1>1 DEF Log, Sequence
<1>4. ASSUME NEW n \in Log, NEW p, ~AtExec(n, p) PROVE ~AtExec(n, p)'
  BY <1>2, <1>4 DEF AtExec
<1>5. ASSUME NEW n \in Log, ev.kind # "EXEC" PROVE ~AtExec(n, ev.pid)'
  BY <1>2, <1>3, <1>5 DEF AtExec
<1> QED BY <1>2, <1>4, <1>5

LEMMA CrossedKept ==
    ASSUME TypeOK, NEW ev, Logs(ev), CrossedFound, Reported \subseteq Reported', crossed' = crossed,
           fresh' = fresh \/ (fresh' = fresh \ {ev.pid} /\ ev.kind # "EXEC")
    PROVE  CrossedFound'
<1> SUFFICES ASSUME NEW n \in crossed
             PROVE  /\ n \in Log' /\ n \in Reported'
                    /\ \A p \in Pid : resources'[n].pid = p => p \in fresh' \/ ~AtExec(n, p)'
  BY DEF CrossedFound
<1>1. /\ n \in Log /\ n \in Reported
      /\ \A p \in Pid : resources[n].pid = p => p \in fresh \/ ~AtExec(n, p)
  BY DEF CrossedFound
<1>2. /\ n \in Log' /\ resources'[n] = resources[n]
      /\ \A p : ~AtExec(n, p) => ~AtExec(n, p)'
      /\ ev.kind # "EXEC" => ~AtExec(n, ev.pid)'
  BY <1>1, LogLater
<1> QED BY <1>1, <1>2

\* Steps that leave the snapshots of open attempts alone, or drop some of them.
LEMMA SnapshotsKept ==
    ASSUME SnapshotsFound, Reported \subseteq Reported',
           \A n \in Log : n \in Log' /\ resources'[n] = resources[n],
           \A y \in Pid : \A d, n : <<d, n>> \in snapshots'[y] =>
             /\ <<d, n>> \in snapshots[y]
             /\ d \in open[y] => d \in open'[y] /\ (d \in keep'[y] => d \in keep[y])
    PROVE  SnapshotsFound'
BY DEF SnapshotsFound

LEMMA FoundLogging ==
    ASSUME RunInv, NEW ev \in Inputs, ~err',
           FdOpen(ev) \/ FdClose(ev) \/ FdCloseStray(ev) \/ Fork(ev),
           ~err => CrossedFound /\ SnapshotsFound,
           crossed' = crossed, fresh' = fresh \ {ev.pid},
           \A y \in Pid : \A d, n : <<d, n>> \in snapshots'[y] =>
             /\ <<d, n>> \in snapshots[y]
             /\ d \in open[y] => d \in open'[y] /\ (d \in keep'[y] => d \in keep[y])
    PROVE  CrossedFound' /\ SnapshotsFound'
<1>1. Logs(ev) /\ ~err /\ TypeOK
  BY RecordLogs DEF Logs, RunInv, RunTyped
<1>2. Reported' = Reported
  BY FindingsAlone DEF Reported, InheritFindings
<1>3. ev.kind # "EXEC"
  BY DEF FdOpen, FdClose, FdCloseStray, Fork
<1>4. CrossedFound'
  BY <1>1, <1>2, <1>3, CrossedKept
<1>5. \A n \in Log : n \in Log' /\ resources'[n] = resources[n]
  BY <1>1, LogLater
<1>6. SnapshotsFound'
  BY <1>1, <1>2, <1>5, SnapshotsKept
<1> QED BY <1>4, <1>6

LEMMA FoundUserLogs ==
    ASSUME RunInv, AllFound, world' = world, NEW x \in Pid, NEW fd \in Fd,
           ClosesFd(x, fd) \/ OpensFd(x, fd, TRUE) \/ OpensFd(x, fd, FALSE)
    PROVE  AllFound'
<1> SUFFICES ASSUME ~err', ~world.reexec, Announced
             PROVE  CrossedFound' /\ SnapshotsFound'
  BY DEF AllFound, Announced
<1>1. PICK ev \in Inputs : ev.pid = x /\ (FdOpen(ev) \/ FdClose(ev) \/ FdCloseStray(ev))
  BY DEF ClosesFd, OpensFd
<1>2. crossed' = crossed /\ fresh' = fresh \ {x}
  BY DEF ClosesFd, OpensFd, UserLogs
<1>3. ASSUME NEW y \in Pid, NEW d, NEW n, <<d, n>> \in snapshots'[y]
      PROVE  /\ <<d, n>> \in snapshots[y]
             /\ d \in open[y] => d \in open'[y] /\ (d \in keep'[y] => d \in keep[y])
  <2>1. CASE ClosesFd(x, fd)
    <3>1. y = x => d # fd
      BY <1>3, <2>1 DEF ClosesFd, RunInv, RunTyped
    <3> QED BY <1>3, <2>1, <3>1 DEF ClosesFd, RunInv, RunTyped
  <2>2. CASE OpensFd(x, fd, TRUE) \/ OpensFd(x, fd, FALSE)
    BY <1>3, <2>2 DEF OpensFd, RunInv, RunTyped
  <2> QED BY <2>1, <2>2
<1> QED BY <1>1, <1>2, <1>3, FoundLogging DEF AllFound

LEMMA FoundForks ==
    ASSUME RunInv, AllFound, world' = world, NEW x \in Pid, NEW child \in Pid, Forks(x, child)
    PROVE  AllFound'
<1> SUFFICES ASSUME ~err', ~world.reexec, Announced
             PROVE  CrossedFound' /\ SnapshotsFound'
  BY DEF AllFound, Announced
<1>1. PICK ev \in Inputs : ev.pid = x /\ Fork(ev)
  BY DEF Forks, Announced
<1>2. /\ crossed' = crossed /\ fresh' = fresh \ {x} /\ snapshots' = snapshots
      /\ open' = [open EXCEPT ![child] = open[x]] /\ keep' = [keep EXCEPT ![child] = keep[x]]
      /\ child \notin alive
  BY DEF Forks, Announced
<1>3. snapshots[child] = {}
  BY <1>2 DEF RunInv, Processes
<1>4. ASSUME NEW y \in Pid, NEW d, NEW n, <<d, n>> \in snapshots'[y]
      PROVE  /\ <<d, n>> \in snapshots[y]
             /\ d \in open[y] => d \in open'[y] /\ (d \in keep'[y] => d \in keep[y])
  BY <1>2, <1>3, <1>4 DEF RunInv, RunTyped
<1> QED BY <1>1, <1>2, <1>4, FoundLogging DEF AllFound

LEMMA FoundSnapshot ==
    ASSUME RunInv, AllFound, Covered, world' = world, NEW x \in Pid, NEW fd \in Fd,
           LogsSnapshot(x, fd)
    PROVE  AllFound'
<1> SUFFICES ASSUME ~err', ~world.reexec, Announced
             PROVE  CrossedFound' /\ SnapshotsFound'
  BY DEF AllFound, Announced
<1>1. PICK ev \in Inputs : /\ ev.pid = x /\ ev.fd = fd /\ ev.cloexec = (fd \notin keep[x])
                           /\ Exec(ev) \/ ExecUnknown(ev)
  BY DEF LogsSnapshot
<1>2. /\ Logs(ev) /\ ~err /\ TypeOK /\ CrossedFound /\ SnapshotsFound
  BY <1>1, RecordLogs DEF Logs, RunInv, RunTyped, AllFound
<1>3. /\ UNCHANGED <<open, keep, fresh, crossed>> /\ fd \in open[x]
      /\ snapshots' = [snapshots EXCEPT ![x] = @ \cup {<<fd, Sequence>>}]
  BY DEF LogsSnapshot, RunInv, Processes
<1>4. findings \subseteq findings'
  BY <1>1, SnapshotFinds, FindingsAlone
<1>5. Reported \subseteq Reported'
  BY <1>4 DEF Reported, InheritFindings
<1>6. CrossedFound'
  BY <1>2, <1>3, <1>5, CrossedKept
<1>7. fd \in keep[x] => Sequence \in Reported'
  <2> SUFFICES ASSUME fd \in keep[x] PROVE Sequence \in Reported'
    OBVIOUS
  <2>1. unannounced = {} /\ Orderly
    BY DEF Announced, Orderly, RunInv, Processes
  <2>2. \E e \in fds : e.pid = x /\ e.fd = fd
    <3>1. Entered(x, fd)
      BY <1>2, <1>3, <2>1 DEF Covered, Looked
    <3> QED BY <2>1, <3>1 DEF Entered, Known, ToCome
  <2>3. Exec(ev)
    <3>1. SettledFds(ev) = fds
      <4>1. ev.kind = "EXEC"
        BY <1>1 DEF Exec, ExecUnknown
      <4> QED BY <4>1, ExecSettlesNothing
    <3> QED BY <1>1, <2>2, <3>1 DEF ExecUnknown, Entries
  <2>4. PICK e \in fds : InheritFinding(ev, e) \in findings'
    BY <1>1, <2>3, SnapshotFinds
  <2>5. InheritFinding(ev, e).kind = "EXEC_INHERIT" /\ InheritFinding(ev, e).sequence = Sequence
    BY DEF InheritFinding
  <2> QED BY <2>4, <2>5 DEF Reported, InheritFindings
<1>8. SnapshotsFound'
  <2> SUFFICES ASSUME NEW y \in Pid, NEW d, NEW n, <<d, n>> \in snapshots'[y]
               PROVE  /\ d \in open'[y] /\ n \in Log' /\ resources'[n].pid = y
                      /\ d \in keep'[y] => n \in Reported'
    BY DEF SnapshotsFound
  <2>1. \A i \in Log : i \in Log' /\ resources'[i] = resources[i]
    BY <1>2, LogLater
  <2>2. Sequence \in Log' /\ resources'[Sequence] = ev
    BY <1>2, LogLater
  <2>3. CASE <<d, n>> \in snapshots[y]
    BY <1>2, <1>3, <1>5, <2>1, <2>3 DEF SnapshotsFound
  <2>4. CASE <<d, n>> \notin snapshots[y]
    <3>1. y = x /\ d = fd /\ n = Sequence
      BY <1>3, <2>4 DEF RunInv, RunTyped
    <3> QED BY <1>1, <1>3, <1>7, <2>2, <3>1
  <2> QED BY <2>3, <2>4
<1> QED BY <1>6, <1>8

LEMMA FoundSucceeds ==
    ASSUME RunInv, AllFound, world' = world, NEW x \in Pid, ExecSucceeds(x)
    PROVE  AllFound'
<1> SUFFICES ASSUME ~err', ~world.reexec, Announced
             PROVE  CrossedFound' /\ SnapshotsFound'
  BY DEF AllFound, Announced
<1>1. /\ UNCHANGED <<resources, findings, err, keep>> /\ fresh' = fresh \cup {x}
      /\ crossed' = crossed \cup {n[2] : n \in {m \in snapshots[x] : m[1] \in keep[x]}}
      /\ snapshots' = [snapshots EXCEPT ![x] = {}] /\ open' = [open EXCEPT ![x] = keep[x]]
  BY DEF ExecSucceeds, EndsAttempt, vars
<1>2. CrossedFound /\ SnapshotsFound /\ Log' = Log /\ Reported' = Reported
  BY <1>1 DEF AllFound, Log, Reported, InheritFindings
<1>3. ASSUME NEW n \in crossed', n \notin crossed
      PROVE  n \in Log /\ n \in Reported /\ resources[n].pid = x
  <2>1. PICK m \in snapshots[x] : m[1] \in keep[x] /\ n = m[2]
    BY <1>1, <1>3
  <2>2. m = <<m[1], m[2]>>
    BY DEF RunInv, RunTyped
  <2> QED BY <1>2, <2>1, <2>2 DEF SnapshotsFound
<1>4. \A n \in Log : \A p : AtExec(n, p)' <=> AtExec(n, p)
  BY <1>1, <1>2 DEF AtExec
<1>5. CrossedFound'
  BY <1>1, <1>2, <1>3, <1>4 DEF CrossedFound
<1>6. SnapshotsFound'
  BY <1>1, <1>2 DEF SnapshotsFound, RunInv, RunTyped
<1> QED BY <1>5, <1>6

LEMMA FoundReturns ==
    ASSUME RunInv, AllFound, world' = world, NEW x \in Pid, ExecReturns(x)
    PROVE  AllFound'
<1> SUFFICES ASSUME ~err', ~world.reexec, Announced
             PROVE  CrossedFound' /\ SnapshotsFound'
  BY DEF AllFound, Announced
<1>1. PICK ev \in Inputs : ev.pid = x /\ ExecFail(ev)
  BY DEF ExecReturns
<1>2. Logs(ev) /\ ~err /\ TypeOK /\ CrossedFound /\ SnapshotsFound
  BY <1>1, RecordLogs DEF Logs, RunInv, RunTyped, AllFound
<1>3. /\ UNCHANGED <<open, keep, crossed>> /\ fresh' = fresh \ {x} /\ x \notin fresh
      /\ snapshots' = [snapshots EXCEPT ![x] = {}]
  BY DEF ExecReturns, EndsAttempt, RunInv, Processes
<1>4. findings' = {f \in findings : ~FindingMatches(f, ev)} /\ ev.kind = "EXEC_FAIL"
  BY <1>1 DEF ExecFail
\* Only findings of records that x has just logged are taken back.
<1>5. ASSUME NEW n \in Log, n \in Reported, resources[n].pid # x \/ ~AtExec(n, x)
      PROVE  n \in Reported'
  <2>1. PICK f \in findings : f.kind = "EXEC_INHERIT" /\ f.sequence = n
    BY <1>5 DEF Reported, InheritFindings
  <2>2. n .. Len(resources) \subseteq Log /\ n \in n .. Len(resources)
        /\ \A i \in Log : i >= n => i \in n .. Len(resources)
    BY <1>2 DEF Log, TypeOK
  <2>3. ~FindingMatches(f, ev)
    BY <1>1, <1>5, <2>1, <2>2 DEF FindingMatches, AttemptMatches, AtExec
  <2> QED BY <1>4, <2>1, <2>3 DEF Reported, InheritFindings
<1>6. \A n \in Log : /\ n \in Log' /\ resources'[n] = resources[n]
                     /\ \A p : ~AtExec(n, p) => ~AtExec(n, p)'
                     /\ ~AtExec(n, x)'
  BY <1>1, <1>2, <1>4, LogLater
<1>7. CrossedFound'
  BY <1>2, <1>3, <1>5, <1>6 DEF CrossedFound
<1>8. ASSUME NEW y \in Pid, NEW d, NEW n, <<d, n>> \in snapshots'[y]
      PROVE  y # x /\ <<d, n>> \in snapshots[y]
  BY <1>3, <1>8 DEF RunInv, RunTyped
<1>9. SnapshotsFound'
  BY <1>2, <1>3, <1>5, <1>6, <1>8 DEF SnapshotsFound
<1> QED BY <1>7, <1>9

\* Steps that neither log nor touch an attempt's snapshots.
LEMMA FoundSame ==
    ASSUME RunInv, AllFound, world' = world, UNCHANGED <<resources, findings, err, crossed, snapshots>>,
           fresh' = fresh \/ world.reexec \/ world.exiting \/ world.late_fork,
           UNCHANGED <<open, keep>> \/ world.exiting
    PROVE  AllFound'
<1> SUFFICES ASSUME ~err', ~world.reexec, Announced
             PROVE  CrossedFound' /\ SnapshotsFound'
  BY DEF AllFound, Announced
<1>1. UNCHANGED <<open, keep, fresh>> /\ CrossedFound /\ SnapshotsFound
  BY DEF AllFound, Announced
<1>2. Log' = Log /\ Reported' = Reported
  BY DEF Log, Reported, InheritFindings
<1>3. \A n, p : AtExec(n, p)' <=> AtExec(n, p)
  BY <1>2 DEF AtExec
<1> QED BY <1>1, <1>2, <1>3 DEF CrossedFound, SnapshotsFound

LEMMA AllFoundStep ==
    ASSUME RunAssumption, RunInv, Covered, AllFound, [RunNext]_runVars
    PROVE  AllFound'
<1>1. CASE UNCHANGED runVars
  BY <1>1, FoundSame DEF runVars, procs, vars
<1>2. CASE RunNext
  <2>1. PICK x \in Pid : Runs(x)
    BY <1>2 DEF RunNext
  <2>2. world' = world /\ world.fds \subseteq Fd
    BY <1>2, WorldTyped DEF RunNext, RunInv, RunTyped
  <2>3. ASSUME NEW child, LogsFork(x, child) PROVE AllFound'
    <3>1. world.late_fork
      BY <2>3 DEF LogsFork, RunInv, Processes
    <3> QED BY <2>2, <3>1 DEF AllFound, Announced
  <2>4. ASSUME Exits(x) PROVE AllFound'
    BY <2>2, <2>4 DEF Exits, AllFound, Announced
  <2>5. ASSUME NEW g, StartsExec(x, g) PROVE AllFound'
    BY <2>2, <2>5, FoundSame DEF StartsExec, vars
  <2> QED BY <2>1, <2>2, <2>3, <2>4, <2>5, FoundUserLogs, FoundForks, FoundSnapshot,
             FoundSucceeds, FoundReturns DEF Runs
<1> QED BY <1>1, <1>2

\* Every descriptor that crossed an exec is reported, and no later record takes its
\* finding back, as long as a new image logs something before it execs and every
\* child is known from its FORK on; processes and threads may log in the middle of each
\* other's attempts (model.c:24-27, 354-372).
THEOREM WhatCrossedIsReported == RunSpec => []NoLostReportAnnounced
<1> USE ReplayAssumption, RunAssumption
<1>1. RunInit => AllFound
  BY DEF RunInit, Init, AllFound, CrossedFound, SnapshotsFound
<1>2. RunInv /\ Covered /\ AllFound /\ [RunNext]_runVars => AllFound'
  BY AllFoundStep
<1>3. AllFound => NoLostReportAnnounced
  BY DEF AllFound, CrossedFound, NoLostReportAnnounced, NoLostReport, Quiescent
<1> QED BY <1>1, <1>2, <1>3, RunInvHolds, CoveredHolds, PTL DEF RunSpec

-----------------------------------------------------------------------------
(* The table holds exactly what is open.                                   *)

\* No descriptor is entered twice.
Single == \A e, g \in fds : e.pid = g.pid /\ e.fd = g.fd => e = g

\* An entry outlives its descriptor only through an exec that closed it, until the
\* new image logs something; what an open attempt will close if it succeeds is marked
\* once its snapshot is logged.
Fits(e) ==
    /\ e.fd \notin open[e.pid] => Doomed(e) /\ e.pid \in fresh
    /\ InAttempt(e.pid) /\ e.fd \in open[e.pid] \ (keep[e.pid] \cup todo[e.pid]) => Doomed(e)

Calm == ~world.threads /\ ~world.reexec /\ Announced

Tracked == ~err /\ Calm => Single /\ \A e \in fds : Fits(e)

LEMMA SettledSingle ==
    ASSUME TypeOK, Single, NEW ev, ev.kind \notin {"EXEC", "EXEC_FAIL"}
    PROVE  \A g, h \in SettledFds(ev) : g.pid = h.pid /\ g.fd = h.fd => g = h
<1> SUFFICES ASSUME NEW g \in SettledFds(ev), NEW h \in SettledFds(ev), g.pid = h.pid, g.fd = h.fd
             PROVE  g = h
  OBVIOUS
<1>1. CASE g.pid # ev.pid
  BY <1>1, SettledElsewhere DEF Single
<1>2. CASE g.pid = ev.pid
  <2>1. PICK e \in fds : g = Rested(e) /\ e.pid = ev.pid
    BY <1>2, SettledOwn
  <2>2. PICK k \in fds : h = Rested(k) /\ k.pid = ev.pid
    BY <1>2, SettledOwn
  <2>3. e.fd = k.fd
    BY <2>1, <2>2, RestedFields
  <2> QED BY <2>1, <2>2, <2>3 DEF Single
<1> QED BY <1>1, <1>2

LEMMA OpenSingle ==
    ASSUME TypeOK, Single, NEW ev \in Inputs, FdOpen(ev), ~err',
           \A e \in fds : e.pid = ev.pid /\ e.fd = ev.fd => Doomed(e)
    PROVE  Single'
<1> DEFINE new == NewFd(ev.pid, ev.fd, ev.site)
<1>1. ev.kind \notin {"EXEC", "EXEC_FAIL"} /\ fds' = SettledFds(ev) \cup {new}
  BY DEF FdOpen
<1>2. new.pid = ev.pid /\ new.fd = ev.fd
  BY DEF NewFd
<1>3. \A g \in SettledFds(ev) : ~(g.pid = ev.pid /\ g.fd = ev.fd)
  BY <1>1, SettledOwn, RestedFields
<1>4. \A g, h \in SettledFds(ev) : g.pid = h.pid /\ g.fd = h.fd => g = h
  BY <1>1, SettledSingle
<1> HIDE DEF new
<1> QED BY <1>1, <1>2, <1>3, <1>4 DEF Single

LEMMA CloseSingle ==
    ASSUME TypeOK, Single, NEW ev \in Inputs, FdClose(ev) \/ FdCloseStray(ev)
    PROVE  Single' /\ \A g \in fds' : ~(g.pid = ev.pid /\ g.fd = ev.fd)
<1>1. ev.kind \notin {"EXEC", "EXEC_FAIL"}
  BY DEF FdClose, FdCloseStray
<1>2. \/ fds' = SettledFds(ev) /\ \A g \in SettledFds(ev) : ~(g.pid = ev.pid /\ g.fd = ev.fd)
      \/ \E e \in SettledFds(ev) : e.pid = ev.pid /\ e.fd = ev.fd /\ fds' = SettledFds(ev) \ {e}
  BY DEF FdClose, FdCloseStray, Settle, Entries
<1>3. \A g, h \in SettledFds(ev) : g.pid = h.pid /\ g.fd = h.fd => g = h
  BY <1>1, SettledSingle
<1> QED BY <1>2, <1>3 DEF Single

LEMMA ForkSingle ==
    ASSUME ReplayAssumption, TypeOK, Single, NEW ev \in Inputs, Fork(ev), ~err',
           ev.child_pid # ev.pid, \A e \in fds : e.pid # ev.child_pid
    PROVE  Single'
<1>1. ev.kind \notin {"EXEC", "EXEC_FAIL"}
  BY DEF Fork
<1>2. /\ \A g \in fds' : g.pid # ev.pid => g \in fds \/ g.pid = ev.child_pid
      /\ \A g, h \in fds' : g \notin fds /\ h \notin fds /\ g.pid = ev.child_pid
                              /\ h.pid = g.pid /\ h.fd = g.fd => g = h
  BY ForkTableWhole
<1>3. \A g \in fds' : g \in SettledFds(ev) \/ g.pid = ev.child_pid
  BY ForkTable DEF NewFd
<1>4. \A g, h \in SettledFds(ev) : g.pid = h.pid /\ g.fd = h.fd => g = h
  BY <1>1, SettledSingle
<1>5. ASSUME NEW g \in fds', NEW h \in fds', g.pid = h.pid, g.fd = h.fd
      PROVE  g = h
  <2>1. CASE g.pid = ev.child_pid
    BY <1>2, <1>5, <2>1
  <2>2. CASE g.pid # ev.child_pid
    BY <1>3, <1>4, <1>5, <2>2
  <2> QED BY <2>1, <2>2
<1> QED BY <1>5 DEF Single

\* Entries of other processes, whose state the step leaves alone.
LEMMA FitsElsewhere ==
    ASSUME TypeOK, NEW x, NEW e \in fds, e.pid # x, Fits(e),
           \A y \in Pid : y # x => /\ open'[y] = open[y] /\ keep'[y] = keep[y] /\ todo'[y] = todo[y]
                                   /\ call'[y] = call[y] /\ (y \in fresh => y \in fresh')
    PROVE  Fits(e)'
<1>1. e.pid \in Pid
  BY FdFields
<1> QED BY <1>1 DEF Fits, InAttempt

LEMMA TrackedOpens ==
    ASSUME ReplayAssumption, RunInv, Tracked, NEW x \in Pid, NEW fd \in Fd, NEW survives,
           OpensFd(x, fd, survives), world' = world
    PROVE  Tracked'
<1> SUFFICES ASSUME ~err', Calm
             PROVE  Single' /\ \A g \in fds' : Fits(g)'
  BY DEF Tracked, Calm, Announced
<1>1. PICK ev \in Inputs : ev.pid = x /\ ev.fd = fd /\ FdOpen(ev)
  BY DEF OpensFd
<1>2. TypeOK /\ Single /\ \A e \in fds : Fits(e)
  BY <1>1, RecordLogs DEF Logs, Tracked, RunInv, RunTyped
<1>3. /\ ~InAttempt(x) /\ fd \notin open[x]
      /\ open' = [open EXCEPT ![x] = @ \cup {fd}]
      /\ fresh' = fresh \ {x} /\ UNCHANGED <<call, todo>>
      /\ \A y \in Pid : y # x => keep'[y] = keep[y]
  BY DEF OpensFd, UserLogs, UserRuns, Free, Notices, Calm, RunInv, RunTyped
<1>4. Elsewhere(x) /\ OnlyOwn(x) /\ Gains(x, {fd})
  BY <1>1, <1>2, OpenTable
<1>5. Single'
  BY <1>1, <1>2, <1>3, OpenSingle DEF Fits
<1>6. ASSUME NEW g \in fds', g.pid # x PROVE Fits(g)'
  BY <1>2, <1>3, <1>4, <1>6, FitsElsewhere DEF OnlyOwn, RunInv, RunTyped
<1>7. ASSUME NEW g \in fds', g.pid = x PROVE Fits(g)'
  <2>1. g.fd = fd \/ \E e \in fds : e.pid = x /\ e.fd = g.fd /\ ~Doomed(e)
    BY <1>4, <1>7 DEF Gains
  <2>2. g.fd \in open'[x]
    BY <1>2, <1>3, <2>1 DEF Fits, RunInv, RunTyped
  <2>3. ~InAttempt(x)'
    BY <1>3 DEF InAttempt
  <2> QED BY <1>7, <2>2, <2>3 DEF Fits
<1> QED BY <1>5, <1>6, <1>7

LEMMA TrackedCloses ==
    ASSUME ReplayAssumption, RunInv, Tracked, NEW x \in Pid, NEW fd \in Fd, ClosesFd(x, fd),
           world' = world
    PROVE  Tracked'
<1> SUFFICES ASSUME ~err', Calm
             PROVE  Single' /\ \A g \in fds' : Fits(g)'
  BY DEF Tracked, Calm, Announced
<1>1. PICK ev \in Inputs : ev.pid = x /\ ev.fd = fd /\ (FdClose(ev) \/ FdCloseStray(ev))
  BY DEF ClosesFd
<1>2. TypeOK /\ Single /\ \A e \in fds : Fits(e)
  BY <1>1, RecordLogs DEF Logs, Tracked, RunInv, RunTyped
<1>3. /\ ~InAttempt(x) /\ fresh' = fresh \ {x} /\ call' = call
      /\ open' = [open EXCEPT ![x] = @ \ {fd}] /\ keep' = [keep EXCEPT ![x] = @ \ {fd}]
      /\ todo' = [todo EXCEPT ![x] = @ \ {fd}]
  BY DEF ClosesFd, UserLogs, UserRuns, Free, Calm
<1>4. Elsewhere(x) /\ OnlyOwn(x) /\ Gains(x, {})
  BY <1>1, <1>2, CloseTable
<1>5. Single' /\ \A g \in fds' : ~(g.pid = x /\ g.fd = fd)
  BY <1>1, <1>2, CloseSingle
<1>6. ASSUME NEW g \in fds', g.pid # x PROVE Fits(g)'
  BY <1>2, <1>3, <1>4, <1>6, FitsElsewhere DEF OnlyOwn, RunInv, RunTyped
<1>7. ASSUME NEW g \in fds', g.pid = x PROVE Fits(g)'
  <2>1. \E e \in fds : e.pid = x /\ e.fd = g.fd /\ ~Doomed(e)
    BY <1>4, <1>7 DEF Gains
  <2>2. g.fd \in open'[x]
    BY <1>2, <1>3, <1>5, <1>7, <2>1 DEF Fits, RunInv, RunTyped
  <2>3. ~InAttempt(x)'
    BY <1>3 DEF InAttempt
  <2> QED BY <1>7, <2>2, <2>3 DEF Fits
<1> QED BY <1>5, <1>6, <1>7

LEMMA TrackedForks ==
    ASSUME ReplayAssumption, RunInv, Covered, Tracked, NEW x \in Pid, NEW child \in Pid,
           Forks(x, child), world' = world
    PROVE  Tracked'
<1> SUFFICES ASSUME ~err', Calm
             PROVE  Single' /\ \A g \in fds' : Fits(g)'
  BY DEF Tracked, Calm, Announced
<1>1. PICK ev \in Inputs : ev.pid = x /\ ev.child_pid = child /\ Fork(ev)
  BY DEF Forks, Calm, Announced
<1>2. TypeOK /\ ~err /\ Single /\ \A e \in fds : Fits(e)
  BY <1>1, RecordLogs DEF Logs, Tracked, RunInv, RunTyped
<1>3. /\ ~InAttempt(x) /\ x \in alive /\ child \notin alive /\ x # child
      /\ fresh' = fresh \ {x} /\ UNCHANGED <<call, todo>>
      /\ open' = [open EXCEPT ![child] = open[x]] /\ keep' = [keep EXCEPT ![child] = keep[x]]
  BY DEF Forks, Free, Calm, Announced
<1>4. \A e \in fds : e.pid # child
  <2>1. Orderly
    BY DEF Orderly, Calm, Announced
  <2> QED BY <1>2, <1>3, <2>1 DEF Covered, Peopled
<1>5. /\ Gains(x, {})
      /\ \A g \in fds' : g.pid # x =>
           g \in fds \/ (g.pid = child /\ \E e \in fds : e.pid = x /\ e.fd = g.fd /\ ~Doomed(e))
  BY <1>1, <1>2, <1>3, ForkTableWhole
<1>6. Single'
  BY <1>1, <1>2, <1>3, <1>4, ForkSingle
<1>7. ~InAttempt(x)' /\ ~InAttempt(child)'
  BY <1>3 DEF InAttempt, RunInv, Processes
<1>8. ASSUME NEW g \in fds', g.pid = x \/ g.pid = child PROVE Fits(g)'
  <2>1. PICK e \in fds : e.pid = x /\ e.fd = g.fd /\ ~Doomed(e)
    BY <1>3, <1>4, <1>5, <1>8 DEF Gains
  <2>2. g.fd \in open[x]
    BY <1>2, <2>1 DEF Fits
  <2>3. g.fd \in open'[g.pid]
    BY <1>3, <1>8, <2>2 DEF RunInv, RunTyped
  <2> QED BY <1>7, <1>8, <2>3 DEF Fits
<1>9. ASSUME NEW g \in fds', g.pid # x, g.pid # child PROVE Fits(g)'
  <2>1. g \in fds /\ Fits(g) /\ g.pid \in Pid
    BY <1>2, <1>5, <1>9, FdFields
  <2>2. /\ open'[g.pid] = open[g.pid] /\ keep'[g.pid] = keep[g.pid]
        /\ todo' = todo /\ call' = call /\ (g.pid \in fresh => g.pid \in fresh')
    BY <1>3, <1>9, <2>1 DEF RunInv, RunTyped
  <2> QED BY <2>1, <2>2 DEF Fits, InAttempt
<1> QED BY <1>6, <1>8, <1>9

LEMMA TrackedSnapshot ==
    ASSUME ReplayAssumption, RunInv, Tracked, NEW x \in Pid, NEW fd \in Fd, LogsSnapshot(x, fd),
           world' = world
    PROVE  Tracked'
<1> SUFFICES ASSUME ~err', Calm
             PROVE  Single' /\ \A g \in fds' : Fits(g)'
  BY DEF Tracked, Calm, Announced
<1>1. PICK ev \in Inputs : /\ ev.pid = x /\ ev.fd = fd /\ ev.cloexec = (fd \notin keep[x])
                           /\ Exec(ev) \/ ExecUnknown(ev)
  BY DEF LogsSnapshot
<1>2. TypeOK /\ Single /\ \A e \in fds : Fits(e)
  BY <1>1, RecordLogs DEF Logs, Tracked, RunInv, RunTyped
<1>3. /\ UNCHANGED <<open, keep, call, fresh>> /\ fd \in open[x]
      /\ todo' = [todo EXCEPT ![x] = @ \ {fd}]
  BY DEF LogsSnapshot, RunInv, Processes
<1>4. \/ fds' = fds /\ \A e \in fds : ~(e.pid = x /\ e.fd = fd)
      \/ \E e \in fds, m \in fds' :
           /\ e.pid = x /\ e.fd = fd /\ m.pid = x /\ m.fd = fd
           /\ Doomed(m) <=> fd \notin keep[x]
           /\ fds' = (fds \ {e}) \cup {m}
  BY <1>1, <1>2, SnapshotTable, ZenonT(30)
<1>5. Single' /\ \A g \in fds' :
        \/ g \in fds /\ ~(g.pid = x /\ g.fd = fd)
        \/ g.pid = x /\ g.fd = fd /\ (Doomed(g) <=> fd \notin keep[x])
  BY <1>2, <1>4 DEF Single
<1>6. ASSUME NEW g \in fds' PROVE Fits(g)'
  <2>1. CASE g \in fds /\ ~(g.pid = x /\ g.fd = fd)
    <3>1. Fits(g) /\ g.pid \in Pid
      BY <1>2, <2>1, FdFields
    <3>2. g.fd \notin todo'[g.pid] => g.fd \notin todo[g.pid]
      BY <1>3, <2>1, <3>1 DEF RunInv, RunTyped
    <3> QED BY <1>3, <3>1, <3>2 DEF Fits, InAttempt
  <2>2. CASE g.pid = x /\ g.fd = fd /\ (Doomed(g) <=> fd \notin keep[x])
    BY <1>3, <2>2 DEF Fits
  <2> QED BY <1>5, <2>1, <2>2
<1> QED BY <1>5, <1>6

LEMMA TrackedReturns ==
    ASSUME ReplayAssumption, RunInv, Tracked, NEW x \in Pid, ExecReturns(x), world' = world
    PROVE  Tracked'
<1> SUFFICES ASSUME ~err', Calm
             PROVE  Single' /\ \A g \in fds' : Fits(g)'
  BY DEF Tracked, Calm, Announced
<1>1. PICK ev \in Inputs : ev.pid = x /\ ExecFail(ev)
  BY DEF ExecReturns
<1>2. TypeOK /\ Single /\ \A e \in fds : Fits(e)
  BY <1>1, RecordLogs DEF Logs, Tracked, RunInv, RunTyped
<1>3. /\ UNCHANGED <<open, keep, todo>> /\ call' = [call EXCEPT ![x] = Null]
      /\ fresh' = fresh \ {x} /\ x \notin fresh
  BY DEF ExecReturns, EndsAttempt, Calm, RunInv, Processes
<1>4. /\ Elsewhere(x) /\ OnlyOwn(x)
      /\ \A g \in fds' : g.pid = x => \E e \in fds : e.pid = x /\ g = Rested(e)
  BY <1>1, <1>2, FailTable
<1>5. Single'
  <2> SUFFICES ASSUME NEW g \in fds', NEW h \in fds', g.pid = h.pid, g.fd = h.fd
               PROVE  g = h
    BY DEF Single
  <2>1. CASE g.pid # x
    BY <1>2, <1>4, <2>1 DEF OnlyOwn, Single
  <2>2. CASE g.pid = x
    <3>1. PICK e \in fds : e.pid = x /\ g = Rested(e)
      BY <1>4, <2>2
    <3>2. PICK k \in fds : k.pid = x /\ h = Rested(k)
      BY <1>4, <2>2
    <3>3. e.fd = k.fd
      BY <1>2, <3>1, <3>2, RestedFields
    <3> QED BY <1>2, <3>1, <3>2, <3>3 DEF Single
  <2> QED BY <2>1, <2>2
<1>6. ASSUME NEW g \in fds', g.pid # x PROVE Fits(g)'
  BY <1>2, <1>3, <1>4, <1>6, FitsElsewhere DEF OnlyOwn, RunInv, RunTyped
<1>7. ASSUME NEW g \in fds', g.pid = x PROVE Fits(g)'
  <2>1. PICK e \in fds : e.pid = x /\ g = Rested(e)
    BY <1>4, <1>7
  <2>2. g.fd \in open'[x]
    BY <1>2, <1>3, <2>1, RestedFields DEF Fits
  <2>3. ~InAttempt(x)'
    BY <1>3 DEF InAttempt, RunInv, RunTyped
  <2> QED BY <1>7, <2>2, <2>3 DEF Fits
<1> QED BY <1>5, <1>6, <1>7

LEMMA TrackedSucceeds ==
    ASSUME RunInv, Tracked, NEW x \in Pid, ExecSucceeds(x), world' = world
    PROVE  Tracked'
<1> SUFFICES ASSUME ~err', Calm
             PROVE  Single' /\ \A g \in fds' : Fits(g)'
  BY DEF Tracked, Calm, Announced
<1>1. /\ UNCHANGED <<fds, err, keep, todo>> /\ open' = [open EXCEPT ![x] = keep[x]]
      /\ call' = [call EXCEPT ![x] = Null] /\ fresh' = fresh \cup {x}
      /\ InAttempt(x) /\ todo[x] = {}
  BY DEF ExecSucceeds, EndsAttempt, vars
<1>2. TypeOK /\ Single /\ \A e \in fds : Fits(e)
  BY <1>1 DEF Tracked, RunInv, RunTyped
<1>3. Single'
  BY <1>1, <1>2 DEF Single
<1>4. ASSUME NEW e \in fds, e.pid # x PROVE Fits(e)'
  BY <1>1, <1>2, <1>4, FitsElsewhere DEF RunInv, RunTyped
<1>5. ASSUME NEW e \in fds, e.pid = x PROVE Fits(e)'
  <2>1. e.fd \notin keep[x] => Doomed(e)
    BY <1>1, <1>2, <1>5 DEF Fits
  <2>2. open'[x] = keep[x] /\ x \in fresh' /\ ~InAttempt(x)'
    BY <1>1 DEF InAttempt, RunInv, RunTyped
  <2> QED BY <1>5, <2>1, <2>2 DEF Fits
<1> QED BY <1>1, <1>3, <1>4, <1>5

LEMMA TrackedStarts ==
    ASSUME RunInv, Tracked, NEW x \in Pid, NEW g, StartsExec(x, g), world' = world
    PROVE  Tracked'
<1> SUFFICES ASSUME ~err', Calm
             PROVE  Single' /\ \A e \in fds' : Fits(e)'
  BY DEF Tracked, Calm, Announced
<1>1. /\ UNCHANGED <<fds, err, open, keep, fresh>> /\ todo' = [todo EXCEPT ![x] = open[x]]
      /\ \A y \in Pid : y # x => call'[y] = call[y]
  BY DEF StartsExec, vars, RunInv, RunTyped
<1>2. TypeOK /\ Single /\ \A e \in fds : Fits(e)
  BY <1>1 DEF Tracked, RunInv, RunTyped
<1>3. Single'
  BY <1>1, <1>2 DEF Single
<1>4. ASSUME NEW e \in fds, e.pid # x PROVE Fits(e)'
  BY <1>1, <1>2, <1>4, FitsElsewhere DEF RunInv, RunTyped
<1>5. ASSUME NEW e \in fds, e.pid = x PROVE Fits(e)'
  <2>1. todo'[x] = open[x]
    BY <1>1 DEF RunInv, RunTyped
  <2> QED BY <1>1, <1>2, <1>5, <2>1 DEF Fits
<1> QED BY <1>1, <1>3, <1>4, <1>5

LEMMA TrackedStep ==
    ASSUME ReplayAssumption, RunAssumption, RunInv, Covered, Tracked, [RunNext]_runVars
    PROVE  Tracked'
<1>1. CASE UNCHANGED runVars
  <2>1. UNCHANGED <<fds, err, world, open, keep, call, todo, fresh>>
    BY <1>1 DEF runVars, procs, vars
  <2>2. \A e : Fits(e)' <=> Fits(e)
    BY <2>1 DEF Fits, InAttempt
  <2> QED BY <2>1, <2>2 DEF Tracked, Single, Calm, Announced
<1>2. CASE RunNext
  <2>1. PICK x \in Pid : Runs(x)
    BY <1>2 DEF RunNext
  <2>2. world' = world /\ world.fds \subseteq Fd
    BY <1>2, WorldTyped DEF RunNext, RunInv, RunTyped
  <2>3. ASSUME Exits(x) PROVE Tracked'
    BY <2>2, <2>3 DEF Exits, Tracked, Calm, Announced
  <2>4. ASSUME NEW child, LogsFork(x, child) PROVE Tracked'
    <3>1. world.late_fork
      BY <2>4 DEF LogsFork, RunInv, Processes
    <3> QED BY <2>2, <3>1 DEF Tracked, Calm, Announced
  <2> QED BY <2>1, <2>2, <2>3, <2>4, TrackedOpens, TrackedCloses, TrackedForks, TrackedStarts,
             TrackedSnapshot, TrackedSucceeds, TrackedReturns DEF Runs
<1> QED BY <1>1, <1>2

\* The table holds each open descriptor exactly once, and otherwise only those a crossed
\* exec has closed, also when processes log in the middle of each other's
\* attempts (model.c:45-79, 154-201, 286-330).
THEOREM TheTableTracks == RunSpec => []TableTracksOpen
<1> USE ReplayAssumption, RunAssumption
<1>1. RunInit => Tracked
  BY DEF RunInit, Init, Tracked, Single
<1>2. RunInv /\ Covered /\ Tracked /\ [RunNext]_runVars => Tracked'
  BY TrackedStep
<1>3. RunInv /\ Covered /\ Tracked => TableTracksOpen
  <2> SUFFICES ASSUME RunInv, Covered, Tracked, Quiescent, Calm, NEW x \in Pid, NEW fd \in Fd
               PROVE  LET held == {e \in Entries(fds, x, fd) : ~Doomed(e)}
                      IN  IF fd \in open[x] THEN Cardinality(held) = 1 ELSE held = {}
    BY DEF TableTracksOpen, Calm
  <2> DEFINE held == {e \in Entries(fds, x, fd) : ~Doomed(e)}
  <2>1. Single /\ \A e \in fds : Fits(e)
    BY DEF Tracked, Quiescent
  <2>2. CASE fd \notin open[x]
    BY <2>1, <2>2 DEF Fits, Entries
  <2>3. CASE fd \in open[x]
    <3>1. Entered(x, fd) /\ unannounced = {} /\ ~InAttempt(x)
      BY <2>3 DEF Covered, Quiescent, Orderly, Calm, Announced, Looked
    <3>2. PICK e \in fds : e.pid = x /\ e.fd = fd /\ ~Doomed(e)
      BY <3>1, KnownAtRest DEF Entered, ToCome
    <3>3. held = {e}
      BY <2>1, <3>2 DEF Entries, Single
    <3> HIDE DEF held
    <3>4. Cardinality(held) = 1
      BY <3>3, FS_Singleton
    <3> QED BY <2>3, <3>4 DEF held
  <2> QED BY <2>2, <2>3
<1> QED BY <1>1, <1>2, <1>3, RunInvHolds, CoveredHolds, PTL DEF RunSpec

=============================================================================
