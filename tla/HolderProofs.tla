---------------------------- MODULE HolderProofs ----------------------------
(***************************************************************************)
(* What has one holder at a time, whoever fails in between: the fenced     *)
(* lease, an idempotency key of the public API and the work of a module    *)
(* kind.  Each section proves one specification, for any replicas,         *)
(* requests or modules and any bounds.  The three have no name in common   *)
(* and no formula combines two of them.                                    *)
(***************************************************************************)
EXTENDS Coordination, PublicAction, Supervisor, TLAPS

-----------------------------------------------------------------------------
(* The lease *)

InTransaction(r) == pc[r] \in {"clock", "read", "commit"}

(* What a replica's thread knows in each phase.                            *)
PhaseInv(r) ==
    /\ op[r] # "none" => InTransaction(r)
    /\ pc[r] \in {"working", "accepting"} => held[r] # NoLease
    /\ op[r] = "acquire" => held[r] = NoLease
    /\ op[r] = "renew" => arg[r] = held[r] /\ held[r] # NoLease
    /\ op[r] \in {"release", "resign"} =>
         held[r] = NoLease /\ arg[r].instance = r
    /\ pc[r] \in {"read", "commit"} => txNow[r] <= clock

(* A lease in memory against the row: never ahead of it, covered by it     *)
(* while its token is current, expired once its token is not.              *)
HeldInv(r) ==
    held[r] # NoLease =>
        /\ held[r].instance = r
        /\ held[r].token >= 1
        /\ held[r].token <= row.token
        /\ held[r].token = row.token => row.instance = r /\ held[r].expires <= row.expires
        /\ held[r].token < row.token => held[r].expires <= clock
        /\ held[r].expires <= clock + Ttl
        /\ held[r].token = fence.token => fence.by = r

(* A renewal never shortens the lease it extends: the time it counts from  *)
(* is not older than the one the lease was last extended from.             *)
RenewInv(r) ==
    op[r] = "renew" /\ pc[r] \in {"read", "commit"} => held[r].expires <= txNow[r] + Ttl

FenceInv == fence.token <= row.token

(* The fence a replica has compared its token with.                        *)
AcceptInv(r) == pc[r] = "accepting" => txFence[r] <= held[r].token

(* The invariant of the lease, inductive as long as no commit overwrites   *)
(* the lease row unread.                                                   *)
IInv ==
    /\ TypeOK
    /\ \A r \in Replicas : PhaseInv(r) /\ HeldInv(r) /\ RenewInv(r)
    /\ TokensAreNotShared
    /\ FenceInv

(* What holds of every reachable state.                                    *)
UpToOverwriting ==
    /\ TypeOK
    /\ \A r \in Replicas : AcceptInv(r)
    /\ "lease" \notin blind => IInv

USE NoneAssumption, TtlAssumption, MarginAssumption, BoundAssumption

-----------------------------------------------------------------------------
(* The missing lease is a lease record.                                    *)
LEMMA NoLeaseType == NoLease \in Leases
BY DEF NoLease, Leases

(* The leases the rules make are lease records.                            *)
LEMMA WrittenTypes ==
    ASSUME NEW lease \in Leases, NEW r \in Replicas, NEW now \in Nat
    PROVE  /\ granted(lease, r, now) \in Leases
           /\ renewed(lease, now) \in Leases
           /\ released(lease, now) \in Leases
<1>1. granted(lease, r, now) \in Leases
  BY DEF granted, Leases
<1>2. renewed(lease, now) \in Leases
  BY DEF renewed, Leases
<1>3. released(lease, now) \in Leases
  <2>1. CASE lease.acquired > now
    BY <2>1 DEF released, Leases
  <2>2. CASE ~(lease.acquired > now)
    BY <2>2 DEF released, Leases
  <2>. QED BY <2>1, <2>2
<1>. QED BY <1>1, <1>2, <1>3

(* What release writes, over any row.                                      *)
LEMMA ReleasedType ==
    ASSUME NEW lease \in Leases, NEW read \in Leases, NEW now \in Nat
    PROVE  [lease EXCEPT !.expires = released(read, now).expires] \in Leases
<1>1. released(read, now).expires \in Nat
  <2>1. CASE read.acquired > now
    BY <2>1 DEF released, Leases
  <2>2. CASE ~(read.acquired > now)
    BY <2>2 DEF released, Leases
  <2>. QED BY <2>1, <2>2
<1>. QED BY <1>1 DEF Leases

(* What renew and release write is a lease.                                *)
LEMMA RewrittenType ==
    ASSUME TypeOK, NEW r \in Replicas, RenewWrites(r) \/ ReleaseWrites(r)
    PROVE  row' \in Leases /\ owner' = owner /\ blind' \subseteq {"lease", "fence"}
<1>1. /\ row \in Leases /\ txRow[r] \in Leases /\ txNow[r] \in Nat
      /\ blind \subseteq {"lease", "fence"}
  BY DEF TypeOK
<1>2. blind' \subseteq {"lease", "fence"} /\ owner' = owner
  BY <1>1 DEF RenewWrites, ReleaseWrites, UpdateRow
<1>3. CASE RenewWrites(r)
  <2>1. PICK found \in Found(r) : row' = renewed(found, txNow[r])
    BY <1>3 DEF RenewWrites
  <2>2. found \in Leases BY <1>1 DEF Found
  <2>. QED BY <1>1, <1>2, <2>1, <2>2, WrittenTypes
<1>4. CASE ReleaseWrites(r)
  <2>1. PICK found \in Found(r) :
          row' = [found EXCEPT !.expires = released(txRow[r], txNow[r]).expires]
    BY <1>4 DEF ReleaseWrites
  <2>2. found \in Leases BY <1>1 DEF Found
  <2>. QED BY <1>1, <1>2, <2>1, <2>2, ReleasedType
<1>. QED BY <1>3, <1>4

(* Every step keeps the type invariant.                                    *)
LEMMA TypeStep ==
    ASSUME TypeOK, Next
    PROVE  TypeOK'
<1>. USE DEF OwnerOK
<1>0. CASE Advance
  BY <1>0 DEF TypeOK, Advance
<1>1. ASSUME NEW r \in Replicas, Step(r)
      PROVE  TypeOK'
  <2>. USE NoLeaseType, WrittenTypes
  <2>1. CASE StandingUnreachable(r)
    BY <1>1, <2>1 DEF TypeOK, StandingUnreachable
  <2>2. CASE StandingAcquire(r)
    BY <1>1, <2>2 DEF TypeOK, StandingAcquire, Call
  <2>3. CASE StandingHeld(r)
    BY <1>1, <2>3 DEF TypeOK, StandingHeld
  <2>4. CASE StandingRenew(r)
    BY <1>1, <2>4 DEF TypeOK, StandingRenew, Call
  <2>5. CASE StandingStop(r)
    BY <1>1, <2>5 DEF TypeOK, StandingStop, Call
  <2>6. CASE Resign(r)
    BY <1>1, <2>6 DEF TypeOK, Resign, Call
  <2>7. CASE ResignNothing(r)
    BY <1>1, <2>7 DEF TypeOK, ResignNothing
  <2>8. CASE TxNow(r)
    BY <1>1, <2>8 DEF TypeOK, TxNow
  <2>9. CASE TxRead(r)
    BY <1>1, <2>9 DEF TypeOK, TxRead
  <2>10. CASE TxConflict(r)
    BY <1>1, <2>10 DEF TypeOK, TxConflict
  <2>11. CASE AcquireGranted(r)
    <3>1. OwnerOK'
      BY <1>1, <2>11 DEF TypeOK, AcquireGranted, AcquireWrites
    <3>. HIDE DEF OwnerOK
    <3>. QED
      BY <1>1, <2>11, <3>1 DEF TypeOK, AcquireGranted, AcquireWrites, Work, CreateRow, UpdateRow
  <2>12. CASE AcquireStandby(r)
    BY <1>1, <2>12 DEF TypeOK, AcquireStandby, Return
  <2>13. CASE RenewGranted(r)
    <3>1. row' \in Leases /\ owner' = owner /\ blind' \subseteq {"lease", "fence"}
      BY <1>1, <2>13, RewrittenType DEF RenewGranted
    <3>. QED BY <1>1, <2>13, <3>1 DEF TypeOK, RenewGranted, Work
  <2>14. CASE RenewRefused(r)
    BY <1>1, <2>14 DEF TypeOK, RenewRefused, Return
  <2>15. CASE ReleaseDone(r)
    <3>1. row' \in Leases /\ owner' = owner /\ blind' \subseteq {"lease", "fence"}
      BY <1>1, <2>15, RewrittenType DEF ReleaseDone
    <3>. QED BY <1>1, <2>15, <3>1 DEF TypeOK, ReleaseDone, Return
  <2>16. CASE ReleaseNothing(r)
    BY <1>1, <2>16 DEF TypeOK, ReleaseNothing, Return
  <2>17. CASE TxFail(r)
    BY <1>1, <2>17 DEF TypeOK, TxFail, Fail, Return
  <2>18. CASE TxLost(r)
    <3>1. row' \in Leases /\ OwnerOK' /\ blind' \subseteq {"lease", "fence"}
      <4>1. CASE AcquireWrites(r)
        BY <1>1, <4>1 DEF TypeOK, AcquireWrites, CreateRow, UpdateRow
      <4>2. CASE RenewWrites(r)
        BY <1>1, <4>2, RewrittenType DEF TypeOK
      <4>3. CASE ReleaseWrites(r)
        BY <1>1, <4>3, RewrittenType DEF TypeOK
      <4>. QED BY <2>18, <4>1, <4>2, <4>3 DEF TxLost
    <3>2. Fail(r)
      BY <2>18 DEF TxLost
    <3>. HIDE DEF OwnerOK
    <3> QED
      BY <1>1, <3>1, <3>2 DEF TypeOK, Fail, Return
  <2>19. CASE AcceptRead(r) \/ Accept(r) \/ AcceptFails(r)
    <3>1. held[r].token \in Nat
      BY <1>1 DEF TypeOK, Leases
    <3>. HIDE DEF OwnerOK
    <3>2. CASE AcceptRead(r)
      BY <1>1, <3>2 DEF TypeOK, AcceptRead, OwnerOK
    <3>4. CASE AcceptFails(r)
      BY <1>1, <3>4 DEF TypeOK, AcceptFails, Accepted, OwnerOK
    <3>3. CASE Accept(r)
      BY <1>1, <3>1, <3>3 DEF TypeOK, Accept, Accepted, OwnerOK
    <3>. QED BY <2>19, <3>2, <3>3, <3>4
  <2>20. CASE WorkDone(r)
    BY <1>1, <2>20 DEF TypeOK, WorkDone
  <2>21. CASE Crash(r)
    BY <1>1, <2>21 DEF TypeOK, Crash
  <2>22. CASE Restart(r)
    BY <1>1, <2>22 DEF TypeOK, Restart
  <2>. QED
    BY <1>1, <2>1, <2>2, <2>3, <2>4, <2>5, <2>6, <2>7, <2>8, <2>9, <2>10, <2>11, <2>12, <2>13, <2>14, <2>15, <2>16, <2>17, <2>18, <2>19, <2>20, <2>21, <2>22
       DEF Step, Standing, Transaction, Faults
<1>. QED BY <1>0, <1>1 DEF Next

-----------------------------------------------------------------------------
(* A write that does not overwrite the row unread finds it as it read it.  *)
LEMMA AsRead ==
    ASSUME NEW r \in Replicas, AcquireWrites(r) \/ RenewWrites(r) \/ ReleaseWrites(r),
           "lease" \notin blind'
    PROVE  RowAsRead(r)
BY DEF AcquireWrites, RenewWrites, ReleaseWrites, Found, CreateRow, UpdateRow, RowAsRead

(* `blind` only grows.                                                     *)
LEMMA BlindGrows ==
    ASSUME [Next]_vars
    PROVE  blind \subseteq blind'
<1>1. ASSUME NEW r \in Replicas, Step(r)
      PROVE  blind \subseteq blind'
  <2>1. CASE Standing(r) \/ Resign(r) \/ ResignNothing(r) \/ WorkDone(r)
    BY <2>1 DEF Standing, StandingAcquire, StandingHeld, StandingRenew, StandingStop, Call,
                Resign, ResignNothing, WorkDone
  <2>2. CASE Transaction(r)
    BY <2>2 DEF Transaction, TxNow, TxRead, TxConflict, AcquireGranted, AcquireStandby,
                RenewGranted, RenewRefused, ReleaseDone, ReleaseNothing, AcquireWrites,
                RenewWrites, ReleaseWrites, Found, CreateRow, UpdateRow
  <2>3. CASE Faults(r)
    BY <2>3 DEF Faults, StandingUnreachable, TxFail, TxLost, Crash, Restart, AcquireWrites,
                RenewWrites, ReleaseWrites, Found, CreateRow, UpdateRow
  <2>4. CASE AcceptRead(r) \/ Accept(r) \/ AcceptFails(r)
    BY <2>4 DEF AcceptRead, Accept, AcceptFails
  <2>. QED BY <1>1, <2>1, <2>2, <2>3, <2>4 DEF Step
<1>. QED BY <1>1 DEF Next, Advance, vars

(* The comparison a replica has made with the fence stands until it writes.*)
LEMMA AcceptStep ==
    ASSUME TypeOK, NEW s \in Replicas, AcceptInv(s), Next
    PROVE  AcceptInv(s)'
<1>. USE DEF TypeOK, AcceptInv
<1>1. CASE Advance
  BY <1>1 DEF Advance
<1>2. ASSUME NEW r \in Replicas, Step(r)
      PROVE  AcceptInv(s)'
  <2>1. CASE Standing(r) \/ Resign(r) \/ ResignNothing(r) \/ WorkDone(r)
    BY <2>1 DEF Standing, StandingAcquire, StandingHeld, StandingRenew, StandingStop, Call,
                Resign, ResignNothing, WorkDone
  <2>2. CASE TxNow(r) \/ TxRead(r) \/ TxConflict(r) \/ Crash(r) \/ Restart(r)
               \/ StandingUnreachable(r)
    BY <2>2 DEF TxNow, TxRead, TxConflict, Crash, Restart, StandingUnreachable
  <2>3. CASE AcquireStandby(r) \/ RenewRefused(r) \/ ReleaseNothing(r) \/ TxFail(r)
    BY <2>3 DEF AcquireStandby, RenewRefused, ReleaseNothing, TxFail, Fail, Return
  <2>4. CASE AcquireGranted(r) \/ RenewGranted(r) \/ ReleaseDone(r) \/ TxLost(r)
    BY <2>4 DEF AcquireGranted, RenewGranted, ReleaseDone, TxLost, Fail, Work, Return
  <2>5. CASE AcceptRead(r) \/ Accept(r) \/ AcceptFails(r)
    BY <2>5 DEF AcceptRead, Accept, AcceptFails, Accepted, may_commit, Leases
  <2>. QED BY <1>2, <2>1, <2>2, <2>3, <2>4, <2>5 DEF Step, Transaction, Faults
<1>. QED BY <1>1, <1>2 DEF Next

(* A grant finds every other replica's lease expired and below the new     *)
(* token.                                                                  *)
LEMMA GrantAfterExpiry ==
    ASSUME IInv, NEW r \in Replicas, pc[r] = "commit", RowAsRead(r), AcquireWrites(r),
           NEW s \in Replicas, s # r, held[s] # NoLease
    PROVE  held[s].expires <= clock /\ held[s].token < row'.token
<1>1. /\ HeldInv(s) /\ held[s] \in Leases /\ row \in Leases /\ clock \in Nat
      /\ txNow[r] \in Nat /\ txNow[r] <= clock /\ row'.token = row.token + 1
  BY DEF IInv, TypeOK, PhaseInv, AcquireWrites, granted, RowAsRead
<1>2. row.expires <= clock \/ row.instance = r \/ row = NoLease
  BY <1>1 DEF AcquireWrites, may_acquire, RowAsRead, Leases
<1>3. held[s].token = row.token => held[s].expires <= clock
  BY <1>1, <1>2 DEF HeldInv, NoLease, Leases
<1>. QED BY <1>1, <1>3 DEF HeldInv, Leases

(* Every step that does not overwrite the row unread keeps the invariant.  *)
LEMMA InvStep ==
    ASSUME IInv, Next, "lease" \notin blind'
    PROVE  IInv'
<1>. USE DEF PhaseInv, InTransaction, HeldInv, RenewInv, FenceInv, TokensAreNotShared, NoLease
<1>0. TypeOK /\ TypeOK'
  BY TypeStep DEF IInv
<1>1. CASE Advance
  BY <1>0, <1>1 DEF IInv, TypeOK, Advance, Leases
<1>2. ASSUME NEW r \in Replicas, Step(r)
      PROVE  IInv'
  <2>1. CASE StandingUnreachable(r)
    BY <1>0, <1>2, <2>1 DEF IInv, TypeOK, Leases, StandingUnreachable
  <2>2. CASE StandingAcquire(r)
    BY <1>0, <1>2, <2>2 DEF IInv, TypeOK, Leases, StandingAcquire, Call
  <2>3. CASE StandingHeld(r)
    BY <1>0, <1>2, <2>3 DEF IInv, TypeOK, Leases, StandingHeld
  <2>4. CASE StandingRenew(r)
    BY <1>0, <1>2, <2>4 DEF IInv, TypeOK, Leases, StandingRenew, Call
  <2>5. CASE StandingStop(r)
    BY <1>0, <1>2, <2>5 DEF IInv, TypeOK, Leases, StandingStop, Call
  <2>6. CASE Resign(r)
    BY <1>0, <1>2, <2>6 DEF IInv, TypeOK, Leases, Resign, Call
  <2>7. CASE ResignNothing(r)
    BY <1>0, <1>2, <2>7 DEF IInv, TypeOK, Leases, ResignNothing
  <2>8. CASE TxNow(r)
    BY <1>0, <1>2, <2>8 DEF IInv, TypeOK, Leases, TxNow
  <2>9. CASE TxRead(r)
    BY <1>0, <1>2, <2>9 DEF IInv, TypeOK, Leases, TxRead
  <2>10. CASE TxConflict(r)
    BY <1>0, <1>2, <2>10 DEF IInv, TypeOK, Leases, TxConflict
  <2>11. CASE AcquireGranted(r)
    <3>. DEFINE lease == granted(row, r, txNow[r])
    <3>0. RowAsRead(r)
      BY <2>11, AsRead DEF AcquireGranted
    <3>1. /\ row' = lease /\ held' = [held EXCEPT ![r] = lease]
          /\ lease \in Leases
          /\ lease.instance = r /\ lease.token = row.token + 1
          /\ lease.expires = txNow[r] + Ttl /\ txNow[r] <= clock
          /\ UNCHANGED <<clock, fence>>
      BY <1>2, <2>11, <3>0
         DEF IInv, TypeOK, Leases, AcquireGranted, AcquireWrites, Work, granted, RowAsRead
    <3>2. ASSUME NEW s \in Replicas, s # r, held[s] # NoLease
          PROVE  held[s].expires <= clock /\ held[s].token < lease.token
      BY <2>11, <3>0, <3>1, <3>2, GrantAfterExpiry DEF AcquireGranted
    <3>. HIDE DEF lease
    <3>3. ASSUME NEW s \in Replicas
          PROVE  HeldInv(s)'
      <4>1. CASE s = r
        BY <1>0, <1>2, <3>1, <4>1 DEF IInv, TypeOK, Leases
      <4>2. CASE s # r
        <5>1. /\ HeldInv(s) /\ held'[s] = held[s]
              /\ held[s] \in Leases /\ row \in Leases /\ clock \in Nat
          BY <1>0, <3>1, <4>2 DEF IInv, TypeOK
        <5>. QED BY <3>1, <3>2, <4>2, <5>1 DEF Leases
      <4>. QED BY <4>1, <4>2
    <3>4. ASSUME NEW s \in Replicas
          PROVE  PhaseInv(s)' /\ RenewInv(s)'
      BY <1>0, <1>2, <2>11, <3>1 DEF IInv, TypeOK, Leases, AcquireGranted, Work
    <3>5. TokensAreNotShared'
      <4>1. \A s \in Replicas : held[s] # NoLease => held[s].token < lease.token
        BY <1>0, <1>2, <3>1 DEF IInv, TypeOK, Leases
      <4>2. ASSUME NEW s \in Replicas, NEW t \in Replicas,
                   held'[s] # NoLease, held'[t] # NoLease, held'[s].token = held'[t].token
            PROVE  s = t
        <5>1. CASE s = r \/ t = r
          BY <1>0, <3>1, <4>1, <4>2, <5>1 DEF TypeOK, Leases
        <5>2. CASE s # r /\ t # r
          BY <1>0, <3>1, <4>2, <5>2 DEF IInv, TypeOK
        <5>. QED BY <5>1, <5>2
      <4>. QED BY <4>2
    <3>6. FenceInv'
      BY <1>0, <3>1 DEF IInv, TypeOK, Leases
    <3>. QED BY <1>0, <3>3, <3>4, <3>5, <3>6 DEF IInv
  <2>12. CASE AcquireStandby(r)
    BY <1>0, <1>2, <2>12 DEF IInv, TypeOK, Leases, AcquireStandby, Return
  <2>13. CASE RenewGranted(r)
    <3>0. RowAsRead(r)
      BY <2>13, AsRead DEF RenewGranted
    <3>. USE <1>0, <1>2, <2>13, <3>0
         DEF IInv, TypeOK, Leases, RenewGranted, RenewWrites, Found, Work, renewed, RowAsRead, may_renew
    <3>1. ASSUME NEW s \in Replicas
          PROVE  HeldInv(s)'
      OBVIOUS
    <3>2. ASSUME NEW s \in Replicas
          PROVE  PhaseInv(s)' /\ RenewInv(s)'
      OBVIOUS
    <3>3. TokensAreNotShared'
      OBVIOUS
    <3>4. FenceInv'
      OBVIOUS
    <3>. QED BY <3>1, <3>2, <3>3, <3>4
  <2>14. CASE RenewRefused(r)
    BY <1>0, <1>2, <2>14 DEF IInv, TypeOK, Leases, RenewRefused, Return
  <2>15. CASE ReleaseDone(r)
    <3>1. RowAsRead(r)
      BY <2>15, AsRead DEF ReleaseDone
    <3>. QED
      BY <1>0, <1>2, <2>15, <3>1
         DEF IInv, TypeOK, Leases, ReleaseDone, ReleaseWrites, Found, Return, released, RowAsRead, may_release
  <2>16. CASE ReleaseNothing(r)
    BY <1>0, <1>2, <2>16 DEF IInv, TypeOK, Leases, ReleaseNothing, Return
  <2>17. CASE TxFail(r)
    BY <1>0, <1>2, <2>17 DEF IInv, TypeOK, Leases, TxFail, Fail, Return
  <2>18. CASE TxLost(r)
    <3>0. RowAsRead(r)
      BY <2>18, AsRead DEF TxLost
    <3>1. CASE AcquireWrites(r)
      <4>1. /\ held' = held /\ held[r] = NoLease /\ UNCHANGED <<clock, fence>>
            /\ row'.token = row.token + 1
        BY <1>2, <2>18, <3>0, <3>1 DEF IInv, TxLost, Fail, Return, AcquireWrites, granted, RowAsRead
      <4>2. ASSUME NEW s \in Replicas
            PROVE  HeldInv(s)'
        <5>1. CASE s = r
          BY <4>1, <5>1
        <5>2. CASE s # r /\ held[s] # NoLease
          <6>1. held[s].expires <= clock /\ held[s].token < row'.token
            BY <2>18, <3>0, <3>1, <5>2, GrantAfterExpiry DEF TxLost
          <6>. QED BY <1>0, <4>1, <5>2, <6>1 DEF IInv, TypeOK, Leases
        <5>. QED BY <4>1, <5>1, <5>2
      <4>3. ASSUME NEW s \in Replicas
            PROVE  PhaseInv(s)' /\ RenewInv(s)'
        BY <1>0, <1>2, <2>18 DEF IInv, TypeOK, TxLost, Fail, Return
      <4>4. TokensAreNotShared' /\ FenceInv'
        BY <1>0, <4>1 DEF IInv, TypeOK, Leases
      <4>. QED BY <1>0, <4>2, <4>3, <4>4 DEF IInv
    <3>2. CASE RenewWrites(r)
      BY <1>0, <1>2, <2>18, <3>0, <3>2
         DEF IInv, TypeOK, Leases, TxLost, Fail, Return, RenewWrites, Found, renewed, RowAsRead,
             may_renew
    <3>3. CASE ReleaseWrites(r)
      BY <1>0, <1>2, <2>18, <3>0, <3>3
         DEF IInv, TypeOK, Leases, TxLost, Fail, Return, ReleaseWrites, Found, released, RowAsRead,
             may_release
    <3>. QED BY <2>18, <3>1, <3>2, <3>3 DEF TxLost
  <2>19. CASE AcceptRead(r) \/ Accept(r) \/ AcceptFails(r)
    BY <1>0, <1>2, <2>19 DEF IInv, TypeOK, Leases, AcceptRead, Accept, AcceptFails, Accepted
  <2>20. CASE WorkDone(r)
    BY <1>0, <1>2, <2>20 DEF IInv, TypeOK, Leases, WorkDone
  <2>21. CASE Crash(r)
    BY <1>0, <1>2, <2>21 DEF IInv, TypeOK, Leases, Crash
  <2>22. CASE Restart(r)
    BY <1>0, <1>2, <2>22 DEF IInv, TypeOK, Leases, Restart
  <2>. QED
    BY <1>2, <2>1, <2>2, <2>3, <2>4, <2>5, <2>6, <2>7, <2>8, <2>9, <2>10, <2>11, <2>12, <2>13, <2>14, <2>15, <2>16, <2>17, <2>18, <2>19, <2>20, <2>21, <2>22
       DEF Step, Standing, Transaction, Faults
<1>. QED BY <1>1, <1>2 DEF Next

-----------------------------------------------------------------------------
(* Every initial state satisfies the inductive invariant.                  *)
LEMMA InvInit == Init => IInv
BY NoLeaseType
   DEF Init, IInv, TypeOK, OwnerOK, PhaseInv, InTransaction, HeldInv, RenewInv, FenceInv,
       TokensAreNotShared, NoLease, Leases

(* What a replica believes is covered by the row in every state reached    *)
(* without overwriting the row unread, and the types and the comparison    *)
(* with the fence hold in every state.                                     *)
THEOREM Invariance == Spec => []UpToOverwriting
<1>1. Init => UpToOverwriting
  BY InvInit DEF Init, UpToOverwriting, IInv, AcceptInv
<1>2. ASSUME UpToOverwriting, [Next]_vars
      PROVE  UpToOverwriting'
  <2>1. CASE Next
    <3>1. "lease" \notin blind' => IInv'
      BY <1>2, <2>1, BlindGrows, InvStep DEF UpToOverwriting
    <3>. QED BY <1>2, <2>1, <3>1, TypeStep, AcceptStep DEF UpToOverwriting
  <2>2. CASE UNCHANGED vars
    BY <1>2, <2>2
       DEF UpToOverwriting, AcceptInv, IInv, TypeOK, OwnerOK, PhaseInv, InTransaction, HeldInv,
           RenewInv, FenceInv, TokensAreNotShared, vars
  <2>. QED BY <1>2, <2>1, <2>2
<1>. QED BY <1>1, <1>2, PTL DEF Spec

(* The state keeps its types.                                              *)
THEOREM TypeCorrect == Spec => []TypeOK
<1>1. UpToOverwriting => TypeOK
  BY DEF UpToOverwriting
<1>. QED BY <1>1, Invariance, PTL

(* A lease not yet expired by the provider's clock is the lease in the row *)
(* unless the row has been overwritten unread, so no two replicas hold an  *)
(* unexpired lease at once.                                                *)
THEOREM UnexpiredIsCurrent == Spec => []UnexpiredLeaseIsCurrent
<1>1. ASSUME IInv, NEW r \in Replicas, held[r] # NoLease, clock < held[r].expires
      PROVE  row.instance = r /\ row.token = held[r].token
  <2>1. HeldInv(r) /\ held[r] \in Leases /\ row \in Leases /\ clock \in Nat
    BY <1>1 DEF IInv, TypeOK
  <2>. QED BY <1>1, <2>1 DEF HeldInv, Leases
<1>2. UpToOverwriting => UnexpiredLeaseIsCurrent
  BY <1>1 DEF UnexpiredLeaseIsCurrent, UpToOverwriting
<1>. QED BY <1>2, Invariance, PTL

(* Two replicas come to hold one fencing token only by overwriting the row *)
(* unread.                                                                 *)
THEOREM TokensUnique == Spec => []("lease" \notin blind => TokensAreNotShared)
<1>1. UpToOverwriting => ("lease" \notin blind => TokensAreNotShared)
  BY DEF UpToOverwriting, IInv
<1>. QED BY <1>1, Invariance, PTL

(* The fence orders the effects unless it is itself overwritten unread: a  *)
(* paused former holder never commits behind a newer one.                  *)
THEOREM FencedEffects == Spec => EffectsInTokenOrder
<1>. DEFINE Ordered == fence' # fence =>
                \/ fence'.token > fence.token
                \/ fence'.token = fence.token /\ (fence'.by = fence.by \/ "lease" \in blind)
                \/ "fence" \in blind'
<1>1. ASSUME UpToOverwriting, Next
      PROVE  Ordered
  <2>1. ASSUME NEW r \in Replicas, Accept(r), "fence" \notin blind'
        PROVE  Ordered
    <3>1. /\ held[r] \in Leases /\ fence.token \in Nat /\ txFence[r] \in Nat
          /\ held[r].token >= fence.token
          /\ fence' = [token |-> held[r].token, by |-> r]
      BY <1>1, <2>1 DEF UpToOverwriting, TypeOK, Accept, Accepted, AcceptInv, Leases
    <3>2. "lease" \notin blind => held[r] # NoLease /\ HeldInv(r)
      BY <1>1, <2>1 DEF UpToOverwriting, IInv, PhaseInv, Accept, Accepted
    <3>. QED BY <3>1, <3>2 DEF HeldInv, Leases
  <2>2. CASE \A r \in Replicas : ~Accept(r)
    BY <1>1, <2>2
       DEF Next, Advance, Step, Standing, Transaction, Faults, Resign, ResignNothing, WorkDone,
           StandingAcquire, StandingHeld, StandingRenew, StandingStop, Call, TxNow, TxRead,
           TxConflict, AcquireGranted, AcquireStandby, RenewGranted, RenewRefused, ReleaseDone,
           ReleaseNothing, StandingUnreachable, TxFail, TxLost, Crash, Restart, Work, Return,
           Fail, AcceptRead, AcceptFails, Accepted
  <2>. QED BY <2>1, <2>2
<1>2. UNCHANGED vars => Ordered
  BY DEF vars
<1>. QED BY <1>1, <1>2, Invariance, PTL DEF Spec, EffectsInTokenOrder

-----------------------------------------------------------------------------
(* The lease as terms *)

(* The row is the present term: its owner, not granted in the future and   *)
(* not for longer than Ttl from now.                                       *)
RowIsTerm ==
    /\ row.token <= MaxToken
    /\ row.token = 0 => row = NoLease
    /\ row.token # 0 => owner[row.token] = row.instance
    /\ row.acquired <= clock
    /\ row.expires <= clock + Ttl

(* A replica believes in a term of its own; a renewal that is about to     *)
(* write does not find the row extended further than it would extend it.   *)
ReplicaHasTerm(r) ==
    /\ held[r] # NoLease => owner[held[r].token] = r
    /\ op[r] = "renew" /\ pc[r] \in {"read", "commit"} /\ row.token = held[r].token =>
           row.expires <= txNow[r] + Ttl

(* The inductive invariant of the refinement.                              *)
TermInv == IInv /\ RowIsTerm /\ \A r \in Replicas : ReplicaHasTerm(r)

TermsUpToOverwriting ==
    UpToOverwriting /\ ("lease" \notin blind => TermInv)

(* What the writes of a call are when they commit.                         *)
Writes(r) ==
    /\ pc[r] = "commit"
    /\ AcquireWrites(r) \/ RenewWrites(r) \/ ReleaseWrites(r)
    /\ UNCHANGED <<clock, fence>>

(* A step of a replica writes the row, has an effect, or leaves both alone.*)
LEMMA Visible ==
    ASSUME NEW r \in Replicas, Step(r)
    PROVE  Accept(r) \/ Writes(r) \/ UNCHANGED <<clock, row, fence, owner>>
<1>1. CASE Standing(r) \/ Resign(r) \/ ResignNothing(r) \/ WorkDone(r)
             \/ AcceptRead(r) \/ AcceptFails(r)
  BY <1>1 DEF Standing, StandingAcquire, StandingHeld, StandingRenew, StandingStop, Call,
              Resign, ResignNothing, WorkDone, AcceptRead, AcceptFails, Accepted
<1>2. CASE TxNow(r) \/ TxRead(r) \/ TxConflict(r) \/ Crash(r) \/ Restart(r)
             \/ StandingUnreachable(r)
  BY <1>2 DEF TxNow, TxRead, TxConflict, Crash, Restart, StandingUnreachable
<1>3. CASE AcquireStandby(r) \/ RenewRefused(r) \/ ReleaseNothing(r) \/ TxFail(r)
  BY <1>3 DEF AcquireStandby, RenewRefused, ReleaseNothing, TxFail, Fail, Return
<1>4. CASE AcquireGranted(r) \/ RenewGranted(r) \/ ReleaseDone(r) \/ TxLost(r)
  BY <1>4 DEF AcquireGranted, RenewGranted, ReleaseDone, TxLost, Work, Fail, Return, Writes
<1>. QED BY <1>1, <1>2, <1>3, <1>4 DEF Step, Transaction, Faults

(* What a step of r may do to what r believes and to a renewal under way.  *)
Believes(r) ==
    /\ held'[r] \in {held[r], NoLease, row'}
    /\ op'[r] = "renew" /\ pc'[r] \in {"read", "commit"} =>
           /\ row' = row /\ held'[r] = held[r] /\ op[r] = "renew"
           /\ \/ pc[r] \in {"read", "commit"} /\ txNow'[r] = txNow[r]
              \/ txNow'[r] = clock

LEMMA OwnStep ==
    ASSUME TypeOK, NEW r \in Replicas, Step(r)
    PROVE  /\ Believes(r)
           /\ \A s \in Replicas \ {r} : /\ held'[s] = held[s] /\ op'[s] = op[s]
                                        /\ pc'[s] = pc[s] /\ txNow'[s] = txNow[s]
<1>. USE DEF TypeOK, Believes
<1>1. CASE Standing(r) \/ Resign(r) \/ ResignNothing(r) \/ WorkDone(r)
             \/ AcceptRead(r) \/ AcceptFails(r)
  BY <1>1 DEF Standing, StandingAcquire, StandingHeld, StandingRenew, StandingStop, Call,
              Resign, ResignNothing, WorkDone, AcceptRead, AcceptFails, Accepted
<1>2. CASE TxNow(r) \/ TxRead(r) \/ TxConflict(r) \/ Crash(r) \/ Restart(r)
             \/ StandingUnreachable(r)
  BY <1>2 DEF TxNow, TxRead, TxConflict, Crash, Restart, StandingUnreachable
<1>3. CASE AcquireStandby(r) \/ RenewRefused(r) \/ ReleaseNothing(r) \/ TxFail(r)
  BY <1>3 DEF AcquireStandby, RenewRefused, ReleaseNothing, TxFail, Fail, Return
<1>4. CASE AcquireGranted(r) \/ RenewGranted(r)
  BY <1>4 DEF AcquireGranted, AcquireWrites, RenewGranted, RenewWrites, Found, Work
<1>5. CASE ReleaseDone(r) \/ TxLost(r)
  BY <1>5 DEF ReleaseDone, TxLost, Fail, Return
<1>6. CASE Accept(r)
  BY <1>6 DEF Accept, Accepted
<1>. QED BY <1>1, <1>2, <1>3, <1>4, <1>5, <1>6 DEF Step, Transaction, Faults

(* What the writer of a row knows of it.                                   *)
LEMMA WriterKnows ==
    ASSUME TermInv, "lease" \notin blind',
           NEW r \in Replicas, Writes(r)
    PROVE  /\ row \in Leases /\ txRow[r] = row /\ txNow[r] \in Nat /\ clock \in Nat
           /\ txNow[r] <= clock
           /\ PhaseInv(r) /\ HeldInv(r) /\ ReplicaHasTerm(r)
<1>1. RowAsRead(r)
  BY AsRead DEF Writes
<1>. QED BY <1>1 DEF TermInv, IInv, TypeOK, Writes, RowAsRead, PhaseInv

(* acquire begins a term.                                                  *)
LEMMA AcquireBegins ==
    ASSUME TermInv, "lease" \notin blind',
           NEW r \in Replicas, Writes(r), AcquireWrites(r)
    PROVE  /\ Abstract!Begin(r) /\ RowIsTerm'
           /\ row'.token = row.token + 1
           /\ owner' = [owner EXCEPT ![row.token + 1] = r]
<1>1. /\ row' = granted(row, r, txNow[r]) /\ row.token < MaxToken
      /\ may_acquire(row, r, txNow[r])
      /\ owner' = [owner EXCEPT ![row'.token] = r] /\ UNCHANGED <<clock, fence>>
  <2>1. txRow[r] = row /\ row.token \in Nat
    BY WriterKnows DEF Leases
  <2>. QED BY <2>1 DEF AcquireWrites, Overflows, Writes
<1>2. /\ row'.token = row.token + 1 /\ row'.instance = r
      /\ row'.acquired = txNow[r] /\ row'.expires = txNow[r] + Ttl
  BY <1>1 DEF granted
<1>3. owner'[row'.token] = r
  BY <1>1, <1>2, WriterKnows DEF TermInv, IInv, TypeOK, OwnerOK, Leases
<1>4. RowIsTerm'
  BY <1>1, <1>2, <1>3, WriterKnows DEF RowIsTerm, Leases
<1>5. row.token = 0 \/ row.expires <= clock \/ owner[row.token] = r
  BY <1>1, WriterKnows DEF may_acquire, NoLease, TermInv, RowIsTerm, Leases
<1>6. Abstract!Begin(r)
  BY <1>1, <1>2, <1>5, WriterKnows DEF Abstract!Begin
<1>. QED BY <1>1, <1>2, <1>4, <1>6

(* renew extends the present term.                                         *)
LEMMA RenewExtends ==
    ASSUME TermInv, "lease" \notin blind',
           NEW r \in Replicas, Writes(r), RenewWrites(r)
    PROVE  /\ Abstract!Extend /\ RowIsTerm'
           /\ row'.token = row.token /\ held[r] # NoLease /\ held[r].token = row.token
           /\ owner' = owner
<1>1. /\ row' = renewed(row, txNow[r]) /\ may_renew(row, held[r], txNow[r])
      /\ owner' = owner /\ UNCHANGED <<clock, fence>> /\ held[r] # NoLease
      /\ op[r] = "renew" /\ pc[r] = "commit"
  BY WriterKnows DEF RenewWrites, Found, Writes, PhaseInv
<1>2. /\ row'.token = row.token /\ row'.instance = row.instance
      /\ row'.acquired = row.acquired /\ row'.expires = txNow[r] + Ttl
  BY <1>1, WriterKnows DEF renewed, Leases
<1>3. held[r].token = row.token /\ row.token # 0 /\ row.expires <= txNow[r] + Ttl
  BY <1>1, WriterKnows DEF may_renew, HeldInv, ReplicaHasTerm, Leases
<1>4. RowIsTerm'
  BY <1>1, <1>2, <1>3, WriterKnows DEF TermInv, RowIsTerm, Leases
<1>5. Abstract!Extend
  BY <1>1, <1>2, <1>3, WriterKnows DEF Abstract!Extend, Leases
<1>. QED BY <1>1, <1>2, <1>3, <1>4, <1>5

(* release ends it.                                                        *)
LEMMA ReleaseEnds ==
    ASSUME TermInv, "lease" \notin blind',
           NEW r \in Replicas, Writes(r), ReleaseWrites(r)
    PROVE  /\ Abstract!End /\ RowIsTerm'
           /\ row'.token = row.token /\ row.instance = r
           /\ owner' = owner
<1>1. /\ row' = released(row, txNow[r]) /\ may_release(row, arg[r])
      /\ owner' = owner /\ UNCHANGED <<clock, fence>> /\ arg[r].instance = r
  BY WriterKnows DEF ReleaseWrites, Found, Writes, PhaseInv, released, Leases
<1>2. row.acquired <= clock
  BY DEF TermInv, RowIsTerm
<1>3. /\ row'.token = row.token /\ row'.instance = row.instance
      /\ row'.acquired = row.acquired /\ row'.expires <= clock
  BY <1>1, <1>2, WriterKnows DEF released, Leases
<1>4. row.instance = r /\ row.token # 0
  BY <1>1 DEF may_release, TermInv, RowIsTerm, NoLease
<1>5. row'.expires \in Nat
  BY <1>1, WriterKnows, WrittenTypes DEF Leases
<1>6. RowIsTerm'
  BY <1>1, <1>3, <1>4, <1>5, WriterKnows DEF TermInv, RowIsTerm, Leases
<1>7. Abstract!End
  BY <1>1, <1>3, <1>4 DEF Abstract!End
<1>. QED BY <1>1, <1>3, <1>4, <1>6, <1>7

(* A write keeps the owners of the terms there were and is one step of the *)
(* abstract lease; a renewal of another replica's is not of the row.       *)
LEMMA WriteIsOneStep ==
    ASSUME TermInv, "lease" \notin blind',
           NEW r \in Replicas, Writes(r)
    PROVE  /\ Abstract!Next /\ RowIsTerm'
           /\ \A t \in 1..row.token : owner'[t] = owner[t]
           /\ \A s \in Replicas \ {r} :
                 held[s] # NoLease => row'.token # held[s].token
<1>1. row.token \in Nat /\ OwnerOK /\ row.token <= MaxToken
  BY WriterKnows DEF TermInv, IInv, TypeOK, RowIsTerm, Leases
<1>2. \A s \in Replicas : held[s] # NoLease =>
          /\ held[s].token \in Nat /\ held[s].token <= row.token
          /\ held[s].token = row.token => row.instance = s
  BY DEF TermInv, IInv, TypeOK, HeldInv, Leases
<1>3. CASE AcquireWrites(r)
  BY <1>1, <1>2, <1>3, AcquireBegins DEF OwnerOK, Abstract!Next
<1>4. CASE RenewWrites(r)
  BY <1>2, <1>4, RenewExtends DEF Abstract!Next
<1>5. CASE ReleaseWrites(r)
  BY <1>2, <1>5, ReleaseEnds DEF Abstract!Next
<1>. QED BY <1>3, <1>4, <1>5 DEF Writes

(* accept takes an effect of a term of the replica's own, when it does not *)
(* overwrite the fence unread.                                             *)
LEMMA AcceptIsEffect ==
    ASSUME TermInv, NEW r \in Replicas, Accept(r), AcceptInv(r), "fence" \notin blind'
    PROVE  Abstract!Next
<1>1. /\ held[r].token \in 1..row.token /\ owner[held[r].token] = r
      /\ fence.token \in Nat /\ held[r].token >= fence.token
  BY DEF TermInv, IInv, TypeOK, Accept, Accepted, AcceptInv, PhaseInv, HeldInv,
         ReplicaHasTerm, Leases
<1>2. Abstract!Effect(held[r].token)
  BY <1>1 DEF Accept, Accepted, Abstract!Effect
<1>. QED BY <1>1, <1>2 DEF Abstract!Next

(* Every step keeps the invariant of the refinement ...                    *)
LEMMA TermStep ==
    ASSUME TermInv, Next, "lease" \notin blind'
    PROVE  TermInv'
<1>1. IInv' /\ TypeOK
  BY InvStep DEF TermInv, IInv
<1>2. \A s \in Replicas : held[s] # NoLease => held[s].token \in 1..row.token
  BY DEF TermInv, IInv, TypeOK, HeldInv, Leases
<1>3. CASE Advance
  BY <1>1, <1>3 DEF TermInv, TypeOK, Advance, RowIsTerm, ReplicaHasTerm, Leases
<1>4. ASSUME NEW r \in Replicas, Step(r)
      PROVE  TermInv'
  <2>1. /\ clock' = clock /\ RowIsTerm'
        /\ \A t \in 1..row.token : owner'[t] = owner[t]
        /\ \A s \in Replicas \ {r} : held[s] # NoLease =>
              row' = row \/ row'.token # held[s].token
    <3>1. CASE Writes(r)
      BY <3>1, WriteIsOneStep DEF Writes
    <3>2. CASE Accept(r) \/ UNCHANGED <<clock, row, fence, owner>>
      BY <3>2 DEF Accept, Accepted, TermInv, RowIsTerm
    <3>. QED BY <1>4, <3>1, <3>2, Visible
  <2>2. ASSUME NEW s \in Replicas, held'[s] # NoLease
        PROVE  owner'[held'[s].token] = s
    <3>1. CASE held'[s] = held[s]
      BY <1>2, <2>1, <2>2, <3>1 DEF TermInv, ReplicaHasTerm
    <3>2. CASE held'[s] = row'
      <4>1. row'.instance = s /\ row'.token # 0
        BY <1>1, <2>2, <3>2 DEF IInv, TypeOK, HeldInv, Leases
      <4>. QED BY <2>1, <3>2, <4>1 DEF RowIsTerm
    <3>. QED BY <1>1, <1>4, <2>2, <3>1, <3>2, OwnStep DEF Believes
  <2>3. ASSUME NEW s \in Replicas, op'[s] = "renew", pc'[s] \in {"read", "commit"},
               row'.token = held'[s].token
        PROVE  row'.expires <= txNow'[s] + Ttl
    <3>1. /\ held'[s] = held[s] /\ op[s] = "renew" /\ held[s] # NoLease
          /\ \/ pc[s] \in {"read", "commit"} /\ txNow'[s] = txNow[s]
             \/ txNow'[s] = clock
      BY <1>1, <1>4, <2>3, OwnStep DEF Believes, TermInv, IInv, PhaseInv
    <3>2. row' = row
      BY <1>1, <1>4, <2>1, <2>3, <3>1, OwnStep DEF Believes
    <3>. QED BY <2>3, <3>1, <3>2 DEF TermInv, RowIsTerm, ReplicaHasTerm
  <2>. QED BY <1>1, <2>1, <2>2, <2>3 DEF TermInv, ReplicaHasTerm
<1>. QED BY <1>3, <1>4 DEF Next

(* ... and is a step of the abstract lease, or none that it sees.          *)
LEMMA StepImplements ==
    ASSUME TermsUpToOverwriting, [Next]_vars, blind' = {}
    PROVE  [Abstract!Next]_(Abstract!vars)
<1>0. TermInv /\ \A r \in Replicas : AcceptInv(r)
  BY BlindGrows DEF TermsUpToOverwriting, UpToOverwriting
<1>1. CASE Advance
  BY <1>1 DEF Advance, Abstract!Next, Abstract!Tick
<1>2. ASSUME NEW r \in Replicas, Step(r)
      PROVE  [Abstract!Next]_(Abstract!vars)
  <2>1. CASE UNCHANGED <<clock, row, fence, owner>>
    BY <2>1 DEF Abstract!vars
  <2>. QED BY <1>0, <1>2, <2>1, Visible, WriteIsOneStep, AcceptIsEffect
<1>3. CASE UNCHANGED vars
  BY <1>3 DEF vars, Abstract!vars
<1>. QED BY <1>1, <1>2, <1>3 DEF Next

(* The replicas' transactions on the two rows implement one term at a      *)
(* time, and effects in the order of terms, up to the first row that a     *)
(* commit overwrites unread.                                               *)
THEOREM LeaseRefines == Spec => ImplementsFencedLease
<1>1. Init => TermsUpToOverwriting
  <2>1. Init => UpToOverwriting
    BY InvInit DEF Init, UpToOverwriting, IInv, AcceptInv
  <2>. QED BY <2>1, InvInit
           DEF Init, TermsUpToOverwriting, TermInv, RowIsTerm, ReplicaHasTerm, NoLease
<1>2. ASSUME TermsUpToOverwriting, UpToOverwriting', [Next]_vars
      PROVE  TermsUpToOverwriting'
  <2>1. CASE UNCHANGED vars
    BY <1>2, <2>1 DEF vars, TermsUpToOverwriting, UpToOverwriting, TermInv, RowIsTerm,
                      ReplicaHasTerm
  <2>2. CASE Next
    BY <1>2, <2>2, BlindGrows, TermStep DEF TermsUpToOverwriting
  <2>. QED BY <1>2, <2>1, <2>2
<1>3. Init => Abstract!Init
  BY DEF Init, NoLease, Abstract!Init
<1>4. TermsUpToOverwriting /\ [Next]_vars => [Abstract!Next \/ blind' # {}]_(Abstract!vars)
  BY StepImplements
<1>. QED BY <1>1, <1>2, <1>3, <1>4, Invariance, PTL DEF Spec, ImplementsFencedLease

-----------------------------------------------------------------------------
(* The keys of the public API *)

\* The requests that hold the claim.
Executing == {r \in Requests : request[r].pc \in {"run", "done", "failed"}}

\* One request holds the claim, which has no outcome yet; an effect has been reported
\* exactly when its execution succeeded.
HolderInv(r) ==
    /\ Executing = {r}
    /\ claim # Nothing /\ claim.body = Body[r] /\ claim.response = Nothing
    /\ effects = IF request[r].pc = "done" THEN {<<r, request[r].reply>>} ELSE {}

\* The inductive invariant: a key without a claim has had no effect that was
\* reported.
PublicInv ==
    /\ PublicTypeOK
    /\ \A r \in Executing : HolderInv(r)
    /\ claim = Nothing => effects = {} /\ first = Nothing
    /\ OutcomeOfTheEffect

\* The pieces of a request's record.
LEMMA PublicWorks ==
    ASSUME PublicTypeOK, NEW r \in Requests
    PROVE  /\ request[r].pc \in {"idle", "create", "classify", "run", "failed", "done"}
           /\ request[r].pc = "done" => request[r].reply \in Replies
  <1>1. request[r] \in Works BY DEF PublicTypeOK
  <1> QED BY <1>1 DEF Works, Idle

\* A new key.
LEMMA PublicStarts ==
    ASSUME PublicInit
    PROVE  PublicInv
  <1>1. PublicTypeOK
    BY DEF PublicInit, PublicTypeOK, Works
  <1>2. Executing = {} BY DEF PublicInit, Executing, Idle
  <1> QED BY <1>1, <1>2 DEF PublicInv, PublicInit, OutcomeOfTheEffect

\* A step that only moves a request that does not hold the claim, to where it does
\* not hold it, or out of where it did.
LEMMA PublicMoves ==
    ASSUME PublicInv, NEW r \in Requests, NEW w \in Works,
           request' = [request EXCEPT ![r] = w],
           w.pc \notin {"run", "done", "failed"},
           UNCHANGED <<claim, effects, unreported>>,
           lost' \in BOOLEAN, faults' \in Nat,
           \/ first' = first
           \/ claim # Nothing /\ claim.response # Nothing /\ first' = claim.response
    PROVE  PublicInv'
  <1>1. request \in [Requests -> Works] BY DEF PublicInv, PublicTypeOK
  <1>2. Executing' = Executing \ {r} BY <1>1 DEF Executing
  <1>3. PublicTypeOK'
    BY <1>1 DEF PublicInv, PublicTypeOK, Claims
  <1>4. \A q \in Executing' : HolderInv(q)'
    <2> SUFFICES ASSUME NEW q \in Executing' PROVE HolderInv(q)' OBVIOUS
    <2>1. q \in Executing /\ q # r BY <1>2
    <2>2. HolderInv(q) BY <2>1 DEF PublicInv
    <2>3. request'[q] = request[q] BY <1>1, <2>1 DEF Executing
    <2>4. Executing' = {q} BY <1>2, <2>1, <2>2 DEF HolderInv
    <2> QED BY <2>2, <2>3, <2>4 DEF HolderInv
  <1>5. claim' = Nothing => effects' = {} /\ first' = Nothing BY DEF PublicInv
  <1>7. OutcomeOfTheEffect' BY DEF PublicInv, OutcomeOfTheEffect
  <1> QED BY <1>3, <1>4, <1>5, <1>7 DEF PublicInv

\* The counters of faults.
LEMMA PublicFault ==
    ASSUME PublicInv
    PROVE  /\ Fault => faults' \in Nat
           /\ Lost => faults' \in Nat /\ lost' = TRUE
           /\ faults \in Nat /\ lost \in BOOLEAN
  BY DEF PublicInv, PublicTypeOK, Fault, Lost

\* Idle, create and classify are where a request does not hold the claim.
LEMMA PublicResting ==
    /\ Idle \in Works /\ Idle.pc = "idle"
    /\ \A p \in {"create", "classify"} : /\ At(p) \in Works
                                         /\ At(p).pc = p
    /\ \A p \in {"run", "failed"} : At(p) \in Works /\ At(p).pc = p
  BY DEF Idle, Works, At

\* A client sends a request.
LEMMA PublicArrive ==
    ASSUME PublicInv, NEW r \in Requests, Arrive(r)
    PROVE  PublicInv'
  BY PublicMoves, PublicFault, PublicResting DEF Arrive, Moves

\* The claim is created.
LEMMA PublicCreate ==
    ASSUME PublicInv, NEW r \in Requests, Create(r)
    PROVE  PublicInv'
  <1>1. request \in [Requests -> Works] BY DEF PublicInv, PublicTypeOK
  <1>2. /\ claim = Nothing /\ claim' = [body |-> Body[r], response |-> Nothing]
        /\ request' = [request EXCEPT ![r] = At("run")]
        /\ UNCHANGED <<effects, unreported, first, lost, faults>>
    BY DEF Create, Moves
  <1>3. Body[r] \in Bodies BY PublicAssumption
  <1>4. claim' \in Claims BY <1>2, <1>3 DEF Claims
  <1>5. claim' # Nothing BY <1>4, PublicAssumption
  <1>6. Executing = {} BY <1>2 DEF PublicInv, HolderInv
  <1>7. Executing' = {r} BY <1>1, <1>2, <1>6, PublicResting DEF Executing
  <1>8. PublicTypeOK'
    BY <1>1, <1>2, <1>4, PublicResting DEF PublicInv, PublicTypeOK
  <1>9. effects' = {} /\ first' = Nothing BY <1>2 DEF PublicInv
  <1>10. HolderInv(r)'
    BY <1>1, <1>2, <1>5, <1>7, <1>9, PublicResting DEF HolderInv
  <1>11. OutcomeOfTheEffect'
    BY <1>2, <1>9 DEF OutcomeOfTheEffect
  <1> QED BY <1>5, <1>7, <1>8, <1>10, <1>11 DEF PublicInv

\* The claim may be left behind by a request that does not know of it.
LEMMA PublicCreateFails ==
    ASSUME PublicInv, NEW r \in Requests, CreateFails(r)
    PROVE  PublicInv'
  <1>1. request \in [Requests -> Works] BY DEF PublicInv, PublicTypeOK
  <1>2. /\ request' = [request EXCEPT ![r] = Idle]
        /\ UNCHANGED <<effects, unreported, first>> /\ faults' \in Nat /\ lost' \in BOOLEAN
        /\ \/ claim' = claim
           \/ claim = Nothing /\ claim' = [body |-> Body[r], response |-> Nothing]
    BY PublicFault DEF CreateFails, Moves
  <1>3. CASE claim' = claim
    BY <1>2, <1>3, PublicMoves, PublicResting
  <1>4. CASE claim = Nothing /\ claim' = [body |-> Body[r], response |-> Nothing]
    <2>1. Body[r] \in Bodies BY PublicAssumption
    <2>2. claim' \in Claims BY <1>4, <2>1 DEF Claims
    <2>3. claim' # Nothing BY <2>2, PublicAssumption
    <2>4. Executing = {} BY <1>4 DEF PublicInv, HolderInv
    <2>5. Executing' = {} BY <1>1, <1>2, <2>4, PublicResting DEF Executing
    <2>6. PublicTypeOK'
      BY <1>1, <1>2, <2>2, PublicResting DEF PublicInv, PublicTypeOK
    <2>7. effects' = {} /\ first' = Nothing BY <1>2, <1>4 DEF PublicInv
    <2>8. OutcomeOfTheEffect'
      BY <1>4, <2>7 DEF OutcomeOfTheEffect
    <2> QED BY <2>3, <2>5, <2>6, <2>8 DEF PublicInv
  <1> QED BY <1>2, <1>3, <1>4

\* An existing claim is classified: nothing changes but what the client knows.
LEMMA PublicClassify ==
    ASSUME PublicInv, NEW r \in Requests,
           \/ CreateConflict(r) \/ ClassifyNotFound(r) \/ Refuse(r)
           \/ Replay(r)
    PROVE  PublicInv'
  <1>1. CASE CreateConflict(r)
    BY <1>1, PublicMoves, PublicFault, PublicResting DEF CreateConflict, Moves
  <1>2. CASE ClassifyNotFound(r)
    BY <1>2, PublicMoves, PublicFault, PublicResting DEF ClassifyNotFound, Moves
  <1>3. CASE Refuse(r)
    BY <1>3, PublicMoves, PublicFault, PublicResting DEF Refuse, Moves
  <1>4. CASE Replay(r)
    <2>1. first' = first \/ first' = claim.response
      BY <1>4 DEF Replay, Answered
    <2> QED BY <1>4, <2>1, PublicMoves, PublicFault, PublicResting
            DEF Replay, Moves
  <1> QED BY <1>1, <1>2, <1>3, <1>4

\* The effect happens: for the first time, because it is the holder that executes.
LEMMA PublicExecute ==
    ASSUME PublicInv, NEW r \in Requests, Execute(r)
    PROVE  PublicInv'
  <1>1. request \in [Requests -> Works] BY DEF PublicInv, PublicTypeOK
  <1>2. PICK x \in Replies : /\ request' = [request EXCEPT ![r] = [pc |-> "done", reply |-> x]]
                             /\ effects' = effects \cup {<<r, x>>}
    BY DEF Execute, Moves
  <1>3. UNCHANGED <<claim, unreported, first, lost, faults>> /\ r \in Executing /\ request[r].pc = "run"
    BY DEF Execute, Executing
  <1>4. HolderInv(r) BY <1>3 DEF PublicInv
  <1>5. effects = {} /\ Executing = {r} BY <1>3, <1>4 DEF HolderInv
  <1>6. effects' = {<<r, x>>} BY <1>2, <1>5
  <1>7. /\ request'[r].pc = "done" /\ request'[r].reply = x
        /\ \A q \in Requests \ {r} : request'[q] = request[q]
    BY <1>1, <1>2
  <1>8. Executing' = {r} BY <1>5, <1>7 DEF Executing
  <1>9. HolderInv(r)' BY <1>3, <1>4, <1>6, <1>7, <1>8 DEF HolderInv
  <1>10. PublicTypeOK'
    <2>1. [pc |-> "done", reply |-> x] \in Works BY DEF Works
    <2> QED BY <1>1, <1>2, <1>3, <1>6, <2>1 DEF PublicInv, PublicTypeOK
  <1>11. claim' # Nothing /\ claim'.response = Nothing BY <1>3, <1>4 DEF HolderInv
  <1>12. first' = Nothing
    BY <1>3, <1>5 DEF PublicInv, OutcomeOfTheEffect
  <1>13. OutcomeOfTheEffect'
    BY <1>6, <1>11, <1>12 DEF OutcomeOfTheEffect
  <1> QED BY <1>8, <1>9, <1>10, <1>11, <1>13 DEF PublicInv

\* The execution fails, before its effect or after an effect it does not report.
LEMMA PublicExecuteFails ==
    ASSUME PublicInv, NEW r \in Requests, ExecuteFails(r)
    PROVE  PublicInv'
  <1>1. request \in [Requests -> Works] BY DEF PublicInv, PublicTypeOK
  <1>2. /\ request' = [request EXCEPT ![r] = At("failed")]
        /\ UNCHANGED <<claim, effects, first, lost>> /\ faults' \in Nat
        /\ unreported' \in {unreported, unreported \cup {r}}
        /\ r \in Executing /\ request[r].pc = "run"
    BY PublicFault DEF ExecuteFails, Moves, Executing
  <1>3. HolderInv(r) BY <1>2 DEF PublicInv
  <1>4. /\ request'[r].pc = "failed" /\ \A q \in Requests \ {r} : request'[q] = request[q]
    BY <1>1, <1>2, PublicResting
  <1>5. Executing' = {r} BY <1>3, <1>4 DEF Executing, HolderInv
  <1>6. HolderInv(r)' BY <1>2, <1>3, <1>4, <1>5 DEF HolderInv
  <1>7. PublicTypeOK'
    BY <1>1, <1>2, PublicResting DEF PublicInv, PublicTypeOK
  <1> QED BY <1>2, <1>5, <1>6, <1>7
          DEF PublicInv, OutcomeOfTheEffect

\* The outcome is recorded, whether or not the client is told.
LEMMA PublicComplete ==
    ASSUME PublicInv, NEW r \in Requests,
           Complete(r) \/ CompleteLost(r)
    PROVE  PublicInv'
  <1> DEFINE o == Outcome(r)
  <1>1. request \in [Requests -> Works] BY DEF PublicInv, PublicTypeOK
  <1>2. /\ request' = [request EXCEPT ![r] = Idle]
        /\ claim' = [claim EXCEPT !.response = o]
        /\ UNCHANGED <<effects, unreported>> /\ faults' \in Nat /\ lost' \in BOOLEAN
        /\ r \in Executing /\ request[r].pc = "done"
    BY PublicFault
       DEF Complete, CompleteLost, Moves, Executing
  <1>3. first' = first \/ first' = o
    BY DEF Complete, CompleteLost, Answered
  <1>4. HolderInv(r) BY <1>2 DEF PublicInv
  <1>5. effects = {<<r, request[r].reply>>} BY <1>2, <1>4 DEF HolderInv
  <1>6. request[r].reply \in Replies BY <1>2, PublicWorks DEF PublicInv
  <1>7. o = [body |-> Body[r], reply |-> request[r].reply] BY DEF Outcome
  <1>8. o \in Outcomes
    BY <1>6, <1>7, PublicAssumption DEF Outcomes
  <1> HIDE DEF o
  <1>9. claim \in Claims /\ claim.body = Body[r]
    BY <1>4 DEF PublicInv, HolderInv, PublicTypeOK
  <1>10. claim' \in Claims /\ claim'.body = Body[r] /\ claim'.response = o
    BY <1>2, <1>8, <1>9 DEF Claims
  <1>11. claim' # Nothing BY <1>10, PublicAssumption
  <1>12. Executing' = {}
    BY <1>1, <1>2, <1>4, PublicResting DEF Executing, HolderInv
  <1>13. PublicTypeOK'
    BY <1>1, <1>2, <1>3, <1>8, <1>10, PublicResting DEF PublicInv, PublicTypeOK
  <1> DEFINE e == <<r, request[r].reply>>
  <1>15. /\ e \in effects' /\ o = [body |-> Body[e[1]], reply |-> e[2]]
         /\ claim'.body = Body[e[1]]
    BY <1>2, <1>5, <1>7, <1>10
  <1> HIDE DEF e
  <1>16. OutcomeOfTheEffect'
    <2>1. first' # Nothing => \E f \in effects' : first' = [body |-> Body[f[1]], reply |-> f[2]]
      BY <1>2, <1>3, <1>15 DEF PublicInv, OutcomeOfTheEffect
    <2>2. \E f \in effects' : /\ claim'.response = [body |-> Body[f[1]], reply |-> f[2]]
                              /\ claim'.body = Body[f[1]]
      BY <1>10, <1>15
    <2> QED BY <2>1, <2>2 DEF OutcomeOfTheEffect
  <1> QED BY <1>11, <1>12, <1>13, <1>16 DEF PublicInv

\* The holder gives up: its claim stays, or goes with the execution that failed.
LEMMA PublicGivesUp ==
    ASSUME PublicInv, NEW r \in Requests,
           \/ CompleteFails(r) \/ ReleaseFails(r) \/ Release(r)
    PROVE  PublicInv'
  <1>1. CASE CompleteFails(r) \/ ReleaseFails(r)
    BY <1>1, PublicMoves, PublicFault, PublicResting
       DEF CompleteFails, ReleaseFails, Moves
  <1>2. CASE Release(r)
    <2>1. request \in [Requests -> Works] BY DEF PublicInv, PublicTypeOK
    <2>2. /\ request' = [request EXCEPT ![r] = Idle]
          /\ claim' = IF claim # Nothing /\ claim.response = Nothing THEN Nothing ELSE claim
          /\ UNCHANGED <<effects, unreported, first, lost, faults>>
          /\ r \in Executing /\ request[r].pc = "failed"
      BY <1>2 DEF Release, Moves, Executing
    <2>3. HolderInv(r) BY <2>2 DEF PublicInv
    <2>4. claim' = Nothing /\ effects' = {} BY <2>2, <2>3 DEF HolderInv
    <2>5. first' = Nothing BY <2>2, <2>4 DEF PublicInv, OutcomeOfTheEffect
    <2>6. Executing' = {} BY <2>1, <2>2, <2>3, PublicResting DEF Executing, HolderInv
    <2>7. PublicTypeOK'
      BY <2>1, <2>2, <2>4, <2>5, PublicResting DEF PublicInv, PublicTypeOK
    <2> QED BY <2>4, <2>5, <2>6, <2>7
            DEF PublicInv, OutcomeOfTheEffect
  <1> QED BY <1>1, <1>2

\* The node ends.
LEMMA PublicCrash ==
    ASSUME PublicInv, NodeEnds
    PROVE  PublicInv'
  <1>1. request' = [r \in Requests |-> Idle] /\ UNCHANGED <<claim, effects, unreported, first>>
    BY DEF NodeEnds
  <1>2. faults' \in Nat /\ lost' \in BOOLEAN BY PublicFault DEF NodeEnds
  <1>3. Executing' = {} BY <1>1, PublicResting DEF Executing
  <1>4. PublicTypeOK' BY <1>1, <1>2, PublicResting DEF PublicInv, PublicTypeOK
  <1> QED BY <1>1, <1>3, <1>4
          DEF PublicInv, OutcomeOfTheEffect

\* Every step keeps the invariant.
LEMMA PublicStep ==
    ASSUME PublicInv, [PublicNext]_publicVars
    PROVE  PublicInv'
  <1>1. CASE NodeEnds BY <1>1, PublicCrash
  <1>2. ASSUME NEW r \in Requests, Serve(r)
        PROVE  PublicInv'
    BY <1>2, PublicArrive, PublicCreate, PublicClassify, PublicExecute, PublicComplete,
       PublicGivesUp DEF Serve
  <1>3. ASSUME NEW r \in Requests, Fails(r)
        PROVE  PublicInv'
    BY <1>3, PublicCreateFails, PublicExecuteFails, PublicComplete, PublicGivesUp
       DEF Fails
  <1>4. CASE UNCHANGED publicVars
    BY <1>4 DEF publicVars, PublicInv, PublicTypeOK, Executing, HolderInv,
                OutcomeOfTheEffect
  <1> QED BY <1>1, <1>2, <1>3, <1>4 DEF PublicNext

\* The invariant holds in every state.
LEMMA PublicStays == PublicSpec => []PublicInv
  <1>1. PublicInit => PublicInv BY PublicStarts
  <1>2. PublicInv /\ [PublicNext]_publicVars => PublicInv' BY PublicStep
  <1> QED BY <1>1, <1>2, PTL DEF PublicSpec

\* Every variable of the public keys keeps its type.
THEOREM PublicTypeCorrect == PublicSpec => []PublicTypeOK
  <1>1. PublicInv => PublicTypeOK BY DEF PublicInv
  <1> QED BY <1>1, PublicStays, PTL

\* However many requests use a key, whatever is retried, lost or cut short by the
\* end of the node, an effect that was reported is the last one under its key.
THEOREM ReportedEffectIsTheLast == PublicSpec => EffectIsNotRepeated
  <1> DEFINE Last == effects # {} => UNCHANGED <<effects, unreported>>
  <1>1. ASSUME PublicInv, [PublicNext]_publicVars
        PROVE  Last
    <2>1. ASSUME NEW r \in Requests, Execute(r) \/ ExecuteFails(r)
          PROVE  effects = {}
      <3>1. request[r].pc = "run" /\ r \in Executing
        BY <2>1 DEF Execute, ExecuteFails, Executing
      <3>2. HolderInv(r) BY <1>1, <3>1 DEF PublicInv
      <3> QED BY <3>1, <3>2 DEF HolderInv
    <2>2. ASSUME NEW r \in Requests, Serve(r) \/ Fails(r), ~Execute(r), ~ExecuteFails(r)
          PROVE  UNCHANGED <<effects, unreported>>
      BY <2>2 DEF Serve, Fails, Arrive, Create, CreateConflict, ClassifyNotFound, Refuse,
                  Replay, Complete, Release, CreateFails, CompleteLost, CompleteFails,
                  ReleaseFails
    <2>3. CASE NodeEnds \/ UNCHANGED publicVars
      BY <2>3 DEF NodeEnds, publicVars
    <2> QED BY <1>1, <2>1, <2>2, <2>3 DEF PublicNext
  <1> QED BY <1>1, PublicStays, PTL DEF PublicSpec, EffectIsNotRepeated

\* What a client is first given, and what is replayed, is the outcome of the effect
\* that happened, under the digest of the request that had it.
THEOREM OutcomesAreOfTheEffect == PublicSpec => []OutcomeOfTheEffect
  <1>1. PublicInv => OutcomeOfTheEffect BY DEF PublicInv
  <1> QED BY <1>1, PublicStays, PTL

-----------------------------------------------------------------------------
(* The routing of the module supervisor *)

\* A process belongs to a module that configure leaves alone.
ProcessesAreHeld ==
    \A m \in Modules : process[m] # "none" => state[m] \in {"ready", "active", "draining"}

\* A module that can be staged or activated passed conformance, and one that can
\* be activated was not drained: drain refuses it.
ReadyIsFit ==
    \A m \in Modules :
        /\ state[m] \in {"validated", "ready"} => m \in conformant
        /\ state[m] = "ready" => process[m] # "drained"

\* The inductive invariant.
RoutesInv ==
    /\ SupervisorTypeOK
    /\ ActiveIsRouted
    /\ RoutingIsSound
    /\ ProcessRunsItsConfiguration
    /\ ProcessesAreHeld
    /\ ReadyIsFit

\* A new supervisor has no modules.
LEMMA RoutesInit ==
    ASSUME SupervisorInit
    PROVE  RoutesInv
    BY SupervisorAssumption DEF SupervisorInit, RoutesInv, SupervisorTypeOK, States,
                           Processes, ActiveIsRouted,
                           RoutingIsSound, ProcessRunsItsConfiguration,
                           ProcessesAreHeld, ReadyIsFit

\* install
LEMMA InstallSound ==
    ASSUME RoutesInv, NEW m \in Modules, Install(m)
    PROVE  RoutesInv'
    BY DEF Install, routing, RoutesInv, SupervisorTypeOK, States,
           ActiveIsRouted, RoutingIsSound,
           ProcessRunsItsConfiguration, ProcessesAreHeld, ReadyIsFit

\* validate
LEMMA ValidateSound ==
    ASSUME RoutesInv, NEW m \in Modules, Validate(m)
    PROVE  RoutesInv'
    BY DEF Validate, routing, RoutesInv, SupervisorTypeOK, States,
           ActiveIsRouted, RoutingIsSound,
           ProcessRunsItsConfiguration, ProcessesAreHeld, ReadyIsFit

\* configure
LEMMA ConfigureSound ==
    ASSUME RoutesInv, NEW m \in Modules, NEW c \in Configurations, Configure(m, c)
    PROVE  RoutesInv'
    BY DEF Configure, routing, RoutesInv, SupervisorTypeOK,
           ActiveIsRouted, RoutingIsSound,
           ProcessRunsItsConfiguration, ProcessesAreHeld, ReadyIsFit

\* stage
LEMMA StageSound ==
    ASSUME RoutesInv, NEW m \in Modules, Stage(m) \/ StageFails(m)
    PROVE  RoutesInv'
<1>1. CASE Stage(m)
    BY <1>1 DEF Stage, MayStage, routing, RoutesInv,
                SupervisorTypeOK, States, Processes, ActiveIsRouted,
                RoutingIsSound, ProcessRunsItsConfiguration,
                ProcessesAreHeld, ReadyIsFit
<1>2. CASE StageFails(m)
    BY <1>2 DEF StageFails, MayStage, routing, RoutesInv,
                SupervisorTypeOK, States, ActiveIsRouted,
                RoutingIsSound, ProcessRunsItsConfiguration,
                ProcessesAreHeld, ReadyIsFit
<1> QED BY <1>1, <1>2

\* activate
LEMMA ActivateSound ==
    ASSUME RoutesInv, NEW m \in Modules, Activate(m)
    PROVE  RoutesInv'
<1> DEFINE k == Kind[m]
           old == active[k]
<1>1. /\ state[m] = "ready"
      /\ generation < MaxGeneration
      /\ active' = [active EXCEPT ![k] = m]
      /\ previous' = [previous EXCEPT ![k] = IF old = m THEN NoModule ELSE old]
      /\ state' = [n \in Modules |-> IF n = m THEN "active"
                                     ELSE IF n = old THEN "draining" ELSE state[n]]
      /\ generation' = generation + 1
      /\ UNCHANGED <<conformant, configuration, process, runs>>
    BY DEF Activate
<1>2. k \in Kinds /\ old \in Modules \cup {NoModule} /\ m \in conformant
    BY <1>1, SupervisorAssumption DEF RoutesInv, SupervisorTypeOK, ReadyIsFit
<1>3. SupervisorTypeOK'
    BY <1>1, <1>2, SupervisorAssumption DEF RoutesInv, SupervisorTypeOK, States
<1>4. ActiveIsRouted'
  <2> SUFFICES ASSUME NEW n \in Modules, state'[n] = "active"
               PROVE  active'[Kind[n]] = n
    BY DEF ActiveIsRouted
  <2>1. CASE n = m
    BY <1>1, <1>2, <2>1 DEF RoutesInv, SupervisorTypeOK
  <2>2. CASE n # m
    <3>1. state[n] = "active" /\ n # old
      BY <1>1, <2>2
    <3>2. active[Kind[n]] = n /\ Kind[n] # k
      BY <3>1 DEF RoutesInv, ActiveIsRouted
    <3> QED BY <1>1, <3>2, SupervisorAssumption DEF RoutesInv, SupervisorTypeOK
  <2> QED BY <2>1, <2>2
<1>5. RoutingIsSound'
  <2> SUFFICES ASSUME NEW j \in Kinds
               PROVE  /\ \A n \in {active'[j], previous'[j]} \ {NoModule} :
                            n \in conformant /\ Kind[n] = j
                      /\ previous'[j] # NoModule => active'[j] # NoModule /\ previous'[j] # active'[j]
    BY <1>1 DEF RoutingIsSound
  <2>1. CASE j = k
    <3>1. active'[j] = m /\ previous'[j] = IF old = m THEN NoModule ELSE old
      BY <1>1, <2>1 DEF RoutesInv, SupervisorTypeOK
    <3>2. old # NoModule => old \in conformant /\ Kind[old] = k
      BY <1>2 DEF RoutesInv, RoutingIsSound
    <3> QED BY <1>2, <2>1, <3>1, <3>2, SupervisorAssumption
  <2>2. CASE j # k
    <3>1. active'[j] = active[j] /\ previous'[j] = previous[j]
      BY <1>1, <2>2 DEF RoutesInv, SupervisorTypeOK
    <3> QED BY <3>1 DEF RoutesInv, RoutingIsSound
  <2> QED BY <2>1, <2>2
<1>6. ProcessRunsItsConfiguration' /\ ProcessesAreHeld' /\ ReadyIsFit'
    BY <1>1 DEF RoutesInv, ProcessRunsItsConfiguration, ProcessesAreHeld, ReadyIsFit
<1> QED BY <1>3, <1>4, <1>5, <1>6 DEF RoutesInv

\* drain
LEMMA DrainSound ==
    ASSUME RoutesInv, NEW m \in Modules, Drain(m) \/ DrainFails(m)
    PROVE  RoutesInv'
<1>1. CASE Drain(m)
    BY <1>1 DEF Drain, MayDrain, routing, RoutesInv,
                SupervisorTypeOK, States, Processes, ActiveIsRouted,
                RoutingIsSound, ProcessRunsItsConfiguration,
                ProcessesAreHeld, ReadyIsFit
<1>2. CASE DrainFails(m)
    BY <1>2 DEF DrainFails, MayDrain, routing, RoutesInv,
                SupervisorTypeOK, Processes, ActiveIsRouted,
                RoutingIsSound, ProcessRunsItsConfiguration,
                ProcessesAreHeld, ReadyIsFit
<1> QED BY <1>1, <1>2

\* stop
LEMMA StopSound ==
    ASSUME RoutesInv, NEW m \in Modules, Stop(m) \/ StopFails(m)
    PROVE  RoutesInv'
<1>1. CASE Stop(m)
    BY <1>1 DEF Stop, routing, RoutesInv, SupervisorTypeOK, States,
                Processes, ActiveIsRouted, RoutingIsSound,
                ProcessRunsItsConfiguration, ProcessesAreHeld, ReadyIsFit
<1>2. CASE StopFails(m)
    BY <1>2 DEF StopFails, routing, RoutesInv, SupervisorTypeOK,
                Processes, ActiveIsRouted, RoutingIsSound,
                ProcessRunsItsConfiguration, ProcessesAreHeld, ReadyIsFit
<1> QED BY <1>1, <1>2

\* rollback
LEMMA RollbackSound ==
    ASSUME RoutesInv, NEW k \in Kinds, Rollback(k)
    PROVE  RoutesInv'
<1> DEFINE back == previous[k]
           current == active[k]
<1>1. /\ back # NoModule
      /\ current # NoModule
      /\ process[back] \in {"serving", "drained"}
      /\ generation < MaxGeneration
      /\ process' = [process EXCEPT ![back] = "serving"]
      /\ active' = [active EXCEPT ![k] = back]
      /\ previous' = [previous EXCEPT ![k] = current]
      /\ state' = [state EXCEPT ![current] = "draining", ![back] = "active"]
      /\ generation' = generation + 1
      /\ UNCHANGED <<conformant, configuration, runs>>
    BY DEF Rollback
<1>2. back \in Modules /\ current \in Modules /\ back # current
        /\ Kind[back] = k /\ Kind[current] = k /\ back \in conformant /\ current \in conformant
    BY <1>1 DEF RoutesInv, SupervisorTypeOK, RoutingIsSound
<1>3. SupervisorTypeOK'
    BY <1>1, <1>2, SupervisorAssumption
    DEF RoutesInv, SupervisorTypeOK, States, Processes
<1>4. \A n \in Modules : state'[n] = IF n = back THEN "active"
                                     ELSE IF n = current THEN "draining" ELSE state[n]
    BY <1>1, <1>2 DEF RoutesInv, SupervisorTypeOK
<1>5. ActiveIsRouted'
  <2> SUFFICES ASSUME NEW n \in Modules, state'[n] = "active"
               PROVE  active'[Kind[n]] = n
    BY DEF ActiveIsRouted
  <2>1. CASE n = back
    BY <1>1, <1>2, <2>1 DEF RoutesInv, SupervisorTypeOK
  <2>2. CASE n # back
    <3>1. state[n] = "active" /\ n # current
      BY <1>4, <2>2
    <3>2. active[Kind[n]] = n /\ Kind[n] # k
      BY <3>1 DEF RoutesInv, ActiveIsRouted
    <3> QED BY <1>1, <3>2, SupervisorAssumption DEF RoutesInv, SupervisorTypeOK
  <2> QED BY <2>1, <2>2
<1>6. RoutingIsSound'
    BY <1>1, <1>2, SupervisorAssumption DEF RoutesInv, SupervisorTypeOK, RoutingIsSound
<1>7. \A n \in Modules : process'[n] = IF n = back THEN "serving" ELSE process[n]
    BY <1>1, <1>2 DEF RoutesInv, SupervisorTypeOK
<1>8. ProcessRunsItsConfiguration'
    BY <1>1, <1>2, <1>7 DEF RoutesInv, ProcessRunsItsConfiguration
<1>9. ProcessesAreHeld'
    BY <1>4, <1>7 DEF RoutesInv, ProcessesAreHeld
<1>10. ReadyIsFit'
  <2> SUFFICES ASSUME NEW n \in Modules
               PROVE  /\ state'[n] \in {"validated", "ready"} => n \in conformant
                      /\ state'[n] = "ready" => process'[n] # "drained"
    BY <1>1 DEF ReadyIsFit
  <2>1. CASE n = back \/ n = current
    BY <1>2, <1>4, <2>1
  <2>2. CASE n # back /\ n # current
    <3>1. state'[n] = state[n] /\ process'[n] = process[n]
      BY <1>4, <1>7, <2>2
    <3> QED BY <3>1 DEF RoutesInv, ReadyIsFit
  <2> QED BY <2>1, <2>2
<1> QED BY <1>3, <1>5, <1>6, <1>8, <1>9, <1>10 DEF RoutesInv

\* A rollback that is refused, and a process that dies.
LEMMA ProcessChangeSound ==
    ASSUME RoutesInv,
           \/ \E k \in Kinds : RollbackFails(k)
           \/ \E m \in Modules : ProcessDies(m)
    PROVE  RoutesInv'
<1>1. ASSUME NEW m \in Modules, process[m] \in {"serving", "drained"},
             NEW p \in {"serving", "dead"},
             process' = [process EXCEPT ![m] = p],
             UNCHANGED <<state, conformant, configuration, runs, active, previous, generation>>
      PROVE  RoutesInv'
    BY <1>1 DEF RoutesInv, SupervisorTypeOK, Processes, ActiveIsRouted,
                RoutingIsSound, ProcessRunsItsConfiguration,
                ProcessesAreHeld, ReadyIsFit
<1>2. ASSUME NEW k \in Kinds, RollbackFails(k) PROVE RoutesInv'
  <2>1. previous[k] \in Modules
    BY <1>2 DEF RollbackFails, RoutesInv, SupervisorTypeOK
  <2> QED BY <1>1, <1>2, <2>1 DEF RollbackFails, routing
<1>3. ASSUME NEW m \in Modules, ProcessDies(m) PROVE RoutesInv'
    BY <1>1, <1>3 DEF ProcessDies, routing
<1> QED BY <1>2, <1>3

\* Every step keeps the invariant.
LEMMA RoutesNext ==
    ASSUME RoutesInv, [SupervisorNext]_supervisorVars
    PROVE  RoutesInv'
<1>1. CASE UNCHANGED supervisorVars
    BY <1>1 DEF supervisorVars, RoutesInv, SupervisorTypeOK, ActiveIsRouted,
                RoutingIsSound, ProcessRunsItsConfiguration,
                ProcessesAreHeld, ReadyIsFit
<1>2. CASE SupervisorNext
    BY <1>2, InstallSound, ValidateSound, ConfigureSound, StageSound, ActivateSound,
       DrainSound, StopSound, RollbackSound, ProcessChangeSound
    DEF SupervisorNext
<1> QED BY <1>1, <1>2

\* The invariant holds of every reachable state.
LEMMA RoutesStay == SupervisorSpec => []RoutesInv
<1>1. SupervisorInit => RoutesInv
    BY RoutesInit
<1>2. RoutesInv /\ [SupervisorNext]_supervisorVars => RoutesInv'
    BY RoutesNext
<1> QED BY <1>1, <1>2, PTL DEF SupervisorSpec

\* The supervisor's records keep their types and no module is left staged.
THEOREM SupervisorTypeCorrect == SupervisorSpec => []SupervisorTypeOK
<1>1. RoutesInv => SupervisorTypeOK
    BY DEF RoutesInv
<1> QED BY <1>1, RoutesStay, PTL

\* The active module of a kind (activate, rollback) is the one it routes to.
THEOREM OneActiveModule == SupervisorSpec => []ActiveIsRouted
<1>1. RoutesInv => ActiveIsRouted
    BY DEF RoutesInv
<1> QED BY <1>1, RoutesStay, PTL

\* Work is routed, and rolled back, to conformant modules of the right kind.
THEOREM RoutingStaysSound == SupervisorSpec => []RoutingIsSound
<1>1. RoutesInv => RoutingIsSound
    BY DEF RoutesInv
<1> QED BY <1>1, RoutesStay, PTL

\* configure never changes what a running process was launched with.
THEOREM ConfigurationIsInForce == SupervisorSpec => []ProcessRunsItsConfiguration
<1>1. RoutesInv => ProcessRunsItsConfiguration
    BY DEF RoutesInv
<1> QED BY <1>1, RoutesStay, PTL

\* Only activate and rollback make a module active.
LEMMA MadeActive ==
    ASSUME RoutesInv, SupervisorNext, NEW m \in Modules, state[m] # "active", state'[m] = "active"
    PROVE  Activate(m) \/ \E k \in Kinds : Rollback(k) /\ previous[k] = m
<1>1. ASSUME NEW n \in Modules, Activate(n) PROVE n = m
    BY <1>1 DEF Activate
<1>2. ASSUME NEW k \in Kinds, Rollback(k) PROVE previous[k] = m
    BY <1>2 DEF Rollback, RoutesInv, SupervisorTypeOK
<1>3. ASSUME NEW n \in Modules,
             \/ Install(n) \/ Validate(n) \/ Stage(n) \/ StageFails(n)
             \/ Drain(n) \/ DrainFails(n) \/ Stop(n)
             \/ StopFails(n) \/ ProcessDies(n)
      PROVE  FALSE
    BY <1>3 DEF RoutesInv, SupervisorTypeOK, Install, Validate,
                Stage, StageFails, Drain, DrainFails,
                Stop, StopFails, ProcessDies
<1>4. ASSUME NEW n \in Modules, NEW c \in Configurations, Configure(n, c) PROVE FALSE
    BY <1>4 DEF Configure
<1>5. ASSUME NEW k \in Kinds, RollbackFails(k) PROVE FALSE
    BY <1>5 DEF RollbackFails
<1> QED BY <1>1, <1>2, <1>3, <1>4, <1>5 DEF SupervisorNext

\* A process that was drained takes work again only after restore (rollback).
THEOREM DrainedIsNotRouted == SupervisorSpec => NeverRoutesToDrained
<1>1. ASSUME RoutesInv, SupervisorNext, NEW m \in Modules, state[m] # "active", state'[m] = "active"
      PROVE  process'[m] # "drained"
  <2>1. CASE Activate(m)
    BY <1>1, <2>1 DEF Activate, RoutesInv, ReadyIsFit
  <2>2. ASSUME NEW k \in Kinds, Rollback(k), previous[k] = m
        PROVE  process'[m] # "drained"
    BY <1>1, <2>2 DEF Rollback, RoutesInv, SupervisorTypeOK
  <2> QED BY <1>1, <2>1, <2>2, MadeActive
<1>2. RoutesInv /\ [SupervisorNext]_supervisorVars =>
        [\A m \in Modules : state[m] # "active" /\ state'[m] = "active"
                              => process'[m] # "drained"]_supervisorVars
    BY <1>1
<1> QED BY <1>2, RoutesStay, PTL DEF SupervisorSpec, NeverRoutesToDrained
=============================================================================
