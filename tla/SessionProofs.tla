--------------------------- MODULE SessionProofs ---------------------------
(***************************************************************************)
(* Theorems about the sessions of vpn-authd: the limit of an account, the  *)
(* peer of a session, the audited end of a session, the peers that no      *)
(* session accounts for, two sessions with one address, the route of a     *)
(* session, and its life as SessionService describes it.  They rest on the *)
(* inductive invariant of AuthProofs.                                      *)
(***************************************************************************)
EXTENDS AuthProofs, FiniteSetTheorems

-----------------------------------------------------------------------------
(* The limit *)

(* handle_login has counted and has not yet inserted. *)
Counted == {"login_alloc", "login_peer", "login_insert"}

(* No other login runs meanwhile, and renewals neither: what was counted   *)
(* can only have become less.                                              *)
LoginUnderLimit ==
    api.pc \in Counted => Cardinality(Active(row, api.account, clock)) < MaxSessions

RowsFinite == IsFiniteSet({k \in Key : row[k] # NoRow})

LimitInv == RowsFinite /\ LoginUnderLimit

LEMMA ActiveFinite ==
    ASSUME NEW t, IsFiniteSet({k \in Key : t[k] # NoRow}), NEW a, NEW now
    PROVE  IsFiniteSet(Active(t, a, now))
BY FS_Subset DEF Active, IsLive

LEMMA ClockGrows == IInv /\ [Next]_vars => clock \in Nat /\ clock' \in Nat /\ clock' >= clock
<1> SUFFICES ASSUME IInv, [Next]_vars
             PROVE  clock \in Nat /\ clock' \in Nat /\ clock' >= clock
  OBVIOUS
<1>1. clock \in Nat
  BY DEF IInv, TypeOK
<1>2. clock' = clock \/ clock' = clock + 1
  BY DEF Next, vars, MainStep, ApiStep, LoginStep, LogoutStep, RenewStep,
     ReaperStep, Request, Environment, LoadStatic, RevokeStale, ApiStart, ReaperStart,
     ReaperJoin, ApiStop, LoginAllocate, LoginExhausted, LoginAddPeer, LoginInsert,
     LoginUndoPeer, LoginUndoIp, LoginAudit, LogoutRemovePeer, LogoutRelease,
     LogoutRevoke, LogoutAudit, RenewUpdate, RenewAudit, ReaperSelect,
     ReaperRemovePeer, ReaperRelease, ReaperRevoke, ReaperAudit, ReaperWake,
     LoginCount, LogoutLookup, RenewLookup, Start, Signal, Tick, Die
<1>3. QED
  BY <1>1, <1>2

(* A session becomes active in two places. *)
LEMMA ActiveStep ==
    ASSUME IInv, [Next]_vars, NEW a, NEW k \in Active(row', a, clock'),
           k \notin Active(row, a, clock)
    PROVE  /\ k = api.key
           /\ \/ LoginInsert /\ a = api.account
              \/ RenewUpdate /\ row[k].expires < clock
<1>0. /\ row \in [Key -> Row \cup {NoRow}]
      /\ api \in ApiState
      /\ api.pc \in LoginPc => api.key \in Key
      /\ api.pc \in LogoutPc \cup RenewPc => api.key \in Key /\ row[api.key] # NoRow
      /\ reaper.pc = "revoke" => reaper.key \in Key /\ row[reaper.key] # NoRow
  BY DEF IInv, TypeOK, LoginLocals, KeysHaveRows
<1>1. /\ k \in Key /\ row'[k] # NoRow /\ row'[k].revoked = FALSE
      /\ row'[k].account = a /\ row'[k].expires >= clock'
  <2>1. row' \in [Key -> Row \cup {NoRow}]
    BY TypeStep DEF TypeOK
  <2>2. QED
    BY <2>1 DEF Active, IsLive, Row
<1>2. row'[k] # row[k]
  <2>1. ASSUME row'[k] = row[k] PROVE FALSE
    <3>1. row[k] \in Row /\ row[k].expires \in Nat
      BY <1>0, <1>1, <2>1 DEF Row
    <3>2. row[k].expires >= clock
      BY <1>1, <2>1, <3>1, ClockGrows
    <3>3. QED
      BY <1>1, <2>1, <3>2 DEF Active, IsLive
  <2>2. QED
    BY <2>1
<1>3. ASSUME NEW l \in Key, row[l] # NoRow, row' = Revoked(row, l)
      PROVE  FALSE
  <2>1. CASE k = l
    BY <1>0, <1>1, <1>3, <2>1 DEF Revoked, Row
  <2>2. CASE k # l
    BY <1>0, <1>1, <1>2, <1>3, <2>2 DEF Revoked
  <2>3. QED
    BY <2>1, <2>2
<1>4. CASE RevokeStale
  <2>1. row' = AllRevoked(row)
    BY <1>2, <1>4 DEF RevokeStale
  <2>2. row[k] # NoRow /\ row'[k] = [row[k] EXCEPT !.revoked = TRUE]
    BY <1>1, <2>1 DEF AllRevoked
  <2>3. QED
    BY <1>0, <1>1, <2>2 DEF Row
<1>5. CASE LoginInsert
  <2>1. row' = Inserted(row, api.key, api.account, api.ip, api.expires)
    BY <1>2, <1>5 DEF LoginInsert
  <2>2. api.key \in Key
    BY <1>0, <1>5 DEF LoginInsert, LoginPc
  <2>3. k = api.key
    BY <1>0, <1>1, <1>2, <2>1 DEF Inserted
  <2>4. row'[k].account = api.account
    BY <1>0, <2>1, <2>2, <2>3 DEF Inserted
  <2>5. QED
    BY <1>1, <1>5, <2>3, <2>4
<1>6. CASE RenewUpdate
  <2>1. row' = Extended(row, api.key, api.expires)
    BY <1>2, <1>6 DEF RenewUpdate
  <2>2. k = api.key
    BY <1>0, <1>1, <1>2, <2>1 DEF Extended
  <2>3. row[k] \in Row /\ row'[k] = [row[k] EXCEPT !.expires = api.expires]
    BY <1>0, <1>6, <2>1, <2>2 DEF RenewUpdate, RenewPc, Extended
  <2>4. /\ row[k] # NoRow /\ ~ row[k].revoked /\ row[k].account = a
        /\ row[k].expires \in Nat
    BY <1>1, <2>3, DbAssumption DEF Row
  <2>5. ~ (row[k].expires >= clock)
    BY <1>1, <2>4 DEF Active, IsLive
  <2>6. row[k].expires < clock
    BY <2>4, <2>5, ClockGrows
  <2>7. QED
    BY <1>6, <2>2, <2>6
<1>7. CASE LogoutRevoke
  BY <1>0, <1>2, <1>3, <1>7 DEF LogoutRevoke, RevokeRow, LogoutPc
<1>8. CASE ReaperRevoke
  BY <1>0, <1>2, <1>3, <1>8 DEF ReaperRevoke, RevokeRow
<1>9. QED
  BY <1>2, <1>4, <1>5, <1>6, <1>7, <1>8, RowChange

LEMMA RowsFiniteStep == IInv /\ RowsFinite /\ [Next]_vars => RowsFinite'
<1> SUFFICES ASSUME IInv, RowsFinite, [Next]_vars PROVE RowsFinite'
  OBVIOUS
<1> DEFINE S == {k \in Key : row[k] # NoRow}
<1>1. IsFiniteSet(S \cup {api.key})
  BY FS_AddElement DEF RowsFinite
<1>2. {k \in Key : row'[k] # NoRow} \subseteq S \cup {api.key}
  BY RowStep
<1>3. QED
  BY <1>1, <1>2, FS_Subset DEF RowsFinite

(* Where a step ends between count and insertion. *)
LEMMA CountedStep ==
    ASSUME IInv, [Next]_vars, api'.pc \in Counted
    PROVE  \/ \E k \in Key, a \in Account : LoginCount(k, a)
           \/ /\ api.pc \in Counted /\ api'.account = api.account
              /\ ~ LoginInsert /\ ~ RenewUpdate
<1>0. api \in ApiState
  BY DEF IInv, TypeOK
<1>1. CASE api' = api
  BY <1>0, <1>1 DEF Counted, LoginInsert, RenewUpdate, ApiState
<1>2. CASE api' = ApiIdle
  BY <1>2 DEF Counted, ApiIdle, ApiAt
<1>3. CASE LoginStep
  <2>1. CASE LoginAllocate \/ LoginAddPeer
    BY <1>0, <2>1 DEF LoginAllocate, LoginAddPeer, LoginInsert, RenewUpdate, Counted,
       ApiState
  <2>2. CASE LoginExhausted \/ LoginUndoIp \/ LoginAudit
    BY <1>2, <2>2 DEF LoginExhausted, LoginUndoIp, LoginAudit
  <2>3. CASE LoginInsert \/ LoginUndoPeer
    BY <1>0, <2>3 DEF LoginInsert, LoginUndoPeer, Counted, ApiState
  <2>4. QED
    BY <1>3, <2>1, <2>2, <2>3 DEF LoginStep
<1>4. CASE LogoutStep \/ RenewStep
  BY <1>0, <1>4 DEF ApiState, LogoutStep, RenewStep, LogoutRemovePeer, LogoutRelease,
     LogoutRevoke, LogoutAudit, RenewUpdate, RenewAudit, Counted, ApiIdle, ApiAt
<1>5. CASE Request
  BY <1>5 DEF Request, LogoutLookup, RenewLookup, ApiAt, Counted
<1>6. QED
  BY <1>1, <1>2, <1>3, <1>4, <1>5, ApiChange DEF ApiStep

LEMMA LoginUnderLimitStep ==
    ASSUME "count" \notin DbMayFail
    PROVE  IInv /\ LimitInv /\ [Next]_vars => LoginUnderLimit'
<1> SUFFICES ASSUME IInv, LimitInv, [Next]_vars, api'.pc \in Counted
             PROVE  Cardinality(Active(row', api'.account, clock')) < MaxSessions
  BY DEF LoginUnderLimit
<1>1. CASE \E k \in Key, a \in Account : LoginCount(k, a)
  <2>1. PICK k \in Key, a \in Account : LoginCount(k, a)
    BY <1>1
  <2>2. row' = row /\ clock' = clock /\ api'.account = a
    BY <2>1 DEF LoginCount, ApiAt
  <2>3. Cardinality(Active(row, a, clock)) < MaxSessions
    BY <2>1 DEF LoginCount, DbOutcome, Outcomes
  <2>4. QED
    BY <2>2, <2>3
<1>2. CASE /\ api.pc \in Counted /\ api'.account = api.account
           /\ ~ LoginInsert /\ ~ RenewUpdate
  <2> DEFINE before == Active(row, api.account, clock)
             after  == Active(row', api.account, clock')
  <2>1. IsFiniteSet(before) /\ Cardinality(before) < MaxSessions
    BY <1>2, ActiveFinite DEF LimitInv, RowsFinite, LoginUnderLimit
  <2>2. after \subseteq before
    BY <1>2, ActiveStep
  <2>3. Cardinality(after) <= Cardinality(before)
        /\ Cardinality(before) \in Nat /\ Cardinality(after) \in Nat
    BY <2>1, <2>2, FS_Subset, FS_CardinalityType
  <2>4. Cardinality(after) < MaxSessions
    BY <2>1, <2>3, ServerAssumption
  <2>5. QED
    BY <1>2, <2>4
<1>3. QED
  BY <1>1, <1>2, CountedStep

LEMMA LimitInit == Init => LimitInv
<1> SUFFICES ASSUME Init PROVE LimitInv
  OBVIOUS
<1>1. {k \in Key : row[k] # NoRow} = {}
  BY DEF Init
<1>2. RowsFinite
  BY <1>1, FS_EmptySet DEF RowsFinite
<1>3. LoginUnderLimit
  BY DEF Init, ApiIdle, ApiAt, LoginUnderLimit, Counted
<1>4. QED
  BY <1>2, <1>3 DEF LimitInv

(* Unless counting fails, no login ever takes an account over the limit:   *)
(* not through the time between the count and the insertion, the reaper,   *)
(* the clock or a restart.  Only a renewal within the grace period does.   *)
THEOREM LimitKept ==
    ASSUME "count" \notin DbMayFail
    PROVE  Spec => OverLimitOnlyByRenewal
<1> DEFINE Over(a) ==
      LET before == Active(row, a, clock)
          after  == Active(row', a, clock')
      IN Cardinality(after) > MaxSessions /\ Cardinality(after) > Cardinality(before)
           => /\ api.pc = "renew_update"
              /\ after \ before = {api.key}
              /\ row[api.key].expires < clock
<1>1. IInv /\ LimitInv /\ [Next]_vars => LimitInv'
  BY RowsFiniteStep, LoginUnderLimitStep DEF LimitInv
<1>2. IInv /\ LimitInv /\ IInv' /\ LimitInv' /\ [Next]_vars => [\A a \in Account : Over(a)]_vars
  <2> SUFFICES ASSUME IInv, LimitInv, LimitInv', [Next]_vars, NEW a \in Account
               PROVE  Over(a)
    OBVIOUS
  <2> DEFINE before == Active(row, a, clock)
             after  == Active(row', a, clock')
  <2>1. IsFiniteSet(before) /\ IsFiniteSet(after)
    BY ActiveFinite DEF LimitInv, RowsFinite
  <2>2. Cardinality(before) \in Nat /\ Cardinality(after) \in Nat
    BY <2>1, FS_CardinalityType
  <2>3. CASE after \subseteq before
    <3>1. Cardinality(after) <= Cardinality(before)
      BY <2>1, <2>3, FS_Subset
    <3>2. QED
      BY <2>2, <3>1
  <2>4. CASE ~ (after \subseteq before)
    <3>1. PICK k \in after : k \notin before
      BY <2>4
    <3>2. /\ k = api.key
          /\ \/ LoginInsert /\ a = api.account
             \/ RenewUpdate /\ row[k].expires < clock
      BY <3>1, ActiveStep
    <3>3. after \ before = {api.key}
      BY <3>1, <3>2, ActiveStep
    <3>4. CASE LoginInsert /\ a = api.account
      <4>1. Cardinality(before) < MaxSessions
        BY <3>4 DEF LimitInv, LoginUnderLimit, LoginInsert, Counted
      <4>2. after \subseteq before \cup {api.key}
        BY <3>3
      <4>3. Cardinality(before \cup {api.key}) <= Cardinality(before) + 1
            /\ IsFiniteSet(before \cup {api.key})
            /\ Cardinality(before \cup {api.key}) \in Nat
        BY <2>1, <2>2, FS_AddElement, FS_CardinalityType
      <4>4. Cardinality(after) <= Cardinality(before \cup {api.key})
        BY <4>2, <4>3, FS_Subset
      <4>5. ~ (Cardinality(after) > MaxSessions)
        BY <2>2, <4>1, <4>3, <4>4, ServerAssumption
      <4>6. QED
        BY <4>5
    <3>5. CASE RenewUpdate /\ row[k].expires < clock
      BY <3>2, <3>3, <3>5 DEF RenewUpdate
    <3>6. QED
      BY <3>2, <3>4, <3>5
  <2>5. QED
    BY <2>3, <2>4
<1>3. QED
  BY <1>1, <1>2, LimitInit, Invariance, PTL DEF Spec, OverLimitOnlyByRenewal

-----------------------------------------------------------------------------
(* The peer of a session *)

InsertHasPeer == api.pc = "login_insert" => api.key \in peers

PeerInv == InsertHasPeer /\ LiveSessionHasPeer

(* Only LoginInsert makes a row live. *)
LEMMA DeadStep ==
    ASSUME IInv, [Next]_vars, NEW k \in Key, ~ IsLive(row, k), IsLive(row', k)
    PROVE  LoginInsert /\ api.key = k
<1>0. /\ row \in [Key -> Row \cup {NoRow}]
      /\ api.pc \in LoginPc => api.key \in Key
      /\ api.pc \in LogoutPc \cup RenewPc => api.key \in Key /\ row[api.key] # NoRow
      /\ reaper.pc = "revoke" => reaper.key \in Key /\ row[reaper.key] # NoRow
  BY DEF IInv, TypeOK, LoginLocals, KeysHaveRows
<1>1. row'[k] # row[k]
  BY DEF IsLive
<1>2. ASSUME NEW l \in Key, row[l] # NoRow, row' = Revoked(row, l)
      PROVE  FALSE
  <2>1. k # l
    BY <1>0, <1>2 DEF Revoked, IsLive, Row
  <2>2. QED
    BY <1>0, <1>1, <1>2, <2>1 DEF Revoked
<1>3. CASE RevokeStale
  <2>1. row' = AllRevoked(row)
    BY <1>1, <1>3 DEF RevokeStale
  <2>2. QED
    BY <1>0, <2>1 DEF AllRevoked, IsLive, Row
<1>4. CASE LoginInsert
  <2>1. row' = Inserted(row, api.key, api.account, api.ip, api.expires)
    BY <1>1, <1>4 DEF LoginInsert
  <2>2. QED
    BY <1>0, <1>1, <1>4, <2>1 DEF Inserted
<1>5. CASE RenewUpdate
  <2>1. row' = Extended(row, api.key, api.expires)
    BY <1>1, <1>5 DEF RenewUpdate
  <2>2. k = api.key /\ row[k] \in Row
    BY <1>0, <1>1, <1>5, <2>1 DEF Extended, RenewUpdate, RenewPc
  <2>3. row'[k].revoked = row[k].revoked
    BY <1>0, <2>1, <2>2 DEF Extended, Row
  <2>4. QED
    BY <2>2, <2>3, DbAssumption DEF IsLive
<1>6. CASE LogoutRevoke
  BY <1>0, <1>1, <1>2, <1>6 DEF LogoutRevoke, RevokeRow, LogoutPc
<1>7. CASE ReaperRevoke
  BY <1>0, <1>1, <1>2, <1>7 DEF ReaperRevoke, RevokeRow
<1>8. QED
  BY <1>1, <1>3, <1>4, <1>5, <1>6, <1>7, RowChange

(* The server is up once the stale sessions are revoked. *)
LEMMA UpStep ==
    ASSUME [Next]_vars, proc' \notin {"down", "load", "revoke"}
    PROVE  /\ proc \notin {"down", "load", "revoke"} \/ RevokeStale
           /\ ~ ApiStop /\ \A machine \in BOOLEAN : ~ Die(machine)
BY DEF Next, vars, MainStep, ApiStep, LoginStep, LogoutStep, RenewStep,
   ReaperStep, Request, Environment, LoadStatic, ApiStart, ReaperStart,
   ReaperJoin, ApiStop, LoginAllocate, LoginExhausted, LoginAddPeer, LoginInsert,
   LoginUndoPeer, LoginUndoIp, LoginAudit, LogoutRemovePeer, LogoutRelease,
   LogoutRevoke, LogoutAudit, RenewUpdate, RenewAudit, ReaperSelect,
   ReaperRemovePeer, ReaperRelease, ReaperRevoke, ReaperAudit, ReaperWake,
   LoginCount, LogoutLookup, RenewLookup, Start, Signal, Tick, Die

LEMMA InsertHasPeerStep == IInv /\ InsertHasPeer /\ [Next]_vars => InsertHasPeer'
<1> SUFFICES ASSUME IInv, InsertHasPeer, [Next]_vars, api'.pc = "login_insert"
             PROVE  api'.key \in peers'
  BY DEF InsertHasPeer
<1>0. /\ api \in ApiState
      /\ api.pc = "login_insert" => row[api.key] = NoRow
      /\ \A k \in reaper.batch : row[k] # NoRow
  BY DEF IInv, TypeOK, LoginLocals, LoginPc, KeysHaveRows
<1>1. CASE LoginAddPeer
  BY <1>0, <1>1 DEF LoginAddPeer, ApiState
<1>2. CASE api' = api
  <2>1. api.key \in peers
    BY <1>2 DEF InsertHasPeer
  <2>2. CASE peers' = peers
    BY <1>2, <2>1, <2>2
  <2>3. CASE LoadStatic
    BY <1>2, <2>1, <2>3 DEF LoadStatic
  <2>4. CASE ReaperRemovePeer
    <3>1. PICK k \in reaper.batch : peers' \in {peers, peers \ {k}}
      BY <2>4 DEF ReaperRemovePeer, RemovePeer
    <3>2. k # api.key
      BY <1>0, <1>2, <3>1
    <3>3. QED
      BY <1>2, <2>1, <3>1, <3>2
  <2>5. CASE LoginUndoPeer \/ LogoutRemovePeer
    BY <1>2, <2>5 DEF LoginUndoPeer, LogoutRemovePeer
  <2>6. CASE \E machine \in BOOLEAN : Die(machine)
    BY <2>6 DEF Die, ApiIdle, ApiAt
  <2>7. QED
    BY <1>1, <2>2, <2>3, <2>4, <2>5, <2>6, DeviceChange
<1>3. CASE api' = ApiIdle \/ Request
  BY <1>3 DEF ApiIdle, ApiAt, Request, LoginCount, LogoutLookup, RenewLookup
<1>4. CASE ApiStep
  <2>1. CASE LoginAllocate
    <3>1. api'.pc = "login_peer"
      BY <1>0, <2>1 DEF LoginAllocate, ApiState
    <3>2. QED
      BY <3>1
  <2>2. CASE LoginStep /\ ~ LoginAllocate
    BY <1>0, <1>1, <2>2 DEF LoginStep, ApiState, ApiIdle, ApiAt, LoginExhausted,
       LoginInsert, LoginUndoPeer, LoginUndoIp, LoginAudit
  <2>3. CASE LogoutStep \/ RenewStep
    BY <1>0, <2>3 DEF LogoutStep, RenewStep, ApiState, ApiIdle, ApiAt,
       LogoutRemovePeer, LogoutRelease, LogoutRevoke, LogoutAudit, RenewUpdate, RenewAudit
  <2>4. QED
    BY <1>4, <2>1, <2>2, <2>3 DEF ApiStep
<1>5. QED
  BY <1>2, <1>3, <1>4, ApiChange

(* A thread that takes a session down stays at it until the row is revoked. *)
LEMMA RemovingStep ==
    ASSUME {"revoke", "revoke_all"} \cap DbMayFail = {},
           IInv, [Next]_vars, proc' \notin {"down", "load", "revoke"},
           NEW k \in Key, Removing(k), IsLive(row', k)
    PROVE  Removing(k)'
<1>0. /\ row \in [Key -> Row \cup {NoRow}] /\ api \in ApiState /\ reaper \in ReaperState
      /\ ~ ApiUp \/ proc = "spawn" => reaper = ReaperAt("off")
      /\ api.pc \in LogoutPc => row[api.key] # NoRow
      /\ reaper.pc = "revoke" => row[reaper.key] # NoRow
  BY DEF IInv, TypeOK, ThreadsOfMain, KeysHaveRows
<1>1. CASE api.key = k /\ api.pc \in {"logout_release", "logout_revoke"}
  <2>1. CASE api' = api
    BY <1>1, <2>1 DEF Removing
  <2>2. CASE LogoutRelease
    BY <1>0, <1>1, <2>2 DEF LogoutRelease, Removing, ApiState
  <2>3. CASE LogoutRevoke
    <3>1. row' = Revoked(row, k)
      BY <1>1, <2>3 DEF LogoutRevoke, RevokeRow, DbOutcome, Outcomes
    <3>2. row[k] \in Row
      BY <1>0, <1>1, <2>3 DEF LogoutPc
    <3>3. QED
      BY <1>0, <3>1, <3>2 DEF Revoked, IsLive, Row
  <2>4. QED
    BY <1>1, <2>1, <2>2, <2>3, UpStep DEF Next, vars, MainStep, ApiStep, LoginStep,
       LogoutStep, RenewStep, ReaperStep, Request, Environment, Accepts, LoadStatic,
       RevokeStale, ApiStart, ReaperStart, ReaperJoin, LoginAllocate, LoginExhausted,
       LoginAddPeer, LoginInsert, LoginUndoPeer, LoginUndoIp, LoginAudit,
       LogoutRemovePeer, LogoutAudit, RenewUpdate, RenewAudit, ReaperSelect,
       ReaperRemovePeer, ReaperRelease, ReaperRevoke, ReaperAudit, ReaperWake,
       LoginCount, LogoutLookup, RenewLookup, Start, Signal, Tick
<1>2. CASE reaper.key = k /\ reaper.pc \in {"release", "revoke"}
  <2>1. CASE reaper' = reaper
    BY <1>2, <2>1 DEF Removing
  <2>2. CASE ReaperRelease
    BY <1>0, <1>2, <2>2 DEF ReaperRelease, Removing, ReaperState
  <2>3. CASE ReaperRevoke
    <3>1. row' = Revoked(row, k)
      BY <1>2, <2>3 DEF ReaperRevoke, RevokeRow, DbOutcome, Outcomes
    <3>2. row[k] \in Row
      BY <1>0, <1>2, <2>3 DEF ReaperRevoke
    <3>3. QED
      BY <1>0, <3>1, <3>2 DEF Revoked, IsLive, Row
  <2>4. ~ ReaperStart
    BY <1>0, <1>2 DEF ReaperStart, ReaperAt
  <2>5. QED
    BY <1>2, <2>1, <2>2, <2>3, <2>4, UpStep DEF Next, vars, MainStep, ApiStep, LoginStep,
       LogoutStep, RenewStep, ReaperStep, Request, Environment, LoadStatic,
       RevokeStale, ApiStart, ReaperJoin, LoginAllocate, LoginExhausted,
       LoginAddPeer, LoginInsert, LoginUndoPeer, LoginUndoIp, LoginAudit,
       LogoutRemovePeer, LogoutRelease, LogoutRevoke, LogoutAudit, RenewUpdate,
       RenewAudit, ReaperSelect, ReaperRemovePeer, ReaperAudit, ReaperWake,
       LoginCount, LogoutLookup, RenewLookup, Start, Signal, Tick
<1>3. QED
  BY <1>1, <1>2 DEF Removing

LEMMA LiveSessionHasPeerStep ==
    ASSUME {"revoke", "revoke_all"} \cap DbMayFail = {}
    PROVE  IInv /\ PeerInv /\ [Next]_vars => LiveSessionHasPeer'
<1> SUFFICES ASSUME IInv, PeerInv, [Next]_vars,
                    proc' \notin {"down", "load", "revoke"},
                    NEW k \in Key, IsLive(row', k)
             PROVE  k \in peers' \/ Removing(k)'
  BY DEF LiveSessionHasPeer
<1>0. /\ row \in [Key -> Row \cup {NoRow}] /\ api \in ApiState
      /\ api.pc = "login_undo_peer" => row[api.key] = NoRow
  BY DEF IInv, TypeOK, LoginLocals, LoginPc
<1>1. CASE ~ IsLive(row, k)
  <2>1. LoginInsert /\ api.key = k
    BY <1>1, DeadStep
  <2>2. QED
    BY <2>1 DEF PeerInv, InsertHasPeer, LoginInsert
<1>2. CASE RevokeStale
  <2>1. row' = AllRevoked(row)
    BY <1>2 DEF RevokeStale, DbOutcome, Outcomes
  <2>2. QED
    BY <1>0, <2>1 DEF AllRevoked, IsLive, Row
<1>3. CASE IsLive(row, k) /\ ~ RevokeStale
  <2>1. k \in peers \/ Removing(k)
    BY <1>3, UpStep DEF PeerInv, LiveSessionHasPeer
  <2>2. CASE Removing(k)
    BY <2>2, RemovingStep
  <2>3. CASE k \in peers
    <3>1. CASE peers' = peers
      BY <2>3, <3>1
    <3>2. CASE LoadStatic \/ LoginAddPeer
      BY <2>3, <3>2 DEF LoadStatic, LoginAddPeer
    <3>3. CASE LoginUndoPeer
      <4>1. peers' \in {peers, peers \ {api.key}} /\ api.key # k
        BY <1>0, <1>3, <3>3 DEF LoginUndoPeer, RemovePeer, IsLive
      <4>2. QED
        BY <2>3, <4>1
    <3>4. CASE LogoutRemovePeer
      <4>1. /\ peers' \in {peers, peers \ {api.key}}
            /\ api'.key = api.key /\ api'.pc = "logout_release"
        BY <1>0, <3>4 DEF LogoutRemovePeer, RemovePeer, ApiState
      <4>2. QED
        BY <2>3, <4>1 DEF Removing
    <3>5. CASE ReaperRemovePeer
      <4>1. PICK l \in reaper.batch : /\ peers' \in {peers, peers \ {l}}
                                      /\ reaper'.key = l /\ reaper'.pc = "release"
        BY <3>5 DEF ReaperRemovePeer, RemovePeer
      <4>2. QED
        BY <2>3, <4>1 DEF Removing
    <3>6. QED
      BY <3>1, <3>2, <3>3, <3>4, <3>5, DeviceChange, UpStep
  <2>4. QED
    BY <2>1, <2>2, <2>3
<1>4. QED
  BY <1>1, <1>2, <1>3

(* While revoking a row does not fail, a session that is not revoked has   *)
(* its peer in the kernel or a thread at work on it, whatever requests,    *)
(* batches of the reaper and restarts do to it and to other sessions.      *)
THEOREM SessionsHavePeers ==
    ASSUME {"revoke", "revoke_all"} \cap DbMayFail = {}
    PROVE  Spec => []LiveSessionHasPeer
<1>1. Init => PeerInv
  BY DEF Init, PeerInv, InsertHasPeer, LiveSessionHasPeer, ApiIdle, ApiAt
<1>2. IInv /\ PeerInv /\ [Next]_vars => PeerInv'
  BY InsertHasPeerStep, LiveSessionHasPeerStep DEF PeerInv
<1>3. PeerInv => LiveSessionHasPeer
  BY DEF PeerInv
<1>4. QED
  BY <1>1, <1>2, <1>3, Invariance, PTL DEF Spec

-----------------------------------------------------------------------------
(* The end of a session *)

(* main has joined the reaper before it stops the API. *)
ReaperJoined == proc = "stop" => reaper.pc = "exited"

LEMMA ReaperJoinedStep == ReaperJoined /\ [Next]_vars => ReaperJoined'
<1> SUFFICES ASSUME ReaperJoined, [Next]_vars, proc' = "stop"
             PROVE  reaper'.pc = "exited"
  BY DEF ReaperJoined
<1>1. CASE ReaperJoin
  BY <1>1 DEF ReaperJoin
<1>2. CASE proc = "stop"
  <2>1. reaper.pc = "exited"
    BY <1>2 DEF ReaperJoined
  <2>2. reaper' = reaper
    BY <1>2, <2>1 DEF Next, vars, MainStep, ApiStep, LoginStep, LogoutStep, RenewStep,
       ReaperStep, Request, Environment, LoadStatic, RevokeStale, ApiStart, ReaperStart,
       ReaperJoin, ApiStop, LoginAllocate, LoginExhausted, LoginAddPeer, LoginInsert,
       LoginUndoPeer, LoginUndoIp, LoginAudit, LogoutRemovePeer, LogoutRelease,
       LogoutRevoke, LogoutAudit, RenewUpdate, RenewAudit, ReaperSelect,
       ReaperRemovePeer, ReaperRelease, ReaperRevoke, ReaperAudit, ReaperWake,
       LoginCount, LogoutLookup, RenewLookup, Start, Signal, Tick, Die
  <2>3. QED
    BY <2>1, <2>2
<1>3. ReaperJoin \/ proc = "stop"
  BY DEF Next, vars, MainStep, ApiStep, LoginStep, LogoutStep, RenewStep,
     ReaperStep, Request, Environment, LoadStatic, RevokeStale, ApiStart, ReaperStart,
     ApiStop, LoginAllocate, LoginExhausted, LoginAddPeer, LoginInsert,
     LoginUndoPeer, LoginUndoIp, LoginAudit, LogoutRemovePeer, LogoutRelease,
     LogoutRevoke, LogoutAudit, RenewUpdate, RenewAudit, ReaperSelect,
     ReaperRemovePeer, ReaperRelease, ReaperRevoke, ReaperAudit, ReaperWake,
     LoginCount, LogoutLookup, RenewLookup, Start, Signal, Tick, Die
<1>4. QED
  BY <1>1, <1>2, <1>3

(* A row is revoked by the two threads, and when the server starts. *)
LEMMA RevokedStep ==
    ASSUME IInv, [Next]_vars, NEW k \in Key, row'[k] # NoRow, row'[k].revoked
    PROVE  \/ row[k] # NoRow /\ row[k].revoked
           \/ RevokeStale /\ row[k] # NoRow
           \/ LogoutRevoke /\ api.key = k
           \/ ReaperRevoke /\ reaper.key = k
<1>1. row' \in [Key -> Row \cup {NoRow}] /\ row \in [Key -> Row \cup {NoRow}]
  BY TypeStep DEF TypeOK, IInv
<1>2. CASE row[k] = NoRow
  <2>1. api.pc = "login_insert" /\ api.key = k /\ api'.pc = "login_audit"
    BY <1>2, RowStep
  <2>2. row' # row
    BY <1>2
  <2>3. LoginInsert
    BY <2>1, <2>2, RowChange DEF RevokeStale, LogoutRevoke, ReaperRevoke, RenewUpdate,
       IInv, ThreadsOfMain, ApiUp
  <2>4. row' = Inserted(row, api.key, api.account, api.ip, api.expires)
    BY <2>2, <2>3 DEF LoginInsert
  <2>5. row'[k].revoked = FALSE
    BY <1>1, <2>1, <2>4 DEF Inserted
  <2>6. QED
    BY <2>5
<1>3. CASE IsLive(row, k)
  BY <1>3, LiveStep DEF IsLive
<1>4. QED
  BY <1>2, <1>3 DEF IsLive

LEMMA AuditGrows == [Next]_vars => audit \subseteq audit'
BY DEF Next, vars, MainStep, ApiStep, LoginStep, LogoutStep, RenewStep, AddAudit,
   ReaperStep, Request, Environment, LoadStatic, RevokeStale, ApiStart, ReaperStart,
   ReaperJoin, ApiStop, LoginAllocate, LoginExhausted, LoginAddPeer, LoginInsert,
   LoginUndoPeer, LoginUndoIp, LoginAudit, LogoutRemovePeer, LogoutRelease,
   LogoutRevoke, LogoutAudit, RenewUpdate, RenewAudit, ReaperSelect,
   ReaperRemovePeer, ReaperRelease, ReaperRevoke, ReaperAudit, ReaperWake,
   LoginCount, LogoutLookup, RenewLookup, Start, Signal, Tick, Die

(* A thread that owes an entry writes it, unless the process crashes. *)
LEMMA OwedStep ==
    ASSUME "audit" \notin DbMayFail, IInv, ReaperJoined, [Next]_vars,
           proc' = "down" => OrderlyStop, NEW k \in Key
    PROVE  /\ api.key = k /\ api.pc = "logout_audit" =>
                  \/ api'.key = k /\ api'.pc = "logout_audit"
                  \/ <<"logout", k>> \in audit'
           /\ reaper.key = k /\ reaper.pc \in {"release", "revoke", "audit"} =>
                  \/ reaper'.key = k /\ reaper'.pc \in {"release", "revoke", "audit"}
                  \/ <<"expired", k>> \in audit'
<1>0. /\ api \in ApiState /\ reaper \in ReaperState
      /\ proc = "spawn" => reaper = ReaperAt("off")
  BY DEF IInv, TypeOK, ThreadsOfMain
<1>1. ASSUME api.key = k, api.pc = "logout_audit"
      PROVE  \/ api'.key = k /\ api'.pc = "logout_audit"
             \/ <<"logout", k>> \in audit'
  <2>1. CASE api' = api
    BY <1>1, <2>1
  <2>2. CASE LogoutAudit
    BY <1>1, <2>2 DEF LogoutAudit, AddAudit, DbOutcome, Outcomes
  <2>3. ~ ApiStop /\ \A machine \in BOOLEAN : ~ Die(machine)
    BY <1>1 DEF ApiStop, Die, OrderlyStop
  <2>4. QED
    BY <1>0, <1>1, <2>1, <2>2, <2>3 DEF Next, vars, MainStep, ApiStep, LoginStep,
       LogoutStep, RenewStep, ReaperStep, Request, Environment, Accepts, LoadStatic,
       RevokeStale, ApiStart, ReaperStart, ReaperJoin, LoginAllocate, LoginExhausted,
       LoginAddPeer, LoginInsert, LoginUndoPeer, LoginUndoIp, LoginAudit,
       LogoutRemovePeer, LogoutRelease, LogoutRevoke, RenewUpdate, RenewAudit,
       ReaperSelect, ReaperRemovePeer, ReaperRelease, ReaperRevoke, ReaperAudit,
       ReaperWake, LoginCount, LogoutLookup, RenewLookup, Start, Signal, Tick
<1>2. ASSUME reaper.key = k, reaper.pc \in {"release", "revoke", "audit"}
      PROVE  \/ reaper'.key = k /\ reaper'.pc \in {"release", "revoke", "audit"}
             \/ <<"expired", k>> \in audit'
  <2>1. CASE reaper' = reaper
    BY <1>2, <2>1
  <2>2. CASE ReaperRelease \/ ReaperRevoke
    BY <1>0, <1>2, <2>2 DEF ReaperRelease, ReaperRevoke, ReaperState
  <2>3. CASE ReaperAudit
    BY <1>2, <2>3 DEF ReaperAudit, AddAudit, DbOutcome, Outcomes
  <2>4. ~ ReaperStart
    BY <1>0, <1>2 DEF ReaperStart, ReaperAt
  <2>5. ~ ApiStop /\ \A machine \in BOOLEAN : ~ Die(machine)
    BY <1>2 DEF ApiStop, Die, OrderlyStop, ReaperJoined
  <2>6. QED
    BY <1>0, <1>2, <2>1, <2>2, <2>3, <2>4, <2>5 DEF Next, vars, MainStep, ApiStep,
       LoginStep, LogoutStep, RenewStep, ReaperStep, Request, Environment, LoadStatic,
       RevokeStale, ApiStart, ReaperJoin, LoginAllocate, LoginExhausted,
       LoginAddPeer, LoginInsert, LoginUndoPeer, LoginUndoIp, LoginAudit,
       LogoutRemovePeer, LogoutRelease, LogoutRevoke, LogoutAudit, RenewUpdate,
       RenewAudit, ReaperSelect, ReaperRemovePeer, ReaperWake, LoginCount,
       LogoutLookup, RenewLookup, Start, Signal, Tick
<1>3. QED
  BY <1>1, <1>2

(* While the log can be written, the end of a session goes without an      *)
(* entry only in a crash or in the revocation at the next start, through   *)
(* every interleaving, failure of the other statements and calls, orderly  *)
(* stop and restart.                                                       *)
THEOREM EndsAudited ==
    ASSUME "audit" \notin DbMayFail
    PROVE  Spec => UnauditedOnlyByRestart
<1>1. Init => ReaperJoined
  BY DEF Init, ReaperJoined
<1>2. IInv /\ ReaperJoined /\ [Next]_vars => [NoNewUnaudited]_vars
  <2> SUFFICES ASSUME IInv, ReaperJoined, [Next]_vars, NEW k \in Key, Unaudited(k)',
                      ~ Unaudited(k), proc # "revoke", proc' = "down" => OrderlyStop
               PROVE  FALSE
    BY DEF NoNewUnaudited
  <2>0. /\ row'[k] # NoRow /\ row'[k].revoked
        /\ <<"logout", k>> \notin audit' /\ <<"expired", k>> \notin audit'
        /\ ~ (api'.key = k /\ api'.pc = "logout_audit")
        /\ ~ (reaper'.key = k /\ reaper'.pc \in {"release", "revoke", "audit"})
    BY DEF Unaudited
  <2>1. api \in ApiState /\ reaper \in ReaperState
    BY DEF IInv, TypeOK
  <2>2. CASE LogoutRevoke /\ api.key = k
    BY <2>0, <2>1, <2>2 DEF LogoutRevoke, ApiState
  <2>3. CASE ReaperRevoke /\ reaper.key = k
    BY <2>0, <2>1, <2>3 DEF ReaperRevoke, ReaperState
  <2>4. CASE row[k] # NoRow /\ row[k].revoked
    BY <2>0, <2>4, AuditGrows, OwedStep DEF Unaudited
  <2>5. ~ RevokeStale
    BY DEF RevokeStale
  <2>6. QED
    BY <2>0, <2>2, <2>3, <2>4, <2>5, RevokedStep
<1>3. QED
  BY <1>1, <1>2, ReaperJoinedStep, Invariance, PTL DEF Spec, UnauditedOnlyByRestart

-----------------------------------------------------------------------------
(* Peers without a session *)

(* A thread that has removed a peer finds it removed when it goes on. *)
PeerGone ==
    /\ api.pc \in {"logout_release", "logout_revoke"} => api.key \notin peers
    /\ reaper.pc \in {"release", "revoke"} => reaper.key \notin peers

LEMMA PeerGoneStep ==
    ASSUME WgMayFail = FALSE
    PROVE  IInv /\ PeerGone /\ [Next]_vars => PeerGone'
<1> SUFFICES ASSUME IInv, PeerGone, [Next]_vars PROVE PeerGone'
  OBVIOUS
<1>0. /\ api \in ApiState /\ reaper \in ReaperState
      /\ api.pc \in LoginPc \ {"login_audit"} => row[api.key] = NoRow
      /\ reaper.pc \in {"release", "revoke", "audit"} =>
             reaper.key \in Key /\ row[reaper.key] # NoRow
      /\ api.pc \in LogoutPc => api.key \in Key
      /\ ~ ApiUp => api.pc = "idle" /\ reaper = ReaperAt("off")
  BY DEF IInv, TypeOK, LoginLocals, KeysHaveRows, ThreadsOfMain
<1>1. ASSUME api'.pc \in {"logout_release", "logout_revoke"}
      PROVE  api'.key \notin peers'
  <2>1. CASE LogoutRemovePeer
    BY <1>0, <2>1 DEF LogoutRemovePeer, RemovePeer, WgOutcome, Outcomes, ApiState
  <2>2. CASE ~ LogoutRemovePeer
    <3>1. api.pc \in {"logout_release", "logout_revoke"} /\ api'.key = api.key
      <4>1. CASE api' = api
        BY <1>1, <4>1
      <4>2. CASE LogoutStep
        BY <1>0, <1>1, <2>2, <4>2 DEF LogoutStep, LogoutRelease, LogoutRevoke, LogoutAudit,
           ApiState, ApiIdle, ApiAt
      <4>3. CASE LoginStep \/ RenewStep
        <5>1. CASE LoginAllocate
          <6>1. api'.pc = "login_peer"
            BY <1>0, <5>1 DEF LoginAllocate, ApiState
          <6>2. QED
            BY <1>1, <6>1
        <5>2. CASE LoginAddPeer \/ LoginInsert \/ LoginUndoPeer
          BY <1>0, <1>1, <5>2 DEF LoginAddPeer, LoginInsert, LoginUndoPeer, ApiState
        <5>3. CASE LoginExhausted \/ LoginUndoIp \/ LoginAudit \/ RenewStep
          BY <1>0, <1>1, <5>3 DEF LoginExhausted, LoginUndoIp, LoginAudit, RenewStep,
             RenewUpdate, RenewAudit, ApiState, ApiIdle, ApiAt
        <5>4. QED
          BY <4>3, <5>1, <5>2, <5>3 DEF LoginStep
      <4>4. api' # ApiIdle /\ ~ Request
        BY <1>1 DEF ApiIdle, ApiAt, Request, LoginCount, LogoutLookup, RenewLookup
      <4>5. QED
        BY <4>1, <4>2, <4>3, <4>4, ApiChange DEF ApiStep
    <3>2. ~ LoadStatic /\ ~ LoginAddPeer
      BY <1>0, <3>1 DEF LoadStatic, LoginAddPeer, ApiUp
    <3>3. peers' \subseteq peers
      BY <3>2, DeviceChange DEF LoginUndoPeer, LogoutRemovePeer, ReaperRemovePeer,
         RemovePeer, Die
    <3>4. QED
      BY <3>1, <3>3 DEF PeerGone
  <2>3. QED
    BY <2>1, <2>2
<1>2. ASSUME reaper'.pc \in {"release", "revoke"}
      PROVE  reaper'.key \notin peers'
  <2>1. CASE ReaperRemovePeer
    BY <1>0, <2>1 DEF ReaperRemovePeer, RemovePeer, WgOutcome, Outcomes
  <2>2. CASE ~ ReaperRemovePeer
    <3>1. reaper.pc \in {"release", "revoke"} /\ reaper'.key = reaper.key
      <4>1. CASE reaper' = reaper
        BY <1>2, <4>1
      <4>2. CASE ReaperStep
        <5>1. CASE ReaperSelect \/ ReaperWake
          BY <1>2, <5>1 DEF ReaperSelect, ReaperWake, ReaperAt
        <5>2. CASE ReaperRelease \/ ReaperRevoke
          BY <1>0, <5>2 DEF ReaperRelease, ReaperRevoke, ReaperState
        <5>3. CASE ReaperAudit
          <6>1. reaper'.pc \in {"sleep", "peer"}
            BY <1>0, <5>3 DEF ReaperAudit, ReaperState, ReaperAt
          <6>2. QED
            BY <1>2, <6>1
        <5>4. QED
          BY <2>2, <4>2, <5>1, <5>2, <5>3 DEF ReaperStep
      <4>3. reaper' \notin {ReaperAt("off"), ReaperAt("select")}
        BY <1>2 DEF ReaperAt
      <4>4. QED
        BY <4>1, <4>2, <4>3, ReaperChange
    <3>2. ~ LoadStatic
      BY <1>0, <3>1 DEF LoadStatic, ApiUp, ReaperAt
    <3>3. peers' \subseteq peers \/ (peers' = peers \cup {api.key} /\ api.key # reaper.key)
      BY <1>0, <3>1, <3>2, DeviceChange DEF LoginAddPeer, LoginUndoPeer, LogoutRemovePeer,
         ReaperRemovePeer, RemovePeer, Die, LoginPc
    <3>4. QED
      BY <3>1, <3>3 DEF PeerGone
  <2>3. QED
    BY <2>1, <2>2
<1>3. QED
  BY <1>1, <1>2 DEF PeerGone

(* A peer is put into the device for a login that is about to insert it. *)
LEMMA PeerAdded ==
    ASSUME IInv, [Next]_vars, NEW k \in Key, k \notin peers, k \in peers'
    PROVE  api'.key = k /\ api'.pc = "login_insert"
<1>1. ~ LoadStatic
  BY WgAssumption DEF LoadStatic
<1>2. LoginAddPeer
  BY <1>1, DeviceChange DEF LoginUndoPeer, LogoutRemovePeer, ReaperRemovePeer, RemovePeer, Die
<1>3. /\ api \in ApiState
      /\ \/ peers' = peers
         \/ /\ peers' = peers \cup {api.key}
            /\ api' = [api EXCEPT !.pc = "login_insert", !.expires = clock + Ttl]
  BY <1>2 DEF LoginAddPeer, IInv, TypeOK
<1>4. QED
  BY <1>3 DEF ApiState

(* While the kernel does what it is asked to, no peer is left behind by    *)
(* any request, error path or round of the reaper, whatever statements of  *)
(* the database fail: only the end of the process or the revocation of its *)
(* predecessor's sessions leaves one.                                      *)
THEOREM NoneOrphaned ==
    ASSUME WgMayFail = FALSE
    PROVE  Spec => OrphanOnlyByRestart
<1>1. Init => PeerGone
  BY DEF Init, PeerGone, ApiIdle, ApiAt, ReaperAt
<1>2. IInv /\ PeerGone /\ [Next]_vars => [NoNewOrphan]_vars
  <2> SUFFICES ASSUME IInv, PeerGone, [Next]_vars, NEW k \in Key, Orphan(k)',
                      ~ Orphan(k), proc' # "down", proc # "revoke"
               PROVE  FALSE
    BY DEF NoNewOrphan
  <2>0. /\ k \in peers' /\ ~ IsLive(row', k)
        /\ ~ (api'.key = k /\ api'.pc \in {"login_insert", "login_undo_peer"})
        /\ api \in ApiState
    BY DEF Orphan, IInv, TypeOK, IsLive
  <2>1. k \in peers
    BY <2>0, PeerAdded
  <2>2. CASE IsLive(row, k)
    <3>1. ~ RevokeStale
      BY DEF RevokeStale
    <3>2. \/ api.pc = "logout_revoke" /\ api.key = k
          \/ reaper.pc = "revoke" /\ reaper.key = k
      BY <2>0, <2>2, <3>1, LiveStep DEF LogoutRevoke, ReaperRevoke
    <3>3. QED
      BY <2>1, <3>2 DEF PeerGone
  <2>3. CASE api.key = k /\ api.pc \in {"login_insert", "login_undo_peer"}
    <3>1. api' # api
      BY <2>0, <2>3
    <3>2. ~ LoginUndoPeer
      BY <2>0, <2>3 DEF LoginUndoPeer, RemovePeer, WgOutcome, Outcomes
    <3>3. LoginInsert
      BY <2>3, <3>1, <3>2 DEF Next, vars, MainStep, ApiStep, LoginStep, LogoutStep,
         RenewStep, ReaperStep, Request, Environment, Accepts, LoadStatic, RevokeStale,
         ApiStart, ReaperStart, ReaperJoin, ApiStop, Die, LoginAllocate, LoginExhausted,
         LoginAddPeer, LoginUndoIp, LoginAudit, LogoutRemovePeer, LogoutRelease,
         LogoutRevoke, LogoutAudit, RenewUpdate, RenewAudit, ReaperSelect,
         ReaperRemovePeer, ReaperRelease, ReaperRevoke, ReaperAudit, ReaperWake,
         LoginCount, LogoutLookup, RenewLookup, Start, Signal, Tick
    <3>4. row' = Inserted(row, api.key, api.account, api.ip, api.expires)
      BY <2>0, <2>3, <3>3 DEF LoginInsert, ApiState
    <3>5. /\ row'[k].revoked = FALSE
          /\ row'[k] \in Row \cup {NoRow}
      BY <2>3, <3>4, TypeStep DEF Inserted, IInv, TypeOK
    <3>6. row'[k] = [account |-> api.account, ip |-> api.ip,
                     expires |-> api.expires, revoked |-> FALSE]
      BY <2>3, <3>4 DEF Inserted, IInv, TypeOK
    <3>7. row'[k] \in Row
      BY <2>0, <2>3, <3>6 DEF Row, ApiState, IInv, LoginLocals, LoginPc
    <3>8. QED
      BY <2>0, <3>5, <3>7, DbAssumption DEF IsLive
  <2>4. QED
    BY <2>1, <2>2, <2>3 DEF Orphan, IsLive
<1>3. QED
  BY <1>1, <1>2, PeerGoneStep, Invariance, PTL DEF Spec, OrphanOnlyByRestart

-----------------------------------------------------------------------------
(* Addresses: the invariant while no session is contended *)

(* The pool counts an address as used while somebody holds it. *)
HoldersMarked ==
    ApiUp => \A k \in Key, i \in Index : Holder(k, i) => i \in bitmap

(* A thread's session is not revoked by anybody else, and the reaper meets *)
(* it once in a batch.                                                     *)
WorkIsLive ==
    /\ api.pc \in LogoutPc \ {"logout_audit"} => IsLive(row, api.key)
    /\ reaper.pc \in {"release", "revoke"} => IsLive(row, reaper.key)
    /\ \A k \in reaper.batch : IsLive(row, k)
    /\ reaper.pc \in {"release", "revoke", "audit"} => reaper.key \notin reaper.batch

(* The sessions of the process before are revoked when the API starts. *)
NoneBeforeApi == proc = "listen" => \A k \in Key : ~ IsLive(row, k)

HolderInv == HoldersMarked /\ NoSharedAddress /\ WorkIsLive /\ NoneBeforeApi

-----------------------------------------------------------------------------
(* What a step does to the two threads *)

(* How the API thread comes to a step of handle_logout before its last. *)
LEMMA LogoutStepOf ==
    ASSUME IInv, [Next]_vars, api'.pc \in LogoutPc \ {"logout_audit"}
    PROVE  \/ LogoutLookup(api'.key) /\ api'.key \in Key
           \/ /\ api.pc \in LogoutPc \ {"logout_audit"} /\ api'.key = api.key
              /\ ~ LogoutRevoke
<1>0. api \in ApiState
  BY DEF IInv, TypeOK
<1>1. CASE api' = api
  BY <1>1, <1>0 DEF LogoutRevoke, ApiState
<1>2. CASE api' = ApiIdle
  BY <1>2 DEF ApiIdle, ApiAt, LogoutPc
<1>3. CASE LoginStep
  <2>1. CASE LoginAllocate
    <3>1. api'.pc = "login_peer"
      BY <1>0, <2>1 DEF LoginAllocate, ApiState
    <3>2. QED
      BY <3>1 DEF LogoutPc
  <2>2. CASE LoginAddPeer \/ LoginInsert \/ LoginUndoPeer
    BY <1>0, <2>2 DEF LoginAddPeer, LoginInsert, LoginUndoPeer, ApiState, LogoutPc
  <2>3. CASE LoginExhausted \/ LoginUndoIp \/ LoginAudit
    BY <1>2, <2>3 DEF LoginExhausted, LoginUndoIp, LoginAudit
  <2>4. QED
    BY <1>3, <2>1, <2>2, <2>3 DEF LoginStep
<1>4. CASE LogoutStep
  <2>1. CASE LogoutRemovePeer \/ LogoutRelease
    BY <1>0, <2>1 DEF LogoutRemovePeer, LogoutRelease, LogoutRevoke, ApiState, LogoutPc
  <2>2. CASE LogoutRevoke
    BY <1>0, <2>2 DEF LogoutRevoke, ApiState
  <2>3. QED
    BY <1>2, <1>4, <2>1, <2>2 DEF LogoutStep, LogoutAudit
<1>5. CASE RenewStep
  BY <1>0, <1>2, <1>5 DEF RenewStep, RenewUpdate, RenewAudit, ApiState, LogoutPc
<1>6. CASE Request
  BY <1>6 DEF Request, LoginCount, RenewLookup, LogoutLookup, ApiAt, LogoutPc
<1>7. QED
  BY <1>1, <1>2, <1>3, <1>4, <1>5, <1>6, ApiChange DEF ApiStep

(* How the reaper comes to the session it works on, and to its batch. *)
LEMMA ReaperStepOf ==
    ASSUME IInv, [Next]_vars
    PROVE  /\ reaper'.pc \in {"release", "revoke"} =>
                  \/ ReaperRemovePeer /\ reaper'.key \in reaper.batch
                  \/ /\ reaper.pc \in {"release", "revoke"} /\ reaper'.key = reaper.key
                     /\ ~ ReaperRevoke
           /\ \A k \in reaper'.batch : k \in reaper.batch \/ (k \in Overdue(row, clock) /\ row' = row)
           /\ reaper'.pc \in {"release", "revoke", "audit"} =>
                  \/ reaper'.key \notin reaper'.batch
                  \/ /\ reaper.pc \in {"release", "revoke", "audit"}
                     /\ reaper'.key = reaper.key /\ reaper'.batch = reaper.batch
<1>0. reaper \in ReaperState
  BY DEF IInv, TypeOK
<1>1. CASE reaper' = reaper
  BY <1>0, <1>1 DEF ReaperRevoke, ReaperState
<1>2. CASE \E pc \in ReaperPc \ {"release", "revoke", "audit"} : reaper' = ReaperAt(pc)
  BY <1>2 DEF ReaperAt
<1>3. CASE ReaperSelect
  <2>1. PICK b \in SUBSET Overdue(row, clock) :
            reaper' = IF b = {} THEN ReaperAt("sleep")
                      ELSE [ReaperAt("peer") EXCEPT !.batch = b]
    BY <1>3 DEF ReaperSelect, Batches
  <2>2. reaper'.pc \in {"sleep", "peer"} /\ reaper'.batch \subseteq b
    BY <2>1 DEF ReaperAt
  <2>3. row' = row
    BY <1>3 DEF ReaperSelect
  <2>4. QED
    BY <2>1, <2>2, <2>3
<1>4. CASE ReaperRemovePeer
  <2>1. PICK k \in reaper.batch :
            reaper' = [pc |-> "release", key |-> k, batch |-> reaper.batch \ {k}]
    BY <1>4 DEF ReaperRemovePeer
  <2>2. QED
    BY <1>4, <2>1
<1>5. CASE ReaperRelease
  BY <1>0, <1>5 DEF ReaperRelease, ReaperRevoke, ReaperState
<1>6. CASE ReaperRevoke
  BY <1>0, <1>6 DEF ReaperRevoke, ReaperState
<1>7. CASE ReaperAudit
  <2>1. reaper'.pc \in {"sleep", "peer"} /\ reaper'.batch \subseteq reaper.batch
    BY <1>0, <1>7 DEF ReaperAudit, ReaperAt, ReaperState
  <2>2. QED
    BY <2>1
<1>8. CASE ReaperWake
  BY <1>2, <1>8 DEF ReaperWake, ReaperPc
<1>9. QED
  BY <1>1, <1>2, <1>3, <1>4, <1>5, <1>6, <1>7, <1>8, ReaperChange
     DEF ReaperStep, ReaperPc

-----------------------------------------------------------------------------
(* A session in hand stays live *)

(* A session that is not contended is revoked by the thread that has it. *)
LEMMA LiveKept ==
    ASSUME IInv, WorkIsLive, NoContention, [Next]_vars, NEW k \in Key, IsLive(row, k)
    PROVE  /\ api.pc \in LogoutPc \ {"logout_audit"} /\ api.key = k /\ ~ LogoutRevoke =>
                  IsLive(row', k)
           /\ reaper.pc \in {"release", "revoke"} /\ reaper.key = k /\ ~ ReaperRevoke =>
                  IsLive(row', k)
           /\ k \in reaper.batch => IsLive(row', k)
<1>0. /\ ~ ApiUp => api.pc = "idle" /\ reaper = ReaperAt("off")
      /\ ~ Contended(k)
  BY DEF IInv, ThreadsOfMain, NoContention
<1>1. RevokeStale => ~ ApiUp
  BY DEF RevokeStale, ApiUp
<1>2. LogoutRevoke => api.pc = "logout_revoke" /\ api.pc \in LogoutPc \ {"logout_audit"}
  BY DEF LogoutRevoke, LogoutPc
<1>3. ReaperRevoke => reaper.pc = "revoke"
  BY DEF ReaperRevoke
<1>4. CASE RevokeStale
  BY <1>0, <1>1, <1>4 DEF ReaperAt, LogoutPc
<1>5. CASE LogoutRevoke /\ api.key = k
  BY <1>0, <1>2, <1>5 DEF Contended
<1>6. CASE ReaperRevoke /\ reaper.key = k
  BY <1>0, <1>3, <1>6 DEF Contended, WorkIsLive
<1>7. QED
  BY <1>4, <1>5, <1>6, LiveStep

LEMMA WorkIsLiveStep ==
    IInv /\ WorkIsLive /\ NoContention /\ [Next]_vars => WorkIsLive'
<1> SUFFICES ASSUME IInv, WorkIsLive, NoContention, [Next]_vars PROVE WorkIsLive'
  OBVIOUS
<1>0. /\ api.pc \in LogoutPc => api.key \in Key
      /\ reaper.pc \in {"release", "revoke"} => reaper.key \in Key
      /\ reaper.batch \subseteq Key
  BY DEF IInv, TypeOK, KeysHaveRows, ReaperState
<1>1. ASSUME api'.pc \in LogoutPc \ {"logout_audit"} PROVE IsLive(row', api'.key)
  <2>1. CASE LogoutLookup(api'.key)
    BY <2>1 DEF LogoutLookup
  <2>2. CASE /\ api.pc \in LogoutPc \ {"logout_audit"} /\ api'.key = api.key
             /\ ~ LogoutRevoke
    BY <1>0, <2>2, LiveKept DEF WorkIsLive
  <2>3. QED
    BY <1>1, <2>1, <2>2, LogoutStepOf
<1>2. ASSUME reaper'.pc \in {"release", "revoke"} PROVE IsLive(row', reaper'.key)
  <2>1. CASE ReaperRemovePeer /\ reaper'.key \in reaper.batch
    BY <2>1 DEF ReaperRemovePeer, WorkIsLive
  <2>2. CASE /\ reaper.pc \in {"release", "revoke"} /\ reaper'.key = reaper.key
             /\ ~ ReaperRevoke
    BY <1>0, <2>2, LiveKept DEF WorkIsLive
  <2>3. QED
    BY <1>2, <2>1, <2>2, ReaperStepOf
<1>3. ASSUME NEW k \in reaper'.batch PROVE IsLive(row', k)
  <2>1. CASE k \in reaper.batch
    BY <1>0, <2>1, LiveKept DEF WorkIsLive
  <2>2. CASE k \in Overdue(row, clock) /\ row' = row
    BY <2>2 DEF Overdue
  <2>3. QED
    BY <2>1, <2>2, ReaperStepOf
<1>4. reaper'.pc \in {"release", "revoke", "audit"} => reaper'.key \notin reaper'.batch
  BY ReaperStepOf DEF WorkIsLive
<1>5. QED
  BY <1>1, <1>2, <1>3, <1>4 DEF WorkIsLive

LEMMA NoneBeforeApiStep ==
    ASSUME {"revoke", "revoke_all"} \cap DbMayFail = {}
    PROVE  IInv /\ NoneBeforeApi /\ [Next]_vars => NoneBeforeApi'
<1> SUFFICES ASSUME IInv, NoneBeforeApi, [Next]_vars, proc' = "listen",
                    NEW k \in Key, IsLive(row', k)
             PROVE  FALSE
  BY DEF NoneBeforeApi
<1>0. row \in [Key -> Row \cup {NoRow}] /\ (~ ApiUp => api.pc = "idle")
  BY DEF IInv, TypeOK, ThreadsOfMain
<1>1. CASE RevokeStale
  <2>1. row' = AllRevoked(row)
    BY <1>1 DEF RevokeStale, DbOutcome, Outcomes
  <2>2. QED
    BY <1>0, <2>1 DEF AllRevoked, IsLive, Row
<1>2. CASE ~ RevokeStale
  <2>1. proc = "listen"
    BY <1>2 DEF Next, vars, MainStep, ApiStep, LoginStep, LogoutStep, RenewStep,
       ReaperStep, Request, Environment, LoadStatic, ApiStart, ReaperStart,
       ReaperJoin, ApiStop, LoginAllocate, LoginExhausted, LoginAddPeer, LoginInsert,
       LoginUndoPeer, LoginUndoIp, LoginAudit, LogoutRemovePeer, LogoutRelease,
       LogoutRevoke, LogoutAudit, RenewUpdate, RenewAudit, ReaperSelect,
       ReaperRemovePeer, ReaperRelease, ReaperRevoke, ReaperAudit, ReaperWake,
       LoginCount, LogoutLookup, RenewLookup, Start, Signal, Tick, Die
  <2>2. LoginInsert
    BY <2>1, DeadStep DEF NoneBeforeApi
  <2>3. QED
    BY <1>0, <2>1, <2>2 DEF LoginInsert, ApiUp
<1>3. QED
  BY <1>1, <1>2

-----------------------------------------------------------------------------
(* Who holds an address after a step *)

(* A step of a server that is up and stays up. *)
LEMMA UpKept ==
    ASSUME [Next]_vars, ApiUp'
    PROVE  /\ ~ ApiStop /\ \A machine \in BOOLEAN : ~ Die(machine)
           /\ ApiUp \/ (ApiStart /\ proc = "listen")
           /\ ApiUp => ~ RevokeStale /\ ~ Start
BY DEF Next, vars, MainStep, ApiStep, LoginStep, LogoutStep, RenewStep, ApiUp,
   ReaperStep, Request, Environment, LoadStatic, RevokeStale, ApiStart, ReaperStart,
   ReaperJoin, ApiStop, LoginAllocate, LoginExhausted, LoginAddPeer, LoginInsert,
   LoginUndoPeer, LoginUndoIp, LoginAudit, LogoutRemovePeer, LogoutRelease,
   LogoutRevoke, LogoutAudit, RenewUpdate, RenewAudit, ReaperSelect,
   ReaperRemovePeer, ReaperRelease, ReaperRevoke, ReaperAudit, ReaperWake,
   LoginCount, LogoutLookup, RenewLookup, Start, Signal, Tick, Die

(* A thread that has released an address goes on to revoke the row. *)
LEMMA PastReleaseEnds ==
    ASSUME {"revoke", "revoke_all"} \cap DbMayFail = {},
           IInv, [Next]_vars, ApiUp, ApiUp', NEW k \in Key,
           PastRelease(k), IsLive(row', k)
    PROVE  PastRelease(k)'
<1>0. /\ row \in [Key -> Row \cup {NoRow}]
      /\ proc = "spawn" => reaper = ReaperAt("off")
      /\ api.pc \in LogoutPc => row[api.key] # NoRow
      /\ reaper.pc = "revoke" => row[reaper.key] # NoRow
  BY DEF IInv, TypeOK, ThreadsOfMain, KeysHaveRows
<1>1. CASE api.pc = "logout_revoke" /\ api.key = k
  <2>1. CASE api' = api
    BY <1>1, <2>1 DEF PastRelease
  <2>2. CASE LogoutRevoke
    <3>1. row' = Revoked(row, k)
      BY <1>1, <2>2 DEF LogoutRevoke, RevokeRow, DbOutcome, Outcomes
    <3>2. row[k] \in Row
      BY <1>0, <1>1 DEF LogoutPc
    <3>3. QED
      BY <1>0, <3>1, <3>2 DEF Revoked, IsLive, Row
  <2>3. QED
    BY <1>1, <2>1, <2>2, UpKept DEF Next, vars, MainStep, ApiStep, LoginStep,
       LogoutStep, RenewStep, ReaperStep, Request, Environment, Accepts, LoadStatic,
       RevokeStale, ApiStart, ReaperStart, ReaperJoin, LoginAllocate, LoginExhausted,
       LoginAddPeer, LoginInsert, LoginUndoPeer, LoginUndoIp, LoginAudit,
       LogoutRemovePeer, LogoutRelease, LogoutAudit, RenewUpdate, RenewAudit,
       ReaperSelect, ReaperRemovePeer, ReaperRelease, ReaperRevoke, ReaperAudit,
       ReaperWake, LoginCount, LogoutLookup, RenewLookup, Start, Signal, Tick
<1>2. CASE reaper.pc = "revoke" /\ reaper.key = k
  <2>1. CASE reaper' = reaper
    BY <1>2, <2>1 DEF PastRelease
  <2>2. CASE ReaperRevoke
    <3>1. row' = Revoked(row, k)
      BY <1>2, <2>2 DEF ReaperRevoke, RevokeRow, DbOutcome, Outcomes
    <3>2. row[k] \in Row
      BY <1>0, <1>2
    <3>3. QED
      BY <1>0, <3>1, <3>2 DEF Revoked, IsLive, Row
  <2>3. ~ ReaperStart
    BY <1>0, <1>2 DEF ReaperStart, ReaperAt
  <2>4. QED
    BY <1>2, <2>1, <2>2, <2>3, UpKept DEF Next, vars, MainStep, ApiStep, LoginStep,
       LogoutStep, RenewStep, ReaperStep, Request, Environment, LoadStatic,
       RevokeStale, ApiStart, ReaperJoin, LoginAllocate, LoginExhausted,
       LoginAddPeer, LoginInsert, LoginUndoPeer, LoginUndoIp, LoginAudit,
       LogoutRemovePeer, LogoutRelease, LogoutRevoke, LogoutAudit, RenewUpdate,
       RenewAudit, ReaperSelect, ReaperRemovePeer, ReaperRelease, ReaperAudit,
       ReaperWake, LoginCount, LogoutLookup, RenewLookup, Start, Signal, Tick
<1>3. QED
  BY <1>1, <1>2 DEF PastRelease

(* An address comes to a new holder only from ip_pool_allocate. *)
LEMMA HolderStep ==
    ASSUME {"revoke", "revoke_all"} \cap DbMayFail = {},
           IInv, [Next]_vars, ApiUp, ApiUp',
           NEW k \in Key, NEW i \in Index, Holder(k, i)'
    PROVE  \/ Holder(k, i)
           \/ LoginAllocate /\ api.key = k /\ i \notin bitmap /\ i \in bitmap'
<1>0. api \in ApiState
  BY DEF IInv, TypeOK
<1>1. CASE LoginHoldsIp' /\ api'.key = k /\ api'.ip = i
  <2>1. CASE LoginAllocate
    <3>1. PICK j \in Leasable : /\ FirstFree(bitmap, j)
                                /\ bitmap' = MarkedUpTo(bitmap, j)
                                /\ api' = [api EXCEPT !.pc = "login_peer", !.ip = j]
      BY <2>1 DEF LoginAllocate
    <3>2. api.key = k /\ i = j
      BY <1>0, <1>1, <3>1 DEF ApiState
    <3>3. QED
      BY <2>1, <3>1, <3>2 DEF FirstFree, FreeIn, MarkedUpTo
  <2>2. CASE api' = api
    BY <1>1, <2>2 DEF Holder, LoginHoldsIp
  <2>3. CASE LoginAddPeer \/ LoginInsert \/ LoginUndoPeer
    BY <1>0, <1>1, <2>3 DEF LoginAddPeer, LoginInsert, LoginUndoPeer, Holder,
       LoginHoldsIp, ApiState
  <2>4. CASE LogoutStep
    BY <1>0, <1>1, <2>4 DEF LogoutStep, LogoutRemovePeer, LogoutRelease, LogoutRevoke,
       LogoutAudit, LoginHoldsIp, ApiState, ApiIdle, ApiAt
  <2>5. CASE RenewStep
    BY <1>0, <1>1, <2>5 DEF RenewStep, RenewUpdate, RenewAudit, LoginHoldsIp,
       ApiState, ApiIdle, ApiAt
  <2>6. CASE Request
    BY <1>1, <2>6 DEF Request, LoginCount, LogoutLookup, RenewLookup, LoginHoldsIp, ApiAt
  <2>7. CASE api' = ApiIdle
    BY <1>1, <2>7 DEF LoginHoldsIp, ApiIdle, ApiAt
  <2>8. QED
    BY <2>1, <2>2, <2>3, <2>4, <2>5, <2>6, <2>7, ApiChange
       DEF ApiStep, LoginStep, LoginExhausted, LoginUndoIp, LoginAudit
<1>2. CASE IsLive(row', k) /\ row'[k].ip = i /\ ~ PastRelease(k)'
  <2>1. CASE IsLive(row, k)
    <3>1. row[k].ip = i
      BY <1>2, <2>1, RowStep DEF IsLive
    <3>2. ~ PastRelease(k)
      BY <1>2, PastReleaseEnds
    <3>3. QED
      BY <2>1, <3>1, <3>2 DEF Holder
  <2>2. CASE ~ IsLive(row, k)
    <3>1. LoginInsert /\ api.key = k
      BY <1>2, <2>2, DeadStep
    <3>2. api.pc = "login_insert" /\ row[k] = NoRow
      BY <3>1 DEF LoginInsert, IInv, LoginLocals, LoginPc
    <3>3. api.ip = i
      BY <1>2, <3>2, RowStep DEF IsLive
    <3>4. QED
      BY <3>1, <3>2, <3>3 DEF Holder, LoginHoldsIp
  <2>3. QED
    BY <2>1, <2>2
<1>3. QED
  BY <1>1, <1>2 DEF Holder

(* A bit is cleared by the thread that gives its own address up. *)
LEMMA BitCleared ==
    ASSUME [Next]_vars, ApiUp, ApiUp', NEW i \in bitmap, i \notin bitmap'
    PROVE  \/ LoginUndoIp /\ api.ip = i
           \/ LogoutRelease /\ row[api.key].ip = i
           \/ ReaperRelease /\ row[reaper.key].ip = i
<1>1. CASE LoginAllocate \/ LoginExhausted
  BY <1>1 DEF LoginAllocate, LoginExhausted, MarkedUpTo, MarkedAll
<1>2. CASE LoginUndoIp \/ LogoutRelease \/ ReaperRelease
  BY <1>2 DEF LoginUndoIp, LogoutRelease, ReaperRelease, Released
<1>3. CASE bitmap' = bitmap
  BY <1>3
<1>4. QED
  BY <1>1, <1>2, <1>3, UpKept DEF Next, vars, MainStep, ApiStep, LoginStep, LogoutStep,
     RenewStep, ReaperStep, Request, Environment, LoadStatic, RevokeStale, ApiStart,
     ReaperStart, ReaperJoin, LoginAddPeer, LoginInsert, LoginUndoPeer, LoginAudit,
     LogoutRemovePeer, LogoutRevoke, LogoutAudit, RenewUpdate, RenewAudit,
     ReaperSelect, ReaperRemovePeer, ReaperRevoke, ReaperAudit, ReaperWake,
     LoginCount, LogoutLookup, RenewLookup, Signal, Tick

(* Until the API is up nobody holds an address. *)
LEMMA NoHolderAtStart ==
    ASSUME IInv, NoneBeforeApi, [Next]_vars, ~ ApiUp, ApiUp',
           NEW k \in Key, NEW i \in Index
    PROVE  ~ Holder(k, i)'
<1>1. ApiStart /\ proc = "listen"
  BY UpKept
<1>2. ~ IsLive(row', k) /\ api' = api /\ api.pc = "idle"
  BY <1>1 DEF ApiStart, NoneBeforeApi, IInv, ThreadsOfMain
<1>3. QED
  BY <1>2 DEF Holder, LoginHoldsIp

-----------------------------------------------------------------------------
(* The bitmap and its holders *)

LEMMA HoldersMarkedStep ==
    ASSUME {"revoke", "revoke_all"} \cap DbMayFail = {}
    PROVE  IInv /\ HolderInv /\ NoContention /\ [Next]_vars => HoldersMarked'
<1> SUFFICES ASSUME IInv, HolderInv, NoContention, [Next]_vars, ApiUp',
                    NEW k \in Key, NEW i \in Index, Holder(k, i)', i \notin bitmap'
             PROVE  FALSE
  BY DEF HoldersMarked, Index
<1>0. /\ api.pc \in LogoutPc => api.key \in Key /\ row[api.key] # NoRow
      /\ api.pc \in LoginPc => api.key \in Key
      /\ api.pc \in LoginPc \ {"login_audit"} => row[api.key] = NoRow
      /\ reaper.pc = "release" => reaper.key \in Key
      /\ api \in ApiState /\ reaper \in ReaperState
      /\ \A l \in Key : ~ Contended(l)
  BY DEF IInv, TypeOK, LoginLocals, KeysHaveRows, NoContention
<1>1. ApiUp
  BY NoHolderAtStart DEF HolderInv
<1>2. Holder(k, i) /\ i \in bitmap
  BY <1>1, HolderStep DEF HolderInv, HoldersMarked
<1>3. \A l \in Key : Holder(l, i) => l = k
  BY <1>1, <1>2 DEF HolderInv, NoSharedAddress
<1>4. CASE LoginUndoIp /\ api.ip = i
  <2>1. Holder(api.key, i) /\ api.key \in Key /\ row[api.key] = NoRow
    BY <1>0, <1>4 DEF LoginUndoIp, Holder, LoginHoldsIp, LoginPc
  <2>2. api.key = k
    BY <1>3, <2>1
  <2>3. api'.pc = "idle" /\ row' = row
    BY <1>4 DEF LoginUndoIp, ApiIdle, ApiAt
  <2>4. QED
    BY <2>1, <2>2, <2>3 DEF Holder, LoginHoldsIp, IsLive
<1>5. CASE LogoutRelease /\ row[api.key].ip = i
  <2>1. /\ api.pc = "logout_release" /\ api.key \in Key
        /\ api.pc \in LogoutPc \ {"logout_audit"}
        /\ api'.pc = "logout_revoke" /\ api'.key = api.key
    BY <1>0, <1>5 DEF LogoutRelease, LogoutPc, ApiState
  <2>2. IsLive(row, api.key)
    BY <2>1 DEF HolderInv, WorkIsLive
  <2>3. ~ PastRelease(api.key)
    BY <1>0, <2>1 DEF PastRelease, Contended
  <2>4. api.key = k
    BY <1>3, <1>5, <2>1, <2>2, <2>3 DEF Holder
  <2>5. QED
    BY <2>1, <2>4 DEF Holder, LoginHoldsIp, PastRelease
<1>6. CASE ReaperRelease /\ row[reaper.key].ip = i
  <2>1. /\ reaper.pc = "release" /\ reaper.key \in Key
        /\ reaper'.pc = "revoke" /\ reaper'.key = reaper.key
        /\ api' = api /\ row' = row
    BY <1>0, <1>6 DEF ReaperRelease, ReaperState
  <2>2. IsLive(row, reaper.key)
    BY <2>1 DEF HolderInv, WorkIsLive
  <2>3. ~ PastRelease(reaper.key)
    BY <1>0, <2>1 DEF PastRelease, Contended, LogoutPc
  <2>4. reaper.key = k
    BY <1>3, <1>6, <2>1, <2>2, <2>3 DEF Holder
  <2>5. PastRelease(k)'
    BY <2>1, <2>4 DEF PastRelease
  <2>6. LoginHoldsIp /\ api.key = k
    BY <2>1, <2>5 DEF Holder, LoginHoldsIp
  <2>7. row[k] = NoRow
    BY <1>0, <2>6 DEF LoginHoldsIp, LoginPc
  <2>8. QED
    BY <2>2, <2>4, <2>7 DEF IsLive
<1>7. QED
  BY <1>1, <1>2, <1>4, <1>5, <1>6, BitCleared

LEMMA NoSharedAddressStep ==
    ASSUME {"revoke", "revoke_all"} \cap DbMayFail = {}
    PROVE  IInv /\ HolderInv /\ [Next]_vars => NoSharedAddress'
<1> SUFFICES ASSUME IInv, HolderInv, [Next]_vars, ApiUp',
                    NEW i \in Index, NEW k \in Key, NEW l \in Key,
                    Holder(k, i)', Holder(l, i)'
             PROVE  k = l
  BY DEF NoSharedAddress, Index
<1>1. ApiUp
  BY NoHolderAtStart DEF HolderInv
<1>2. CASE i \in bitmap
  BY <1>1, <1>2, HolderStep DEF HolderInv, NoSharedAddress
<1>3. CASE i \notin bitmap
  <2>1. ~ Holder(k, i) /\ ~ Holder(l, i)
    BY <1>1, <1>3 DEF HolderInv, HoldersMarked
  <2>2. api.key = k /\ api.key = l
    BY <1>1, <2>1, HolderStep
  <2>3. QED
    BY <2>2
<1>4. QED
  BY <1>2, <1>3

(* Without contention every address in use has one holder and a set bit. *)
LEMMA HoldersKept ==
    ASSUME {"revoke", "revoke_all"} \cap DbMayFail = {}
    PROVE  Spec => ([]NoContention => []HolderInv)
<1>1. Init => HolderInv
  BY DEF Init, HolderInv, HoldersMarked, NoSharedAddress, WorkIsLive, NoneBeforeApi,
     ApiUp, ApiIdle, ApiAt, ReaperAt, LogoutPc
<1>2. IInv /\ HolderInv /\ NoContention /\ [Next]_vars => HolderInv'
  BY HoldersMarkedStep, NoSharedAddressStep, WorkIsLiveStep, NoneBeforeApiStep
     DEF HolderInv
<1>3. QED
  BY <1>1, <1>2, Invariance, PTL DEF Spec

(* While revoking a row does not fail, no two sessions ever share an       *)
(* address in a run in which a logout and the reaper never work on one     *)
(* session together: the pool's bit, which anybody may clear, is cleared   *)
(* only for the session that holds the address, through every error path,  *)
(* renewal, stale batch and restart.                                       *)
THEOREM AddressesNotShared ==
    ASSUME {"revoke", "revoke_all"} \cap DbMayFail = {}
    PROVE  Spec => SharingNeedsContention
<1>1. HolderInv => NoSharedAddress
  BY DEF HolderInv
<1>2. QED
  BY <1>1, HoldersKept, PTL DEF SharingNeedsContention

-----------------------------------------------------------------------------
(* The route of a session *)

(* A login that is about to insert its row has the route of its address. *)
InsertHasRoute == api.pc = "login_insert" => route[api.ip] = api.key

RouteInv == InsertHasRoute /\ LiveSessionHasRoute

LEMMA DroppedRoute ==
    ASSUME NEW i \in Index, NEW l, route[i] # l, RemovePeer(l)
    PROVE  route'[i] = route[i]
BY DbAssumption DEF RemovePeer, RouteDropped, IInv, TypeOK, RouteTable

LEMMA InsertHasRouteStep == IInv /\ InsertHasRoute /\ [Next]_vars => InsertHasRoute'
<1> SUFFICES ASSUME IInv, InsertHasRoute, [Next]_vars, api'.pc = "login_insert"
             PROVE  route'[api'.ip] = api'.key
  BY DEF InsertHasRoute
<1>0. /\ api \in ApiState /\ route \in RouteTable /\ Index \subseteq Addr
      /\ api.pc \in {"login_peer", "login_insert"} => api.key \in Key /\ row[api.key] = NoRow
      /\ \A k \in reaper.batch : row[k] # NoRow
      /\ ~ ApiUp => api.pc = "idle"
  BY DbAssumption DEF IInv, TypeOK, LoginLocals, LoginPc, KeysHaveRows, ThreadsOfMain
<1>1. CASE LoginAddPeer
  <2>1. /\ api' = [api EXCEPT !.pc = "login_insert", !.expires = clock + Ttl]
        /\ route' = RouteTo(route, api.key, api.ip)
    <3>1. \/ /\ api' = [api EXCEPT !.pc = "login_insert", !.expires = clock + Ttl]
             /\ route' = RouteTo(route, api.key, api.ip)
          \/ api' = [api EXCEPT !.pc = "login_undo_ip"]
      BY <1>1 DEF LoginAddPeer
    <3>2. QED
      BY <1>0, <3>1 DEF ApiState
  <2>2. api'.ip = api.ip /\ api'.key = api.key /\ api.ip \in Addr
    BY <1>0, <2>1 DEF ApiState
  <2>3. QED
    BY <2>1, <2>2 DEF RouteTo
<1>2. CASE api' = api
  <2>1. api.pc = "login_insert" /\ route[api.ip] = api.key /\ ApiUp /\ api.ip \in Index
    BY <1>0, <1>2 DEF InsertHasRoute, ApiState
  <2>2. CASE route' = route
    BY <1>2, <2>1, <2>2
  <2>3. CASE ReaperRemovePeer
    <3>1. PICK l \in reaper.batch : RemovePeer(l)
      BY <2>3 DEF ReaperRemovePeer
    <3>2. l # api.key
      BY <1>0, <2>1, <3>1
    <3>3. QED
      BY <1>2, <2>1, <3>1, <3>2, DroppedRoute
  <2>4. /\ ~ LoadStatic /\ ~ LoginAddPeer /\ ~ LoginUndoPeer /\ ~ LogoutRemovePeer
        /\ \A machine \in BOOLEAN : ~ Die(machine)
    BY <1>2, <2>1 DEF LoadStatic, LoginAddPeer, LoginUndoPeer, LogoutRemovePeer, Die,
       ApiUp, ApiIdle, ApiAt
  <2>5. QED
    BY <2>2, <2>3, <2>4, DeviceChange
<1>3. QED
  <2>1. CASE LoginAllocate
    <3>1. api'.pc = "login_peer"
      BY <1>0, <2>1 DEF LoginAllocate, ApiState
    <3>2. QED
      BY <3>1
  <2>2. CASE LoginInsert \/ LoginUndoPeer
    BY <1>0, <2>2 DEF LoginInsert, LoginUndoPeer, ApiState
  <2>3. CASE LogoutStep
    BY <1>0, <2>3 DEF LogoutStep, LogoutRemovePeer, LogoutRelease, LogoutRevoke,
       LogoutAudit, ApiState, ApiIdle, ApiAt
  <2>4. CASE RenewStep
    BY <1>0, <2>4 DEF RenewStep, RenewUpdate, RenewAudit, ApiState, ApiIdle, ApiAt
  <2>5. CASE Request
    BY <2>5 DEF Request, LoginCount, LogoutLookup, RenewLookup, ApiAt
  <2>6. CASE api' = ApiIdle
    BY <2>6 DEF ApiIdle, ApiAt
  <2>7. QED
    BY <1>1, <1>2, <2>1, <2>2, <2>3, <2>4, <2>5, <2>6, ApiChange
       DEF ApiStep, LoginStep, LoginExhausted, LoginUndoIp, LoginAudit

LEMMA LiveSessionHasRouteStep ==
    ASSUME {"revoke", "revoke_all"} \cap DbMayFail = {}
    PROVE  IInv /\ HolderInv /\ RouteInv /\ [Next]_vars => LiveSessionHasRoute'
<1> SUFFICES ASSUME IInv, HolderInv, RouteInv, [Next]_vars, ApiUp',
                    NEW k \in Key, IsLive(row', k), ~ Removing(k)'
             PROVE  route'[row'[k].ip] = k
  BY DEF LiveSessionHasRoute
<1>0. /\ row \in [Key -> Row \cup {NoRow}] /\ api \in ApiState
      /\ route \in RouteTable /\ Index \subseteq Addr
      /\ api.pc \in {"login_peer", "login_undo_peer"} =>
             api.key \in Key /\ row[api.key] = NoRow
  BY DbAssumption DEF IInv, TypeOK, LoginLocals, LoginPc
<1>1. PICK i \in Index : row'[k].ip = i
  <2>1. row'[k] \in Row
    BY TypeStep DEF IInv, TypeOK, IsLive
  <2>2. QED
    BY <2>1 DEF Row
<1>2. ApiUp
  <2>1. ~ PastRelease(k)'
    BY DEF PastRelease, Removing
  <2>2. Holder(k, i)'
    BY <1>1, <2>1 DEF Holder
  <2>3. QED
    BY <1>1, <2>2, NoHolderAtStart DEF HolderInv
<1>3. CASE ~ IsLive(row, k)
  <2>1. LoginInsert /\ api.key = k
    BY <1>3, DeadStep
  <2>2. row[k] = NoRow /\ api.pc = "login_insert" /\ route' = route
    BY <2>1 DEF LoginInsert, IInv, LoginLocals, LoginPc
  <2>3. row'[k].ip = api.ip
    BY <2>2, RowStep DEF IsLive
  <2>4. QED
    BY <2>1, <2>2, <2>3 DEF RouteInv, InsertHasRoute
<1>4. CASE IsLive(row, k)
  <2>1. row[k] # NoRow /\ row[k].ip = i
    BY <1>1, <1>4, RowStep DEF IsLive
  <2>2. ~ Removing(k)
    BY RemovingStep DEF ApiUp
  <2>3. route[i] = k
    BY <1>2, <1>4, <2>1, <2>2 DEF RouteInv, LiveSessionHasRoute
  <2>4. CASE route' = route
    BY <1>1, <2>3, <2>4
  <2>5. CASE LoginAddPeer
    <3>1. /\ api.pc = "login_peer" /\ api.key # k
          /\ route' \in {route, RouteTo(route, api.key, api.ip)}
      BY <1>0, <2>1, <2>5 DEF LoginAddPeer
    <3>2. Holder(k, i)
      BY <1>4, <2>1, <2>2 DEF Holder, PastRelease, Removing
    <3>3. Holder(api.key, api.ip) /\ api.key \in Key
      BY <1>0, <3>1 DEF Holder, LoginHoldsIp
    <3>4. api.ip # i
      BY <1>1, <1>2, <3>1, <3>2, <3>3 DEF HolderInv, NoSharedAddress
    <3>5. route'[i] = route[i]
      BY <1>0, <1>1, <2>3, <3>1, <3>4 DEF RouteTo
    <3>6. QED
      BY <1>1, <2>3, <3>5
  <2>6. CASE LoginUndoPeer
    <3>1. RemovePeer(api.key) /\ api.key # k
      BY <1>0, <2>1, <2>6 DEF LoginUndoPeer
    <3>2. QED
      BY <1>1, <2>3, <3>1, DroppedRoute
  <2>7. CASE LogoutRemovePeer
    <3>1. RemovePeer(api.key) /\ api'.key = api.key /\ api'.pc = "logout_release"
      BY <1>0, <2>7 DEF LogoutRemovePeer, ApiState
    <3>2. api.key # k
      BY <3>1 DEF Removing
    <3>3. QED
      BY <1>1, <2>3, <3>1, <3>2, DroppedRoute
  <2>8. CASE ReaperRemovePeer
    <3>1. PICK l \in reaper.batch : /\ RemovePeer(l)
                                    /\ reaper'.key = l /\ reaper'.pc = "release"
      BY <2>8 DEF ReaperRemovePeer
    <3>2. l # k
      BY <3>1 DEF Removing
    <3>3. QED
      BY <1>1, <2>3, <3>1, <3>2, DroppedRoute
  <2>9. ~ LoadStatic /\ \A machine \in BOOLEAN : ~ Die(machine)
    BY <1>2, UpKept DEF LoadStatic, ApiUp
  <2>10. QED
    BY <2>4, <2>5, <2>6, <2>7, <2>8, <2>9, DeviceChange
<1>5. QED
  BY <1>3, <1>4

(* While revoking a row does not fail, the address of a session leads to   *)
(* its peer in a run in which a logout and the reaper never work on one    *)
(* session together: no peer that a crash, a restart, a refused removal or *)
(* an error path left in the device takes the session's traffic.           *)
THEOREM RoutesKept ==
    ASSUME {"revoke", "revoke_all"} \cap DbMayFail = {}
    PROVE  Spec => MisrouteNeedsContention
<1>1. Init => RouteInv
  BY DEF Init, RouteInv, InsertHasRoute, LiveSessionHasRoute, ApiUp, ApiIdle, ApiAt
<1>2. IInv /\ HolderInv /\ RouteInv /\ [Next]_vars => RouteInv'
  BY InsertHasRouteStep, LiveSessionHasRouteStep DEF RouteInv
<1>3. RouteInv => LiveSessionHasRoute
  BY DEF RouteInv
<1>4. QED
  BY <1>1, <1>2, <1>3, HoldersKept, Invariance, PTL DEF Spec, MisrouteNeedsContention

-----------------------------------------------------------------------------
(* The sessions that clients see *)

(* The reaper has a batch only while it works on one. *)
NoBatch == reaper.pc \in {"off", "select", "sleep", "exited"} => reaper.batch = {}

(* No session has more than Ttl before it, and none of its renewals has    *)
(* less than the session has already: no other request is handled between  *)
(* the look at the row and its update.                                     *)
ExpiryBounds ==
    /\ \A k \in Key : row[k] # NoRow => row[k].expires <= clock + Ttl
    /\ api.pc = "login_insert" => api.expires <= clock + Ttl
    /\ api.pc = "renew_update" => /\ api.expires <= clock + Ttl
                                  /\ row[api.key].expires <= api.expires

ServiceInv == NoBatch /\ ExpiryBounds

LEMMA NoBatchStep == IInv /\ NoBatch /\ [Next]_vars => NoBatch'
<1> SUFFICES ASSUME IInv, NoBatch, [Next]_vars PROVE NoBatch'
  OBVIOUS
<1>0. reaper \in ReaperState
  BY DEF IInv, TypeOK
<1>1. CASE reaper' = reaper
  BY <1>1 DEF NoBatch
<1>2. CASE reaper' \in {ReaperAt("off"), ReaperAt("select")}
  BY <1>2 DEF NoBatch, ReaperAt
<1>3. CASE ReaperStep
  <2>1. CASE ReaperSelect
    BY <2>1 DEF ReaperSelect, NoBatch, ReaperAt
  <2>2. CASE ReaperRemovePeer
    BY <2>2 DEF ReaperRemovePeer, NoBatch
  <2>3. CASE ReaperRelease \/ ReaperRevoke
    BY <1>0, <2>3 DEF ReaperRelease, ReaperRevoke, NoBatch, ReaperState
  <2>4. CASE ReaperAudit
    BY <1>0, <2>4 DEF ReaperAudit, NoBatch, ReaperAt, ReaperState
  <2>5. CASE ReaperWake
    BY <2>5 DEF ReaperWake, NoBatch, ReaperAt
  <2>6. QED
    BY <1>3, <2>1, <2>2, <2>3, <2>4, <2>5 DEF ReaperStep
<1>4. QED
  BY <1>1, <1>2, <1>3, ReaperChange

(* An expiry changes by db_create_session and db_update_session_expiry.    *)
LEMMA ExpiryStep ==
    ASSUME IInv, [Next]_vars, NEW k \in Key, row'[k] # NoRow
    PROVE  \/ row[k] # NoRow /\ row'[k].expires = row[k].expires
           \/ api.key = k /\ (LoginInsert \/ RenewUpdate) /\ row'[k].expires = api.expires
<1>0. /\ row \in [Key -> Row \cup {NoRow}]
      /\ api \in ApiState
      /\ api.pc \in LoginPc => api.key \in Key
      /\ api.pc \in LogoutPc \cup RenewPc => api.key \in Key /\ row[api.key] # NoRow
      /\ reaper.pc = "revoke" => reaper.key \in Key /\ row[reaper.key] # NoRow
  BY DEF IInv, TypeOK, LoginLocals, KeysHaveRows
<1>1. CASE row' = row
  BY <1>1
<1>2. ASSUME NEW l \in Key, row[l] # NoRow, row' = Revoked(row, l)
      PROVE  row[k] # NoRow /\ row'[k].expires = row[k].expires
  <2>1. row[l] \in Row
    BY <1>0, <1>2
  <2>2. row'[k] = IF k = l THEN [row[l] EXCEPT !.revoked = TRUE] ELSE row[k]
    BY <1>0, <1>2 DEF Revoked
  <2>3. [row[l] EXCEPT !.revoked = TRUE].expires = row[l].expires
    BY <2>1 DEF Row
  <2>4. QED
    BY <1>2, <2>2, <2>3
<1>3. CASE RevokeStale
  <2>1. row' = row \/ row' = AllRevoked(row)
    BY <1>3 DEF RevokeStale
  <2>2. CASE row' = AllRevoked(row)
    <3>1. row[k] # NoRow /\ row'[k] = [row[k] EXCEPT !.revoked = TRUE]
      BY <2>2 DEF AllRevoked
    <3>2. row[k] \in Row
      BY <1>0, <3>1
    <3>3. QED
      BY <3>1, <3>2 DEF Row
  <2>3. QED
    BY <1>1, <2>1, <2>2
<1>4. CASE LoginInsert
  <2>1. api.key \in Key
    BY <1>0, <1>4 DEF LoginInsert, LoginPc
  <2>2. CASE row' = Inserted(row, api.key, api.account, api.ip, api.expires)
    BY <1>0, <1>4, <2>1, <2>2 DEF Inserted
  <2>3. QED
    BY <1>1, <1>4, <2>2 DEF LoginInsert
<1>5. CASE LogoutRevoke
  BY <1>0, <1>1, <1>2, <1>5 DEF LogoutRevoke, RevokeRow, LogoutPc
<1>6. CASE ReaperRevoke
  BY <1>0, <1>1, <1>2, <1>6 DEF ReaperRevoke, RevokeRow
<1>7. CASE RenewUpdate
  <2>1. api.key \in Key /\ row[api.key] \in Row
    BY <1>0, <1>7 DEF RenewUpdate, RenewPc
  <2>2. CASE row' = Extended(row, api.key, api.expires)
    <3>1. row'[k] = IF k = api.key THEN [row[k] EXCEPT !.expires = api.expires]
                    ELSE row[k]
      BY <1>0, <2>1, <2>2 DEF Extended
    <3>2. QED
      BY <1>7, <2>1, <3>1 DEF Row
  <2>3. QED
    BY <1>1, <1>7, <2>2 DEF RenewUpdate
<1>8. QED
  BY <1>1, <1>3, <1>4, <1>5, <1>6, <1>7, RowChange

(* Where the API thread comes to its insert, and to its update. *)
LEMMA ExpirySetStep ==
    ASSUME IInv, [Next]_vars
    PROVE  /\ api'.pc = "login_insert" =>
                  api' = api \/ (api'.expires = clock + Ttl /\ clock' = clock)
           /\ api'.pc = "renew_update" =>
                  \/ api' = api
                  \/ /\ api'.expires = clock + Ttl /\ clock' = clock /\ row' = row
                     /\ api'.key \in Key /\ row[api'.key] # NoRow
<1>0. api \in ApiState
  BY DEF IInv, TypeOK
<1>1. CASE api' = api \/ api' = ApiIdle
  BY <1>1 DEF ApiIdle, ApiAt
<1>2. CASE ApiStep
  <2>1. CASE LoginExhausted \/ LoginUndoIp \/ LoginAudit
    BY <2>1 DEF LoginExhausted, LoginUndoIp, LoginAudit, ApiIdle, ApiAt
  <2>2. CASE LoginAllocate \/ LoginUndoPeer
    BY <1>0, <2>2 DEF LoginAllocate, LoginUndoPeer, ApiState
  <2>3. CASE LoginInsert
    BY <1>0, <2>3 DEF LoginInsert, ApiState
  <2>4. CASE LoginAddPeer
    BY <1>0, <2>4 DEF LoginAddPeer, ApiState
  <2>5. CASE LogoutStep \/ RenewStep
    BY <1>0, <2>5 DEF LogoutStep, LogoutRemovePeer, LogoutRelease, LogoutRevoke,
       LogoutAudit, RenewStep, RenewUpdate, RenewAudit, ApiIdle, ApiAt, ApiState
  <2>6. QED
    BY <1>2, <2>1, <2>2, <2>3, <2>4, <2>5 DEF ApiStep, LoginStep
<1>3. CASE Request
  BY <1>3 DEF Request, LoginCount, LogoutLookup, RenewLookup, ApiAt, IsLive
<1>4. QED
  BY <1>1, <1>2, <1>3, ApiChange

LEMMA ExpiryBoundsStep == IInv /\ ExpiryBounds /\ [Next]_vars => ExpiryBounds'
<1> SUFFICES ASSUME IInv, ExpiryBounds, [Next]_vars PROVE ExpiryBounds'
  OBVIOUS
<1>0. /\ row \in [Key -> Row \cup {NoRow}] /\ row' \in [Key -> Row \cup {NoRow}]
      /\ api \in ApiState /\ Ttl \in Nat
      /\ api.pc \in LogoutPc \cup RenewPc => api.key \in Key /\ row[api.key] # NoRow
  BY TypeStep, ServerAssumption DEF IInv, TypeOK, KeysHaveRows
<1>1. clock \in Nat /\ clock' \in Nat /\ clock' >= clock
  BY ClockGrows
<1>2. ASSUME NEW k \in Key, row'[k] # NoRow
      PROVE  row'[k].expires <= clock' + Ttl
  <2>1. CASE row[k] # NoRow /\ row'[k].expires = row[k].expires
    <3>1. row[k].expires <= clock + Ttl /\ row[k].expires \in Nat
      BY <1>0, <2>1 DEF ExpiryBounds, Row
    <3>2. QED
      BY <1>0, <1>1, <2>1, <3>1
  <2>2. CASE (LoginInsert \/ RenewUpdate) /\ row'[k].expires = api.expires
    <3>1. api.expires <= clock + Ttl /\ api.expires \in Nat
      BY <1>0, <2>2 DEF LoginInsert, RenewUpdate, ExpiryBounds, ApiState
    <3>2. QED
      BY <1>0, <1>1, <2>2, <3>1
  <2>3. QED
    BY <1>2, <2>1, <2>2, ExpiryStep
<1>3. ASSUME api'.pc = "login_insert"
      PROVE  api'.expires <= clock' + Ttl
  <2>1. CASE api' = api
    <3>1. api.expires <= clock + Ttl /\ api.expires \in Nat
      BY <1>0, <1>3, <2>1 DEF ExpiryBounds, ApiState
    <3>2. QED
      BY <1>0, <1>1, <2>1, <3>1
  <2>2. QED
    BY <1>0, <1>1, <1>3, <2>1, ExpirySetStep
<1>4. ASSUME api'.pc = "renew_update"
      PROVE  api'.expires <= clock' + Ttl /\ row'[api'.key].expires <= api'.expires
  <2>1. CASE api' = api
    <3>1. /\ api.expires <= clock + Ttl /\ api.expires \in Nat
          /\ row[api.key].expires <= api.expires
          /\ api.key \in Key /\ row[api.key] # NoRow
      BY <1>0, <1>4, <2>1 DEF ExpiryBounds, ApiState, RenewPc
    <3>2. ~ LoginInsert /\ ~ RenewUpdate
      BY <1>0, <1>4, <2>1 DEF LoginInsert, RenewUpdate, ApiState
    <3>3. row'[api.key].expires = row[api.key].expires
      BY <3>1, <3>2, ExpiryStep, RowStep
    <3>4. QED
      BY <1>0, <1>1, <2>1, <3>1, <3>3
  <2>2. CASE api'.expires = clock + Ttl /\ clock' = clock /\ row' = row
             /\ api'.key \in Key /\ row[api'.key] # NoRow
    BY <1>0, <1>1, <2>2 DEF ExpiryBounds
  <2>3. QED
    BY <1>4, <2>1, <2>2, ExpirySetStep
<1>5. QED
  BY <1>2, <1>3, <1>4 DEF ExpiryBounds

(* What the statements of db.c do to the sessions that clients see.        *)
LEMMA RevokedSession ==
    ASSUME NEW k \in Key, row \in [Key -> Row \cup {NoRow}], IsLive(row, k),
           row' = Revoked(row, k)
    PROVE  /\ LiveKeys' = LiveKeys \ {k}
           /\ EndedKeys' = EndedKeys \cup {k}
           /\ ExpiryOf' = [ExpiryOf EXCEPT ![k] = 0]
<1>1. /\ row'[k] # NoRow /\ row'[k].revoked
      /\ \A l \in Key : l # k => row'[l] = row[l]
  BY RowUpdate, DbAssumption DEF Revoked, IsLive, Row
<1>2. LiveKeys' = LiveKeys \ {k} /\ EndedKeys' = EndedKeys \cup {k}
  BY <1>1 DEF LiveKeys, EndedKeys, IsLive
<1>3. \A l \in Key : ExpiryOf'[l] = IF l = k THEN 0 ELSE ExpiryOf[l]
  BY <1>1 DEF ExpiryOf, IsLive
<1>4. QED
  BY <1>2, <1>3 DEF ExpiryOf

(* A second revocation changes nothing. *)
LEMMA RevokedAgain ==
    ASSUME NEW k \in Key, row \in [Key -> Row \cup {NoRow}], row[k] # NoRow,
           ~ IsLive(row, k), row' = Revoked(row, k)
    PROVE  row' = row
<1>1. row[k] \in Row /\ row[k].revoked = TRUE
  BY DEF IsLive, Row
<1>2. [row[k] EXCEPT !.revoked = TRUE] = row[k]
  BY <1>1 DEF Row
<1>3. QED
  BY <1>2 DEF Revoked

LEMMA AllRevokedSessions ==
    ASSUME row \in [Key -> Row \cup {NoRow}], row' = AllRevoked(row)
    PROVE  /\ LiveKeys' = {}
           /\ EndedKeys' = EndedKeys \cup LiveKeys
           /\ ExpiryOf' = [k \in Key |-> 0]
<1>1. ASSUME NEW k \in Key
      PROVE  /\ row[k] = NoRow <=> row'[k] = NoRow
             /\ row[k] # NoRow => row'[k].revoked
  <2>1. CASE row[k] = NoRow
    BY <2>1 DEF AllRevoked
  <2>2. CASE row[k] # NoRow
    <3>1. row[k] \in Row /\ row'[k] = [row[k] EXCEPT !.revoked = TRUE]
      BY <2>2 DEF AllRevoked
    <3>2. QED
      BY <2>2, <3>1, RowUpdate DEF Row
  <2>3. QED
    BY <2>1, <2>2
<1>2. QED
  BY <1>1 DEF LiveKeys, EndedKeys, ExpiryOf, IsLive

LEMMA InsertedSession ==
    ASSUME row \in [Key -> Row \cup {NoRow}], NEW k \in Key, row[k] = NoRow,
           NEW a \in Account, NEW i \in Index, NEW e \in Nat,
           row' = Inserted(row, k, a, i, e)
    PROVE  /\ k \notin LiveKeys \cup EndedKeys
           /\ LiveKeys' = LiveKeys \cup {k}
           /\ EndedKeys' = EndedKeys
           /\ ExpiryOf' = [ExpiryOf EXCEPT ![k] = e]
<1>1. [account |-> a, ip |-> i, expires |-> e, revoked |-> FALSE] # NoRow
  <2>1. [account |-> a, ip |-> i, expires |-> e, revoked |-> FALSE] \in Row
    BY DEF Row
  <2>2. QED
    BY <2>1, DbAssumption
<1>2. /\ row'[k] # NoRow /\ ~ row'[k].revoked /\ row'[k].expires = e
      /\ \A l \in Key : l # k => row'[l] = row[l]
  BY <1>1 DEF Inserted
<1>3. k \notin LiveKeys \cup EndedKeys
  BY DEF LiveKeys, EndedKeys, IsLive
<1>4. LiveKeys' = LiveKeys \cup {k} /\ EndedKeys' = EndedKeys
  BY <1>2 DEF LiveKeys, EndedKeys, IsLive
<1>5. \A l \in Key : ExpiryOf'[l] = IF l = k THEN e ELSE ExpiryOf[l]
  BY <1>2 DEF ExpiryOf, IsLive
<1>6. QED
  BY <1>3, <1>4, <1>5 DEF ExpiryOf

LEMMA ExtendedSession ==
    ASSUME row \in [Key -> Row \cup {NoRow}], NEW k \in Key, row[k] # NoRow,
           NEW e \in Nat, row' = Extended(row, k, e)
    PROVE  /\ LiveKeys' = LiveKeys /\ EndedKeys' = EndedKeys
           /\ k \in LiveKeys => ExpiryOf' = [ExpiryOf EXCEPT ![k] = e]
           /\ k \notin LiveKeys => ExpiryOf' = ExpiryOf
<1>0. row[k] \in Row /\ row'[k] = [row[k] EXCEPT !.expires = e]
  BY DEF Extended
<1>1. /\ row'[k] # NoRow /\ row'[k].revoked = row[k].revoked /\ row'[k].expires = e
      /\ \A l \in Key : l # k => row'[l] = row[l]
  <2>1. row'[k] # NoRow
    BY <1>0, RowUpdate
  <2>2. row'[k].revoked = row[k].revoked /\ row'[k].expires = e
    BY <1>0 DEF Row
  <2>3. \A l \in Key : l # k => row'[l] = row[l]
    BY DEF Extended
  <2>4. QED
    BY <2>1, <2>2, <2>3
<1>2. LiveKeys' = LiveKeys /\ EndedKeys' = EndedKeys
  BY <1>1 DEF LiveKeys, EndedKeys, IsLive
<1>3. \A l \in Key : ExpiryOf'[l] = IF l = k /\ k \in LiveKeys THEN e ELSE ExpiryOf[l]
  BY <1>1 DEF ExpiryOf, LiveKeys, IsLive
<1>4. QED
  BY <1>2, <1>3 DEF ExpiryOf

(* A step that writes no row, moves neither the clock nor the API, and     *)
(* takes nothing on is one of SessionService's Forget.                     *)
LEMMA QuietStep ==
    ASSUME row' = row, clock' = clock, ApiUp' = ApiUp,
           AskedKeys' \subseteq AskedKeys, DoomedKeys' \subseteq DoomedKeys,
           GrantedRenewals' \subseteq GrantedRenewals
    PROVE  Service!ServiceNext
<1>1. LiveKeys' = LiveKeys /\ EndedKeys' = EndedKeys /\ ExpiryOf' = ExpiryOf
  BY DEF LiveKeys, EndedKeys, ExpiryOf, IsLive
<1>2. QED
  BY <1>1 DEF Service!ServiceNext, Service!Forget

(* Every step of the server is one of SessionService, or none.             *)
LEMMA MainServes ==
    ASSUME IInv, ServiceInv, MainStep
    PROVE  Service!ServiceNext
<1>0. /\ row \in [Key -> Row \cup {NoRow}] /\ proc \in ProcPc
      /\ ~ ApiUp => api.pc = "idle"
      /\ ~ ApiUp \/ proc = "spawn" => reaper = ReaperAt("off")
      /\ reaper.pc \in {"off", "exited"} => reaper.batch = {}
  BY DEF IInv, TypeOK, ThreadsOfMain, ServiceInv, NoBatch
<1>1. CASE LoadStatic
  <2>1. row' = row /\ clock' = clock /\ api' = api /\ reaper' = reaper
        /\ ApiUp' = ApiUp
    BY <1>1 DEF LoadStatic, ApiUp
  <2>2. QED
    BY <2>1, QuietStep DEF AskedKeys, DoomedKeys, GrantedRenewals
<1>2. CASE RevokeStale
  <2>1. /\ ~ ApiUp /\ ApiUp' = ApiUp
        /\ api' = api /\ reaper' = reaper /\ clock' = clock
    BY <1>2 DEF RevokeStale, ApiUp
  <2>2. AskedKeys' = AskedKeys /\ DoomedKeys' = DoomedKeys
        /\ GrantedRenewals' = GrantedRenewals
    BY <2>1 DEF AskedKeys, DoomedKeys, GrantedRenewals
  <2>3. CASE row' = row
    BY <2>1, <2>2, <2>3, QuietStep
  <2>4. CASE row' = AllRevoked(row)
    <3>1. Service!EndAll
      BY <1>0, <2>1, <2>2, <2>4, AllRevokedSessions DEF Service!EndAll
    <3>2. QED
      BY <3>1 DEF Service!ServiceNext
  <2>5. QED
    BY <1>2, <2>3, <2>4 DEF RevokeStale
<1>3. CASE ApiStart
  <2>1. ~ ApiUp /\ ApiUp' /\ UNCHANGED <<row, api, reaper, clock>>
    BY <1>3 DEF ApiStart, ApiUp
  <2>2. Service!Serve
    BY <2>1 DEF Service!Serve, LiveKeys, EndedKeys, ExpiryOf, AskedKeys, DoomedKeys,
       GrantedRenewals, IsLive
  <2>3. QED
    BY <2>2 DEF Service!ServiceNext
<1>4. CASE ReaperStart
  <2>1. row' = row /\ clock' = clock /\ api' = api /\ reaper' = ReaperAt("select")
        /\ ApiUp' = ApiUp
    BY <1>4 DEF ReaperStart, ApiUp
  <2>2. DoomedKeys' = {}
    BY <2>1 DEF DoomedKeys, ReaperAt
  <2>3. QED
    BY <2>1, <2>2, QuietStep DEF AskedKeys, GrantedRenewals
<1>5. CASE ReaperJoin
  <2>1. row' = row /\ clock' = clock /\ api' = api /\ reaper' = reaper
        /\ ApiUp' = ApiUp
    BY <1>5 DEF ReaperJoin, ApiUp
  <2>2. QED
    BY <2>1, QuietStep DEF AskedKeys, DoomedKeys, GrantedRenewals
<1>6. CASE ApiStop
  <2>1. ~ ApiUp' /\ api.pc = "idle" /\ reaper' = ReaperAt("off")
        /\ UNCHANGED <<row, api, clock>>
    BY <1>6 DEF ApiStop, ApiUp
  <2>2. AskedKeys' = {} /\ DoomedKeys' = {} /\ GrantedRenewals' = {}
    BY <2>1 DEF AskedKeys, DoomedKeys, GrantedRenewals, ReaperAt, LogoutPc
  <2>3. Service!Stop
    BY <2>1, <2>2 DEF Service!Stop, LiveKeys, EndedKeys, ExpiryOf, IsLive
  <2>4. QED
    BY <2>3 DEF Service!ServiceNext
<1>7. QED
  BY <1>1, <1>2, <1>3, <1>4, <1>5, <1>6 DEF MainStep

LEMMA EnvironmentServes ==
    ASSUME IInv, Environment
    PROVE  Service!ServiceNext
<1>1. CASE Start \/ Signal
  <2>1. row' = row /\ clock' = clock /\ api' = api /\ reaper' = reaper
        /\ ApiUp' = ApiUp
    BY <1>1 DEF Start, Signal, ApiUp
  <2>2. QED
    BY <2>1, QuietStep DEF AskedKeys, DoomedKeys, GrantedRenewals
<1>2. CASE Tick
  <2>1. clock' = clock + 1 /\ UNCHANGED <<row, api, reaper, proc>>
    BY <1>2 DEF Tick
  <2>2. Service!Pass
    BY <2>1 DEF Service!Pass, LiveKeys, EndedKeys, ExpiryOf, AskedKeys, DoomedKeys,
       GrantedRenewals, IsLive, ApiUp
  <2>3. QED
    BY <2>2 DEF Service!ServiceNext
<1>3. ASSUME NEW machine \in BOOLEAN, Die(machine) PROVE Service!ServiceNext
  <2>1. ~ ApiUp' /\ api' = ApiIdle /\ reaper' = ReaperAt("off") /\ UNCHANGED <<row, clock>>
    BY <1>3 DEF Die, ApiUp
  <2>2. AskedKeys' = {} /\ DoomedKeys' = {} /\ GrantedRenewals' = {}
    BY <2>1 DEF AskedKeys, DoomedKeys, GrantedRenewals, ReaperAt, ApiIdle, ApiAt, LogoutPc
  <2>3. Service!Stop
    BY <2>1, <2>2 DEF Service!Stop, LiveKeys, EndedKeys, ExpiryOf, IsLive
  <2>4. QED
    BY <2>3 DEF Service!ServiceNext
<1>4. QED
  BY <1>1, <1>2, <1>3 DEF Environment

(* The requests that are taken. *)
LEMMA RequestServes ==
    ASSUME IInv, ServiceInv, Request
    PROVE  Service!ServiceNext
<1>0. /\ api.pc = "idle" => AskedKeys = {} /\ GrantedRenewals = {}
      /\ ApiUp \in BOOLEAN
  BY DEF AskedKeys, GrantedRenewals, LogoutPc, ApiUp
<1>1. ASSUME NEW k \in Key, NEW a \in Account, LoginCount(k, a)
      PROVE  Service!ServiceNext
  <2>1. api'.pc = "login_alloc" /\ UNCHANGED <<row, proc, reaper, clock>>
    BY <1>1 DEF LoginCount, ApiAt
  <2>2. AskedKeys' = {} /\ GrantedRenewals' = {}
    BY <2>1 DEF AskedKeys, GrantedRenewals, LogoutPc
  <2>3. DoomedKeys' = DoomedKeys /\ ApiUp' = ApiUp
    BY <2>1 DEF DoomedKeys, ApiUp
  <2>4. QED
    BY <2>1, <2>2, <2>3, QuietStep
<1>2. ASSUME NEW k \in Key, LogoutLookup(k)
      PROVE  Service!ServiceNext
  <2>1. /\ api.pc = "idle" /\ api'.pc = "logout_peer" /\ api'.key = k
        /\ UNCHANGED <<row, proc, reaper, clock>>
    BY <1>2 DEF LogoutLookup, Accepts, ApiAt
  <2>2. AskedKeys' = AskedKeys \cup {k} /\ GrantedRenewals' = GrantedRenewals
    BY <1>0, <2>1 DEF AskedKeys, GrantedRenewals, LogoutPc
  <2>3. UNCHANGED <<LiveKeys, EndedKeys, ExpiryOf, DoomedKeys, ApiUp, clock>>
    BY <2>1 DEF LiveKeys, EndedKeys, ExpiryOf, IsLive, DoomedKeys, ApiUp
  <2>4. ApiUp /\ k \in LiveKeys /\ ExpiryOf[k] >= clock
    BY <1>2 DEF LogoutLookup, Accepts, ApiUp, LiveKeys, ExpiryOf
  <2>5. Service!AskEnd(k)
    BY <2>2, <2>3, <2>4 DEF Service!AskEnd
  <2>6. QED
    BY <2>5 DEF Service!ServiceNext
<1>3. ASSUME NEW k \in Key, RenewLookup(k)
      PROVE  Service!ServiceNext
  <2>1. /\ api.pc = "idle" /\ api'.pc = "renew_update" /\ api'.key = k
        /\ api'.expires = clock + Ttl
        /\ UNCHANGED <<row, proc, reaper, clock>>
    BY <1>3 DEF RenewLookup, Accepts, ApiAt
  <2>2. AskedKeys' = AskedKeys /\ GrantedRenewals' = GrantedRenewals \cup {<<k, clock + Ttl>>}
    BY <1>0, <2>1 DEF AskedKeys, GrantedRenewals, LogoutPc
  <2>3. UNCHANGED <<LiveKeys, EndedKeys, ExpiryOf, DoomedKeys, ApiUp, clock>>
    BY <2>1 DEF LiveKeys, EndedKeys, ExpiryOf, IsLive, DoomedKeys, ApiUp
  <2>4. ApiUp /\ k \in LiveKeys /\ ExpiryOf[k] + Grace >= clock
    BY <1>3 DEF RenewLookup, Accepts, ApiUp, LiveKeys, ExpiryOf
  <2>5. Service!Grant(k)
    BY <2>2, <2>3, <2>4 DEF Service!Grant
  <2>6. QED
    BY <2>5 DEF Service!ServiceNext
<1>4. QED
  BY <1>1, <1>2, <1>3 DEF Request

(* What the API thread does for them. *)
LEMMA ApiServes ==
    ASSUME IInv, ServiceInv, ApiStep
    PROVE  Service!ServiceNext
<1>0. /\ row \in [Key -> Row \cup {NoRow}] /\ api \in ApiState
      /\ clock \in Nat /\ Ttl \in Nat
      /\ api.pc \in LoginPc => api.key \in Key /\ api.account \in Account
      /\ api.pc \in LoginPc \ {"login_audit"} => row[api.key] = NoRow
      /\ api.pc \in LogoutPc \cup RenewPc => api.key \in Key /\ row[api.key] # NoRow
      /\ ~ ApiUp => api.pc = "idle"
      /\ api.pc = "login_insert" => api.expires <= clock + Ttl
      /\ api.pc = "renew_update" =>
             api.expires <= clock + Ttl /\ row[api.key].expires <= api.expires
  BY ServerAssumption DEF IInv, TypeOK, LoginLocals, KeysHaveRows, ThreadsOfMain,
     ServiceInv, ExpiryBounds
<1>1. /\ clock' = clock /\ reaper' = reaper /\ proc' = proc
      /\ ApiUp' = ApiUp /\ DoomedKeys' = DoomedKeys
  <2>1. clock' = clock /\ reaper' = reaper /\ proc' = proc
    BY DEF ApiStep, LoginStep, LogoutStep, RenewStep, LoginAllocate, LoginExhausted,
       LoginAddPeer, LoginInsert, LoginUndoPeer, LoginUndoIp, LoginAudit,
       LogoutRemovePeer, LogoutRelease, LogoutRevoke, LogoutAudit, RenewUpdate,
       RenewAudit
  <2>2. QED
    BY <2>1 DEF ApiUp, DoomedKeys
<1>2. ASSUME row' = row,
             AskedKeys' \subseteq AskedKeys, GrantedRenewals' \subseteq GrantedRenewals
      PROVE  Service!ServiceNext
  BY <1>1, <1>2, QuietStep
<1>3. ASSUME api'.pc \notin (LogoutPc \ {"logout_audit"}) \cup {"renew_update"}
      PROVE  AskedKeys' = {} /\ GrantedRenewals' = {}
  BY <1>3 DEF AskedKeys, GrantedRenewals
<1>4. CASE LoginExhausted \/ LoginUndoIp \/ LoginAudit \/ LogoutAudit \/ RenewAudit
  <2>1. row' = row /\ api'.pc = "idle"
    BY <1>4 DEF LoginExhausted, LoginUndoIp, LoginAudit, LogoutAudit, RenewAudit,
       ApiIdle, ApiAt
  <2>2. QED
    BY <1>2, <1>3, <2>1 DEF LogoutPc
<1>5. CASE LoginAllocate \/ LoginUndoPeer \/ LoginAddPeer
  <2>1. row' = row /\ api'.pc \in {"login_peer", "login_undo_ip", "login_insert"}
    BY <1>0, <1>5 DEF LoginAllocate, LoginUndoPeer, LoginAddPeer, ApiState
  <2>2. QED
    BY <1>2, <1>3, <2>1 DEF LogoutPc
<1>6. CASE LogoutRemovePeer \/ LogoutRelease
  <2>1. /\ row' = row /\ api'.key = api.key
        /\ api.pc \in {"logout_peer", "logout_release"}
        /\ api'.pc \in {"logout_release", "logout_revoke"}
    BY <1>0, <1>6 DEF LogoutRemovePeer, LogoutRelease, ApiState
  <2>2. AskedKeys' = AskedKeys /\ GrantedRenewals' = {}
    BY <2>1 DEF AskedKeys, GrantedRenewals, LogoutPc
  <2>3. QED
    BY <1>2, <2>1, <2>2
<1>7. CASE LoginInsert
  <2>1. /\ api.pc = "login_insert" /\ api'.pc \in {"login_audit", "login_undo_peer"}
        /\ api.expires \in Nat /\ api.ip \in Index
    BY <1>0, <1>7 DEF LoginInsert, ApiState
  <2>2. AskedKeys' = {} /\ GrantedRenewals' = {} /\ AskedKeys = {} /\ GrantedRenewals = {}
    BY <1>3, <2>1 DEF AskedKeys, GrantedRenewals, LogoutPc
  <2>3. CASE row' = row
    BY <1>2, <2>2, <2>3
  <2>4. CASE row' = Inserted(row, api.key, api.account, api.ip, api.expires)
    <3>1. api.key \in Key /\ api.account \in Account /\ row[api.key] = NoRow /\ ApiUp
      BY <1>0, <2>1 DEF LoginPc
    <3>2. /\ api.key \notin LiveKeys \cup EndedKeys
          /\ LiveKeys' = LiveKeys \cup {api.key} /\ EndedKeys' = EndedKeys
          /\ ExpiryOf' = [ExpiryOf EXCEPT ![api.key] = api.expires]
      BY <1>0, <2>1, <2>4, <3>1, InsertedSession
    <3>3. api.expires \in 0..(clock + Ttl)
      BY <1>0, <2>1
    <3>4. Service!Open(api.key, api.expires)
      BY <1>1, <2>2, <3>1, <3>2, <3>3 DEF Service!Open
    <3>5. QED
      BY <3>1, <3>3, <3>4 DEF Service!ServiceNext
  <2>5. QED
    BY <1>7, <2>3, <2>4 DEF LoginInsert
<1>8. CASE LogoutRevoke
  <2>1. api.pc = "logout_revoke" /\ api'.pc = "logout_audit" /\ api.key \in Key
        /\ row[api.key] # NoRow
    BY <1>0, <1>8 DEF LogoutRevoke, ApiState, LogoutPc
  <2>2. AskedKeys' = {} /\ GrantedRenewals' = {} /\ AskedKeys = {api.key} /\ GrantedRenewals = {}
    BY <1>3, <2>1 DEF AskedKeys, GrantedRenewals, LogoutPc
  <2>3. CASE row' = row
    BY <1>2, <2>2, <2>3
  <2>4. CASE row' = Revoked(row, api.key) /\ IsLive(row, api.key)
    <3>1. /\ LiveKeys' = LiveKeys \ {api.key} /\ EndedKeys' = EndedKeys \cup {api.key}
          /\ ExpiryOf' = [ExpiryOf EXCEPT ![api.key] = 0]
          /\ api.key \in LiveKeys
      BY <1>0, <2>1, <2>4, RevokedSession DEF LiveKeys
    <3>2. AskedKeys' = AskedKeys \ {api.key}
      BY <2>2
    <3>3. Service!End(api.key)
      BY <1>1, <2>2, <3>1, <3>2 DEF Service!End
    <3>4. QED
      BY <2>1, <3>3 DEF Service!ServiceNext
  <2>5. QED
    BY <1>0, <1>8, <2>1, <2>3, <2>4, RevokedAgain DEF LogoutRevoke, RevokeRow
<1>9. CASE RenewUpdate
  <2>1. /\ api.pc = "renew_update" /\ api'.pc = "renew_audit" /\ api.key \in Key
        /\ row[api.key] # NoRow /\ api.expires \in Nat
    BY <1>0, <1>9 DEF RenewUpdate, ApiState, RenewPc
  <2>2. /\ AskedKeys' = {} /\ GrantedRenewals' = {} /\ AskedKeys = {}
        /\ GrantedRenewals = {<<api.key, api.expires>>}
    BY <1>3, <2>1 DEF AskedKeys, GrantedRenewals, LogoutPc
  <2>3. CASE row' = row
    BY <1>2, <2>2, <2>3
  <2>4. CASE row' = Extended(row, api.key, api.expires)
    <3>1. CASE api.key \in LiveKeys
      <4>1. /\ LiveKeys' = LiveKeys /\ EndedKeys' = EndedKeys
            /\ ExpiryOf' = [ExpiryOf EXCEPT ![api.key] = api.expires]
        BY <1>0, <2>1, <2>4, <3>1, ExtendedSession
      <4>2. ExpiryOf[api.key] <= api.expires
        BY <1>0, <2>1, <3>1 DEF ExpiryOf, LiveKeys
      <4>3. GrantedRenewals' = GrantedRenewals \ {<<api.key, api.expires>>}
        BY <2>2
      <4>4. Service!Renew(api.key, api.expires)
        BY <1>1, <2>2, <3>1, <4>1, <4>2, <4>3 DEF Service!Renew
      <4>5. api.expires \in 0..(clock + Ttl)
        BY <1>0, <2>1
      <4>6. QED
        BY <2>1, <4>4, <4>5 DEF Service!ServiceNext
    <3>2. CASE api.key \notin LiveKeys
      <4>1. LiveKeys' = LiveKeys /\ EndedKeys' = EndedKeys /\ ExpiryOf' = ExpiryOf
        BY <1>0, <2>1, <2>4, <3>2, ExtendedSession
      <4>2. Service!Forget
        BY <1>1, <2>2, <4>1 DEF Service!Forget
      <4>3. QED
        BY <4>2 DEF Service!ServiceNext
    <3>3. QED
      BY <3>1, <3>2
  <2>5. QED
    BY <1>9, <2>3, <2>4 DEF RenewUpdate
<1>10. QED
  BY <1>4, <1>5, <1>6, <1>7, <1>8, <1>9 DEF ApiStep, LoginStep, LogoutStep, RenewStep

LEMMA ReaperServes ==
    ASSUME IInv, ServiceInv, ReaperStep
    PROVE  Service!ServiceNext
<1>0. /\ row \in [Key -> Row \cup {NoRow}] /\ reaper \in ReaperState
      /\ reaper.pc \in {"release", "revoke", "audit"} =>
             reaper.key \in Key /\ row[reaper.key] # NoRow
      /\ ~ ApiUp => reaper.pc = "off"
      /\ reaper.pc = "select" => reaper.batch = {}
  BY DEF IInv, TypeOK, KeysHaveRows, ThreadsOfMain, ServiceInv, NoBatch, ReaperAt
<1>1. /\ clock' = clock /\ api' = api /\ proc' = proc
      /\ ApiUp' = ApiUp /\ AskedKeys' = AskedKeys /\ GrantedRenewals' = GrantedRenewals
  <2>1. clock' = clock /\ api' = api /\ proc' = proc
    BY DEF ReaperStep, ReaperSelect, ReaperRemovePeer, ReaperRelease, ReaperRevoke,
       ReaperAudit, ReaperWake
  <2>2. QED
    BY <2>1 DEF ApiUp, AskedKeys, GrantedRenewals
<1>2. ASSUME row' = row, DoomedKeys' \subseteq DoomedKeys
      PROVE  Service!ServiceNext
  BY <1>1, <1>2, QuietStep
<1>3. CASE ReaperSelect
  <2>1. row' = row /\ reaper.pc = "select" /\ ApiUp /\ DoomedKeys = {}
    BY <1>0, <1>3 DEF ReaperSelect, DoomedKeys
  <2>2. PICK b \in Batches(row, clock, "select" \in DbMayFail) :
            reaper' = IF b = {} THEN ReaperAt("sleep")
                      ELSE [ReaperAt("peer") EXCEPT !.batch = b]
    BY <1>3 DEF ReaperSelect
  <2>3. DoomedKeys' = b
    BY <2>2 DEF DoomedKeys, ReaperAt
  <2>4. b \in SUBSET LiveKeys /\ \A k \in b : k \in LiveKeys /\ ExpiryOf[k] < clock
    BY DEF Batches, Overdue, LiveKeys, ExpiryOf
  <2>5. UNCHANGED <<LiveKeys, EndedKeys, ExpiryOf>>
    BY <2>1 DEF LiveKeys, EndedKeys, ExpiryOf, IsLive
  <2>6. Service!Doom(b)
    BY <1>1, <2>1, <2>3, <2>4, <2>5 DEF Service!Doom
  <2>7. QED
    BY <2>4, <2>6 DEF Service!ServiceNext
<1>4. CASE ReaperRemovePeer
  <2>1. row' = row /\ reaper.pc = "peer"
    BY <1>4 DEF ReaperRemovePeer
  <2>2. DoomedKeys' = reaper.batch /\ DoomedKeys = reaper.batch
    BY <1>4 DEF ReaperRemovePeer, DoomedKeys
  <2>3. QED
    BY <1>2, <2>1, <2>2
<1>5. CASE ReaperRelease
  <2>1. /\ row' = row /\ reaper.pc = "release" /\ reaper'.pc = "revoke"
        /\ reaper'.key = reaper.key /\ reaper'.batch = reaper.batch
    BY <1>0, <1>5 DEF ReaperRelease, ReaperState
  <2>2. DoomedKeys' = DoomedKeys
    BY <2>1 DEF DoomedKeys
  <2>3. QED
    BY <1>2, <2>1, <2>2
<1>6. CASE ReaperRevoke
  <2>1. /\ reaper.pc = "revoke" /\ reaper'.pc = "audit" /\ reaper'.batch = reaper.batch
        /\ reaper.key \in Key /\ row[reaper.key] # NoRow
    BY <1>0, <1>6 DEF ReaperRevoke, ReaperState
  <2>2. DoomedKeys = reaper.batch \cup {reaper.key} /\ DoomedKeys' = reaper.batch
    BY <2>1 DEF DoomedKeys
  <2>3. CASE row' = row
    BY <1>2, <2>2, <2>3
  <2>4. CASE row' = Revoked(row, reaper.key) /\ IsLive(row, reaper.key)
    <3>1. /\ LiveKeys' = LiveKeys \ {reaper.key}
          /\ EndedKeys' = EndedKeys \cup {reaper.key}
          /\ ExpiryOf' = [ExpiryOf EXCEPT ![reaper.key] = 0]
          /\ reaper.key \in LiveKeys
      BY <1>0, <2>1, <2>4, RevokedSession DEF LiveKeys
    <3>2. DoomedKeys' \in {DoomedKeys, DoomedKeys \ {reaper.key}}
      BY <2>2
    <3>3. Service!End(reaper.key)
      BY <1>1, <2>2, <3>1, <3>2 DEF Service!End
    <3>4. QED
      BY <2>1, <3>3 DEF Service!ServiceNext
  <2>5. QED
    BY <1>0, <1>6, <2>1, <2>3, <2>4, RevokedAgain DEF ReaperRevoke, RevokeRow
<1>7. CASE ReaperAudit
  <2>1. row' = row /\ reaper.pc = "audit"
    BY <1>7 DEF ReaperAudit
  <2>2. DoomedKeys' \subseteq reaper.batch
    BY <1>0, <1>7 DEF ReaperAudit, DoomedKeys, ReaperAt, ReaperState
  <2>3. QED
    BY <1>2, <2>1, <2>2 DEF DoomedKeys
<1>8. CASE ReaperWake
  <2>1. row' = row /\ DoomedKeys' = {}
    BY <1>8 DEF ReaperWake, DoomedKeys, ReaperAt
  <2>2. QED
    BY <1>2, <2>1
<1>9. QED
  BY <1>3, <1>4, <1>5, <1>6, <1>7, <1>8 DEF ReaperStep

(* Whatever fails, and however requests, reaper, clock and restarts        *)
(* interleave, a session lives the life that SessionService describes.     *)
(* ServiceInv is what it needs of the implementation: without ExpiryBounds *)
(* a renewal that was decided on an old row could shorten a newer expiry.  *)
THEOREM SessionsServedAsPromised == Spec => SessionsServed
<1>1. Init => ServiceInv /\ Service!ServiceInit
  <2> SUFFICES ASSUME Init PROVE ServiceInv /\ Service!ServiceInit
    OBVIOUS
  <2>1. ServiceInv
    BY DEF Init, ServiceInv, NoBatch, ExpiryBounds, ApiIdle, ApiAt, ReaperAt
  <2>2. LiveKeys = {} /\ EndedKeys = {} /\ ExpiryOf = [k \in Key |-> 0]
    BY DEF Init, LiveKeys, EndedKeys, ExpiryOf, IsLive
  <2>3. AskedKeys = {} /\ DoomedKeys = {} /\ GrantedRenewals = {}
    BY DEF Init, AskedKeys, DoomedKeys, GrantedRenewals, ApiIdle, ApiAt, ReaperAt,
       LogoutPc
  <2>4. ApiUp = FALSE /\ clock = 0
    BY DEF Init, ApiUp
  <2>5. QED
    BY <2>1, <2>2, <2>3, <2>4 DEF Service!ServiceInit
<1>2. IInv /\ ServiceInv /\ [Next]_vars => ServiceInv'
  BY NoBatchStep, ExpiryBoundsStep DEF ServiceInv
<1>3. IInv /\ ServiceInv /\ [Next]_vars => [Service!ServiceNext]_(Service!svars)
  <2> SUFFICES ASSUME IInv, ServiceInv, [Next]_vars
               PROVE  [Service!ServiceNext]_(Service!svars)
    OBVIOUS
  <2>1. CASE Next
    BY <2>1, MainServes, ApiServes, ReaperServes, RequestServes, EnvironmentServes DEF Next
  <2>2. CASE UNCHANGED vars
    BY <2>2 DEF vars, Service!svars, LiveKeys, EndedKeys, ExpiryOf, IsLive, AskedKeys,
       DoomedKeys, GrantedRenewals, ApiUp
  <2>3. QED
    BY <2>1, <2>2
<1>4. QED
  BY <1>1, <1>2, <1>3, Invariance, PTL DEF Spec, SessionsServed, Service!ServiceSpec

(* What follows for a client: its session ends once and for a reason, and  *)
(* a session that goes on keeps at least the time it had.                  *)
SessionKept ==
    /\ EndedKeys \subseteq EndedKeys'
    /\ LiveKeys \subseteq LiveKeys' \cup EndedKeys'
    /\ \A k \in LiveKeys \cap LiveKeys' : ExpiryOf'[k] >= ExpiryOf[k]
    /\ \A k \in EndedKeys' \ EndedKeys : k \in AskedKeys \cup DoomedKeys \/ ~ ApiUp

(* No handler, reaper or restart takes an ended session up again, ends one *)
(* that nobody asked to end and nobody saw overdue, or shortens one.       *)
THEOREM SessionsEndOnce == Spec => [][SessionKept]_vars
<1>1. IInv /\ [Service!ServiceNext]_(Service!svars) => SessionKept
  <2> SUFFICES ASSUME IInv, [Service!ServiceNext]_(Service!svars) PROVE SessionKept
    OBVIOUS
  <2>0. /\ \A k \in Key : ExpiryOf[k] \in Nat
        /\ ExpiryOf = [k \in Key |-> ExpiryOf[k]]
        /\ LiveKeys \subseteq Key /\ clock \in Nat
    BY DEF IInv, TypeOK, ExpiryOf, IsLive, Row, LiveKeys
  <2>1. CASE UNCHANGED Service!svars
    BY <2>0, <2>1 DEF Service!svars, SessionKept
  <2>2. ASSUME NEW k \in Key, NEW e \in 0..(clock + Ttl), Service!Open(k, e)
        PROVE  SessionKept
    BY <2>0, <2>2 DEF Service!Open, SessionKept
  <2>3. ASSUME NEW k \in Key, NEW e \in 0..(clock + Ttl), Service!Renew(k, e)
        PROVE  SessionKept
    BY <2>0, <2>3 DEF Service!Renew, SessionKept
  <2>4. ASSUME NEW k \in Key, Service!End(k)
        PROVE  SessionKept
    BY <2>0, <2>4 DEF Service!End, SessionKept
  <2>5. CASE \/ \E k \in Key : Service!AskEnd(k) \/ Service!Grant(k)
             \/ \E S \in SUBSET LiveKeys : Service!Doom(S)
    BY <2>0, <2>5 DEF Service!AskEnd, Service!Grant, Service!Doom, SessionKept
  <2>6. CASE Service!Forget \/ Service!Serve \/ Service!Stop \/ Service!Pass
    BY <2>0, <2>6 DEF Service!Forget, Service!Serve, Service!Stop, Service!Pass,
       SessionKept
  <2>7. CASE Service!EndAll
    BY <2>0, <2>7 DEF Service!EndAll, SessionKept
  <2>8. QED
    BY <2>1, <2>2, <2>3, <2>4, <2>5, <2>6, <2>7 DEF Service!ServiceNext
<1>2. QED
  BY <1>1, Invariance, SessionsServedAsPromised, PTL
     DEF SessionsServed, Service!ServiceSpec

=============================================================================
