----------------------------- MODULE AuthProofs -----------------------------
(***************************************************************************)
(* Theorems about vpn-authd, for every value of the constants.             *)
(***************************************************************************)
EXTENDS AuthProperties, TLAPS

-----------------------------------------------------------------------------
(* The inductive invariant *)

(* A login's locals: its key has no row until db_create_session, and the   *)
(* address it was given is one the pool may lease.                         *)
LoginLocals ==
    /\ api.pc \in LoginPc => api.key \in Key /\ api.account \in Account
    /\ api.pc \in LoginPc \ {"login_audit"} => row[api.key] = NoRow
    /\ api.pc \in LoginPc \ {"login_alloc"} => api.ip \in Leasable

(* A handler or a reaper that works on a session has its row's key.        *)
KeysHaveRows ==
    /\ api.pc \in LogoutPc \cup RenewPc =>
           api.key \in Key /\ row[api.key] # NoRow
    /\ reaper.pc \in {"release", "revoke", "audit"} =>
           reaper.key \in Key /\ row[reaper.key] # NoRow
    /\ \A k \in reaper.batch : row[k] # NoRow

RowsLeasable == \A k \in Key : row[k] # NoRow => row[k].ip \in Leasable

(* Threads and bitmap while main starts the process, or there is none.     *)
ThreadsOfMain ==
    /\ ~ ApiUp => api.pc = "idle" /\ bitmap \subseteq Reserved
    /\ ~ ApiUp \/ proc = "spawn" => reaper = ReaperAt("off")

IInv == /\ TypeOK
        /\ LoginLocals
        /\ KeysHaveRows
        /\ RowsLeasable
        /\ ThreadsOfMain
        /\ NoLeakedAddress

(* What the operators of the database, the pool and the device return.     *)

LEMMA LeasableType == Leasable \subseteq Index /\ Leasable \cap Reserved = {}
BY PoolAssumption DEF Leasable, Scanned, Index, Reserved

LEMMA MarkedType ==
    ASSUME NEW b \in SUBSET Index
    PROVE  /\ \A i \in Leasable : MarkedUpTo(b, i) \subseteq Index
           /\ MarkedAll(b) \subseteq Index
BY LeasableType, PoolAssumption DEF MarkedUpTo, MarkedAll, Scanned, Index

LEMMA RouteType ==
    ASSUME NEW r \in RouteTable
    PROVE  /\ \A p \in Key, i \in Index : RouteTo(r, p, i) \in RouteTable
           /\ \A p \in Key : RouteDropped(r, p) \in RouteTable
           /\ RouteStatic(r) \in RouteTable
<1>1. ASSUME NEW p \in Key, NEW i \in Index
      PROVE  RouteTo(r, p, i) \in RouteTable
  BY DEF RouteTable, RouteTo, Peer
<1>2. ASSUME NEW p \in Key
      PROVE  RouteDropped(r, p) \in RouteTable
  BY DEF RouteTable, RouteDropped, Peer
<1>3. RouteStatic(r) \in RouteTable
  <2>1. ASSUME NEW a \in Addr, \E s \in Static : StaticAddr[s] = a
        PROVE  (CHOOSE s \in Static : StaticAddr[s] = a) \in Peer
    BY <2>1 DEF Peer
  <2>2. QED
    BY <2>1 DEF RouteTable, RouteStatic, Peer
<1>4. QED
  BY <1>1, <1>2, <1>3

LEMMA RowType ==
    ASSUME NEW t \in [Key -> Row \cup {NoRow}]
    PROVE  /\ \A k \in Key, a \in Account, i \in Index, e \in Nat :
                  Inserted(t, k, a, i, e) \in [Key -> Row \cup {NoRow}]
           /\ \A k \in Key : t[k] # NoRow =>
                  Revoked(t, k) \in [Key -> Row \cup {NoRow}]
           /\ \A k \in Key, e \in Nat : t[k] # NoRow =>
                  Extended(t, k, e) \in [Key -> Row \cup {NoRow}]
           /\ AllRevoked(t) \in [Key -> Row \cup {NoRow}]
BY DEF Inserted, Revoked, Extended, AllRevoked, Row

LEMMA RowUpdate ==
    ASSUME NEW r \in Row, NEW e \in Nat
    PROVE  /\ [r EXCEPT !.revoked = TRUE] \in Row \ {NoRow}
           /\ [r EXCEPT !.revoked = TRUE].ip = r.ip
           /\ [r EXCEPT !.expires = e] \in Row \ {NoRow}
           /\ [r EXCEPT !.expires = e].ip = r.ip
BY DbAssumption DEF Row

LEMMA IdleType ==
    /\ ApiIdle \in ApiState
    /\ \A pc \in ApiPc, k \in Key, a \in Account \cup {NoKey}, e \in Nat :
           ApiAt(pc, k, a, e) \in ApiState
BY PoolAssumption DEF ApiIdle, ApiAt, ApiState, ApiPc, Index

LEMMA AuditType ==
    ASSUME NEW action \in {"login", "logout", "renew", "expired"}, NEW k \in Key,
           audit \subseteq {"login", "logout", "renew", "expired"} \X Key,
           AddAudit(action, k)
    PROVE  audit' \subseteq {"login", "logout", "renew", "expired"} \X Key
BY DEF AddAudit

-----------------------------------------------------------------------------
(* The initial states *)

LEMMA InitIInv == Init => IInv
<1>1. Init => TypeOK
  BY PoolAssumption
     DEF Init, TypeOK, NoRoutes, RouteTable, ProcPc, ApiState, ApiIdle, ApiPc,
         ReaperState, ReaperAt, ReaperPc, Index, ApiAt
<1>2. Init => LoginLocals /\ KeysHaveRows /\ RowsLeasable /\ ThreadsOfMain
  BY DEF Init, LoginLocals, KeysHaveRows, RowsLeasable, ThreadsOfMain, ApiIdle,
         ApiAt, ReaperAt, LoginPc, LogoutPc, RenewPc, ApiUp
<1>3. Init => NoLeakedAddress
  BY DEF Init, NoLeakedAddress
<1>4. QED
  BY <1>1, <1>2, <1>3 DEF IInv

(* Every step keeps the types.                                             *)

LEMMA TypeStep == IInv /\ [Next]_vars => TypeOK'
<1> SUFFICES ASSUME IInv, [Next]_vars PROVE TypeOK'
  OBVIOUS
<1>0. TypeOK /\ LoginLocals /\ KeysHaveRows
  BY DEF IInv
<1> USE DEF TypeOK
<1>1. CASE UNCHANGED vars
  BY <1>0, <1>1 DEF vars
<1>2. CASE MainStep
  <2>1. CASE LoadStatic
    BY <1>0, <2>1, RouteType DEF LoadStatic, ProcPc, Peer
  <2>2. CASE RevokeStale
    BY <1>0, <2>2, RowType DEF RevokeStale, ProcPc
  <2>3. CASE ApiStart
    BY <1>0, <2>3 DEF ApiStart, ProcPc
  <2>4. CASE ReaperStart
    BY <1>0, <2>4 DEF ReaperStart, ProcPc, ReaperState, ReaperAt, ReaperPc
  <2>5. CASE ReaperJoin
    BY <1>0, <2>5 DEF ReaperJoin, ProcPc
  <2>6. CASE ApiStop
    BY <1>0, <2>6 DEF ApiStop, ProcPc, ReaperState, ReaperAt, ReaperPc
  <2>7. QED
    BY <1>2, <2>1, <2>2, <2>3, <2>4, <2>5, <2>6 DEF MainStep
<1>3. CASE LoginStep
  <2>0. api.pc \in LoginPc => api.key \in Key /\ api.account \in Account
    BY <1>0 DEF LoginLocals
  <2>1. CASE LoginAllocate
    BY <1>0, <2>1, MarkedType, LeasableType
       DEF LoginAllocate, ApiState, ApiPc, LoginPc
  <2>2. CASE LoginExhausted
    BY <1>0, <2>2, MarkedType, IdleType DEF LoginExhausted
  <2>3. CASE LoginAddPeer
    <3>1. api.key \in Key /\ api.ip \in Index
      BY <1>0, <2>0, <2>3 DEF LoginAddPeer, LoginPc, ApiState
    <3>2. clock + Ttl \in Nat
      BY <1>0, ServerAssumption
    <3>3. peers' \subseteq Peer
      BY <1>0, <2>3, <3>1 DEF LoginAddPeer, Peer
    <3>4. route' \in RouteTable
      <4>1. route' \in {route, RouteTo(route, api.key, api.ip)}
        BY <2>3 DEF LoginAddPeer
      <4>2. QED
        BY <1>0, <3>1, <4>1, RouteType
    <3>5. api' \in ApiState
      BY <1>0, <2>3, <3>2 DEF LoginAddPeer, ApiState, ApiPc, LoginPc
    <3>6. QED
      BY <1>0, <2>3, <3>3, <3>4, <3>5 DEF LoginAddPeer
  <2>4. CASE LoginInsert
    <3>1. /\ api.key \in Key /\ api.account \in Account
          /\ api.ip \in Index /\ api.expires \in Nat
      BY <1>0, <2>0, <2>4 DEF LoginInsert, LoginPc, ApiState
    <3>2. QED
      BY <1>0, <2>4, <3>1, RowType DEF LoginInsert, ApiState, ApiPc, LoginPc
  <2>5. CASE LoginUndoPeer
    BY <1>0, <2>0, <2>5, RouteType
       DEF LoginUndoPeer, RemovePeer, ApiState, ApiPc, LoginPc, RouteDropped,
           RouteTable
  <2>6. CASE LoginUndoIp
    BY <1>0, <2>6, IdleType DEF LoginUndoIp, Released
  <2>7. CASE LoginAudit
    BY <1>0, <2>0, <2>7, AuditType, IdleType DEF LoginAudit, LoginPc
  <2>8. QED
    BY <1>3, <2>1, <2>2, <2>3, <2>4, <2>5, <2>6, <2>7 DEF LoginStep
<1>4. CASE LogoutStep
  <2>0. api.pc \in LogoutPc => api.key \in Key /\ row[api.key] # NoRow
    BY <1>0 DEF KeysHaveRows
  <2>1. CASE LogoutRemovePeer
    BY <1>0, <2>0, <2>1 DEF LogoutRemovePeer, RemovePeer, ApiState, ApiPc,
           LogoutPc, RouteDropped, RouteTable
  <2>2. CASE LogoutRelease
    BY <1>0, <2>2 DEF LogoutRelease, Released, ApiState, ApiPc, LogoutPc
  <2>3. CASE LogoutRevoke
    BY <1>0, <2>0, <2>3, RowType
       DEF LogoutRevoke, RevokeRow, ApiState, ApiPc, LogoutPc
  <2>4. CASE LogoutAudit
    BY <1>0, <2>0, <2>4, AuditType, IdleType DEF LogoutAudit, LogoutPc
  <2>5. QED
    BY <1>4, <2>1, <2>2, <2>3, <2>4 DEF LogoutStep
<1>5. CASE RenewStep
  <2>0. api.pc \in RenewPc => api.key \in Key /\ row[api.key] # NoRow
    BY <1>0 DEF KeysHaveRows
  <2>1. CASE RenewUpdate
    <3>1. api.key \in Key /\ row[api.key] # NoRow /\ api.expires \in Nat
      BY <1>0, <2>0, <2>1 DEF RenewUpdate, RenewPc, ApiState
    <3>2. QED
      BY <1>0, <2>1, <3>1, RowType DEF RenewUpdate, ApiState, ApiPc, RenewPc
  <2>2. CASE RenewAudit
    BY <1>0, <2>0, <2>2, AuditType, IdleType DEF RenewAudit, RenewPc
  <2>3. QED
    BY <1>5, <2>1, <2>2 DEF RenewStep
<1>6. CASE ReaperStep
  <2>0. reaper.pc \in {"release", "revoke", "audit"} =>
            reaper.key \in Key /\ row[reaper.key] # NoRow
    BY <1>0 DEF KeysHaveRows
  <2>1. CASE ReaperSelect
    BY <1>0, <2>1 DEF ReaperSelect, Batches, Overdue, ReaperState, ReaperAt, ReaperPc
  <2>2. CASE ReaperRemovePeer
    BY <1>0, <2>2 DEF ReaperRemovePeer, RemovePeer, ReaperState, ReaperPc,
           RouteDropped, RouteTable
  <2>3. CASE ReaperRelease
    BY <1>0, <2>3 DEF ReaperRelease, Released, ReaperState, ReaperPc
  <2>4. CASE ReaperRevoke
    BY <1>0, <2>0, <2>4, RowType DEF ReaperRevoke, RevokeRow, ReaperState, ReaperPc
  <2>5. CASE ReaperAudit
    BY <1>0, <2>0, <2>5, AuditType DEF ReaperAudit, ReaperState, ReaperAt, ReaperPc
  <2>6. CASE ReaperWake
    BY <1>0, <2>6 DEF ReaperWake, ReaperState, ReaperAt, ReaperPc
  <2>7. QED
    BY <1>6, <2>1, <2>2, <2>3, <2>4, <2>5, <2>6 DEF ReaperStep
<1>7. CASE Request
  <2>1. CASE \E k \in Key, a \in Account : LoginCount(k, a)
    BY <1>0, <2>1, IdleType
       DEF LoginCount, ApiPc, LoginPc
  <2>2. CASE \E k \in Key : LogoutLookup(k)
    BY <1>0, <2>2, IdleType
       DEF LogoutLookup, ApiPc, LogoutPc
  <2>3. CASE \E k \in Key : RenewLookup(k)
    BY <1>0, <2>3, IdleType, ServerAssumption
       DEF RenewLookup, ApiPc, RenewPc
  <2>4. QED
    BY <1>7, <2>1, <2>2, <2>3 DEF Request
<1>8. CASE Environment
  <2>1. CASE Start
    BY <1>0, <2>1, PoolAssumption DEF Start, ProcPc, Reserved, Index
  <2>2. CASE Signal
    BY <1>0, <2>2 DEF Signal, ProcPc
  <2>3. CASE Tick
    BY <1>0, <2>3 DEF Tick
  <2>4. CASE \E machine \in BOOLEAN : Die(machine)
    BY <1>0, <2>4, IdleType
       DEF Die, ProcPc, ReaperAt, ReaperState, ReaperPc, NoRoutes, RouteTable
  <2>5. QED
    BY <1>8, <2>1, <2>2, <2>3, <2>4 DEF Environment
<1>9. QED
  BY <1>1, <1>2, <1>3, <1>4, <1>5, <1>6, <1>7, <1>8 DEF Next, ApiStep

-----------------------------------------------------------------------------
(* What a step does to the rows and to the threads.                        *)

(* The steps that write the sessions table.                                *)
LEMMA RowChange ==
    ASSUME [Next]_vars
    PROVE  \/ row' = row \/ RevokeStale \/ LoginInsert
           \/ LogoutRevoke \/ ReaperRevoke \/ RenewUpdate
BY DEF Next, vars, MainStep, ApiStep, LoginStep, LogoutStep, RenewStep,
       ReaperStep, Request, Environment, LoadStatic, ApiStart, ReaperStart,
       ReaperJoin, ApiStop, LoginAllocate, LoginExhausted, LoginAddPeer,
       LoginUndoPeer, LoginUndoIp, LoginAudit, LogoutRemovePeer,
       LogoutRelease, LogoutAudit, RenewAudit, ReaperSelect,
       ReaperRemovePeer, ReaperRelease, ReaperAudit, ReaperWake, LoginCount,
       LogoutLookup, RenewLookup, Start, Signal, Tick, Die

(* A row is never deleted and never given another address; a new one       *)
(* appears only where db_create_session is called.                         *)
LEMMA RowStep ==
    ASSUME IInv, [Next]_vars, NEW k \in Key
    PROVE  /\ row[k] # NoRow => row'[k] # NoRow /\ row'[k].ip = row[k].ip
           /\ row[k] = NoRow /\ row'[k] # NoRow =>
                  /\ api.pc = "login_insert" /\ api.key = k
                  /\ api'.pc = "login_audit" /\ api'.key = k
                  /\ row'[k].ip = api.ip
                  /\ reaper' = reaper
<1>0. /\ row \in [Key -> Row \cup {NoRow}]
      /\ api \in ApiState
      /\ api.pc \in LoginPc => api.key \in Key
      /\ api.pc \in LogoutPc \cup RenewPc => api.key \in Key /\ row[api.key] # NoRow
      /\ reaper.pc = "revoke" => reaper.key \in Key /\ row[reaper.key] # NoRow
  BY DEF IInv, TypeOK, LoginLocals, KeysHaveRows
<1>1. ASSUME NEW l \in Key, row[l] # NoRow, row' = Revoked(row, l)
      PROVE  /\ row[k] # NoRow => row'[k] # NoRow /\ row'[k].ip = row[k].ip
             /\ row[k] = NoRow => row'[k] = NoRow
  BY <1>0, <1>1, DbAssumption DEF Revoked, Row
<1>2. CASE row' = row
  BY <1>2
<1>3. CASE RevokeStale
  <2>1. row' = row \/ row' = AllRevoked(row)
    BY <1>3 DEF RevokeStale
  <2>2. CASE row' = AllRevoked(row)
    <3>1. CASE row[k] = NoRow
      BY <2>2, <3>1 DEF AllRevoked
    <3>2. CASE row[k] # NoRow
      <4>1. row[k] \in Row /\ row'[k] = [row[k] EXCEPT !.revoked = TRUE]
        BY <1>0, <2>2, <3>2 DEF AllRevoked
      <4>2. QED
        BY <3>2, <4>1, RowUpdate
    <3>3. QED
      BY <3>1, <3>2
  <2>3. QED
    BY <1>2, <2>1, <2>2
<1>4. CASE LoginInsert
  <2>1. CASE row' = row
    BY <2>1
  <2>2. CASE row' = Inserted(row, api.key, api.account, api.ip, api.expires)
    <3>1. api.key \in Key /\ row[api.key] = NoRow /\ api.pc = "login_insert"
      BY <1>4 DEF IInv, LoginLocals, LoginInsert, LoginPc
    <3>2. /\ row'[api.key].ip = api.ip
          /\ \A l \in Key : l # api.key => row'[l] = row[l]
      BY <1>0, <2>2, <3>1 DEF Inserted
    <3>3. api'.pc = "login_audit" /\ api'.key = api.key /\ reaper' = reaper
      <4>1. row' # row
        <5>1. row'[api.key] \in Row
          BY <1>0, <1>4, <2>2, <3>1, TypeStep DEF IInv, TypeOK, Inserted, Row,
             ApiState, LoginLocals, LoginPc
        <5>2. QED
          BY <3>1, <5>1, DbAssumption
      <4>2. QED
        BY <1>0, <1>4, <4>1 DEF LoginInsert, ApiState
    <3>4. QED
      BY <3>1, <3>2, <3>3
  <2>3. QED
    BY <1>4, <2>1, <2>2 DEF LoginInsert
<1>5. CASE LogoutRevoke
  BY <1>0, <1>1, <1>2, <1>5 DEF LogoutRevoke, RevokeRow, LogoutPc
<1>6. CASE ReaperRevoke
  BY <1>0, <1>1, <1>2, <1>6 DEF ReaperRevoke, RevokeRow
<1>7. CASE RenewUpdate
  <2>1. row' = row \/ row' = Extended(row, api.key, api.expires)
    BY <1>7 DEF RenewUpdate
  <2>2. CASE row' = Extended(row, api.key, api.expires)
    <3>1. api.key \in Key /\ row[api.key] # NoRow /\ api.expires \in Nat
      BY <1>0, <1>7 DEF RenewUpdate, RenewPc, ApiState
    <3>2. CASE k = api.key
      <4>1. row[k] \in Row /\ row'[k] = [row[k] EXCEPT !.expires = api.expires]
        BY <1>0, <2>2, <3>1, <3>2 DEF Extended
      <4>2. row[k] # NoRow
        BY <3>1, <3>2
      <4>3. row'[k] # NoRow /\ row'[k].ip = row[k].ip
        BY <3>1, <4>1, RowUpdate
      <4>4. QED
        BY <4>2, <4>3
    <3>3. CASE k # api.key
      BY <1>0, <2>2, <3>3 DEF Extended
    <3>4. QED
      BY <3>2, <3>3
  <2>3. QED
    BY <1>2, <2>1, <2>2
<1>8. QED
  BY <1>2, <1>3, <1>4, <1>5, <1>6, <1>7, RowChange

(* A step that is not of the API leaves its thread alone or ends it.       *)
LEMMA ApiChange ==
    ASSUME [Next]_vars
    PROVE  api' = api \/ api' = ApiIdle \/ ApiStep \/ Request
BY DEF Next, vars, MainStep, ReaperStep, Environment, LoadStatic, RevokeStale,
       ApiStart, ReaperStart, ReaperJoin, ApiStop, ReaperSelect,
       ReaperRemovePeer, ReaperRelease, ReaperRevoke, ReaperAudit, ReaperWake,
       Start, Signal, Tick, Die

(* The end of a thread of the API is the end of the process and its bitmap,*)
(* or comes when the thread is idle.                                       *)
LEMMA ApiKept ==
    ASSUME [Next]_vars
    PROVE  api' = api \/ bitmap' = {} \/ ApiStep \/ Request
BY DEF Next, vars, MainStep, ReaperStep, Environment, LoadStatic, RevokeStale,
       ApiStart, ReaperStart, ReaperJoin, ApiStop, ReaperSelect,
       ReaperRemovePeer, ReaperRelease, ReaperRevoke, ReaperAudit, ReaperWake,
       Start, Signal, Tick, Die

(* The steps that write the bitmap.                                        *)
LEMMA BitmapChange ==
    ASSUME [Next]_vars
    PROVE  \/ bitmap' = bitmap \/ bitmap' = {} \/ bitmap' = Reserved
           \/ LoginAllocate \/ LoginExhausted \/ LoginUndoIp
           \/ LogoutRelease \/ ReaperRelease
BY DEF Next, vars, MainStep, ApiStep, LoginStep, LogoutStep, RenewStep,
       ReaperStep, Request, Environment, LoadStatic, RevokeStale, ApiStart,
       ReaperStart, ReaperJoin, ApiStop, LoginAddPeer, LoginInsert,
       LoginUndoPeer, LoginAudit, LogoutRemovePeer, LogoutRevoke, LogoutAudit,
       RenewUpdate, RenewAudit, ReaperSelect, ReaperRemovePeer, ReaperRevoke,
       ReaperAudit, ReaperWake, LoginCount, LogoutLookup, RenewLookup, Start,
       Signal, Tick, Die

(* A step that is not of the reaper leaves it alone, ends it or starts it. *)
LEMMA ReaperChange ==
    ASSUME [Next]_vars
    PROVE  \/ reaper' = reaper
           \/ reaper' \in {ReaperAt("off"), ReaperAt("select")}
           \/ ReaperStep
BY DEF Next, vars, MainStep, ApiStep, LoginStep, LogoutStep, RenewStep, Request,
       Environment, LoadStatic, RevokeStale, ApiStart, ReaperStart, ReaperJoin,
       ApiStop, LoginAllocate, LoginExhausted, LoginAddPeer, LoginInsert,
       LoginUndoPeer, LoginUndoIp, LoginAudit, LogoutRemovePeer, LogoutRelease,
       LogoutRevoke, LogoutAudit, RenewUpdate, RenewAudit, LoginCount,
       LogoutLookup, RenewLookup, Start, Signal, Tick, Die

-----------------------------------------------------------------------------
(* The other parts of the invariant, each kept by every step.              *)

LEMMA LoginLocalsStep == IInv /\ [Next]_vars => LoginLocals'
<1> SUFFICES ASSUME IInv, [Next]_vars PROVE LoginLocals'
  OBVIOUS
<1>0. TypeOK /\ LoginLocals
  BY DEF IInv
<1>1. CASE api' = api
  <2>1. ASSUME api.pc \in LoginPc \ {"login_audit"}, row'[api.key] # NoRow
        PROVE  FALSE
    <3>1. api.key \in Key /\ row[api.key] = NoRow
      BY <1>0, <2>1 DEF LoginLocals
    <3>2. api.pc = "login_insert" /\ api'.pc = "login_audit"
      BY <2>1, <3>1, RowStep
    <3>3. QED
      BY <1>1, <3>2
  <2>2. QED
    BY <1>0, <1>1, <2>1 DEF LoginLocals
<1>2. CASE api' = ApiIdle
  BY <1>2 DEF LoginLocals, ApiIdle, ApiAt, LoginPc
<1>3. CASE LoginStep
  <2>1. CASE LoginAllocate
    <3>1. PICK i \in Leasable : api' = [api EXCEPT !.pc = "login_peer", !.ip = i]
      BY <2>1 DEF LoginAllocate
    <3>2. api'.pc = "login_peer" /\ api'.ip = i /\ api'.key = api.key
              /\ api'.account = api.account
      BY <1>0, <3>1 DEF TypeOK, ApiState
    <3>3. QED
      BY <1>0, <2>1, <3>2 DEF LoginLocals, LoginAllocate, LoginPc
  <2>2. CASE LoginExhausted
    BY <1>2, <2>2 DEF LoginExhausted
  <2>3. CASE LoginAddPeer
    <3>1. /\ api'.pc \in {"login_insert", "login_undo_ip"}
          /\ api'.key = api.key /\ api'.account = api.account /\ api'.ip = api.ip
      BY <1>0, <2>3 DEF LoginAddPeer, TypeOK, ApiState
    <3>2. QED
      BY <1>0, <2>3, <3>1 DEF LoginLocals, LoginAddPeer, LoginPc
  <2>4. CASE LoginInsert
    <3>1. /\ api'.pc \in {"login_audit", "login_undo_peer"}
          /\ api'.pc = "login_undo_peer" => row' = row
          /\ api'.key = api.key /\ api'.account = api.account /\ api'.ip = api.ip
      BY <1>0, <2>4 DEF LoginInsert, TypeOK, ApiState
    <3>2. QED
      BY <1>0, <2>4, <3>1 DEF LoginLocals, LoginInsert, LoginPc
  <2>5. CASE LoginUndoPeer
    BY <1>0, <2>5 DEF LoginLocals, LoginUndoPeer, LoginPc, TypeOK, ApiState
  <2>6. CASE LoginUndoIp
    BY <1>2, <2>6 DEF LoginUndoIp
  <2>7. CASE LoginAudit
    BY <1>2, <2>7 DEF LoginAudit
  <2>8. QED
    BY <1>3, <2>1, <2>2, <2>3, <2>4, <2>5, <2>6, <2>7 DEF LoginStep
<1>4. CASE LogoutStep \/ RenewStep
  <2>1. api' = ApiIdle \/ api'.pc \in LogoutPc \cup RenewPc
    BY <1>0, <1>4 DEF TypeOK, ApiState, LogoutStep, RenewStep, LogoutRemovePeer,
       LogoutRelease, LogoutRevoke, LogoutAudit, RenewUpdate, RenewAudit,
       LogoutPc, RenewPc
  <2>2. QED
    BY <1>2, <2>1 DEF LoginLocals, LoginPc, LogoutPc, RenewPc
<1>5. CASE Request
  <2>1. CASE \E k \in Key, a \in Account : LoginCount(k, a)
    BY <2>1 DEF LoginCount, Fresh, ApiAt, LoginLocals, LoginPc
  <2>2. CASE \E k \in Key : LogoutLookup(k) \/ RenewLookup(k)
    BY <2>2 DEF LogoutLookup, RenewLookup, ApiAt, LoginLocals, LoginPc
  <2>3. QED
    BY <1>5, <2>1, <2>2 DEF Request
<1>6. QED
  BY <1>1, <1>2, <1>3, <1>4, <1>5, ApiChange DEF ApiStep

LEMMA KeysHaveRowsStep == IInv /\ [Next]_vars => KeysHaveRows'
<1> SUFFICES ASSUME IInv, [Next]_vars PROVE KeysHaveRows'
  OBVIOUS
<1>0. TypeOK /\ KeysHaveRows
  BY DEF IInv
<1>1. \A k \in Key : row[k] # NoRow => row'[k] # NoRow
  BY RowStep
<1>2. api'.pc \in LogoutPc \cup RenewPc => api'.key \in Key /\ row'[api'.key] # NoRow
  <2>1. CASE api' = api
    BY <1>0, <1>1, <2>1 DEF KeysHaveRows
  <2>2. CASE api' = ApiIdle
    BY <2>2 DEF ApiIdle, ApiAt, LogoutPc, RenewPc
  <2>3. CASE LoginStep
    BY <1>0, <2>2, <2>3
       DEF LoginStep, LoginAllocate, LoginExhausted, LoginAddPeer, LoginInsert,
           LoginUndoPeer, LoginUndoIp, LoginAudit, TypeOK, ApiState, LogoutPc,
           RenewPc
  <2>4. CASE LogoutStep \/ RenewStep
    <3>1. api' = ApiIdle \/ (api.pc \in LogoutPc \cup RenewPc /\ api'.key = api.key)
      <4>1. CASE LogoutRemovePeer \/ LogoutRelease \/ LogoutRevoke
        BY <1>0, <4>1 DEF TypeOK, ApiState, LogoutRemovePeer, LogoutRelease,
           LogoutRevoke, LogoutPc
      <4>2. CASE RenewUpdate
        BY <1>0, <4>2 DEF TypeOK, ApiState, RenewUpdate, RenewPc
      <4>3. CASE LogoutAudit
        BY <4>3 DEF LogoutAudit
      <4>4. CASE RenewAudit
        BY <4>4 DEF RenewAudit
      <4>5. QED
        BY <2>4, <4>1, <4>2, <4>3, <4>4 DEF LogoutStep, RenewStep
    <3>2. QED
      BY <1>0, <1>1, <2>2, <3>1 DEF KeysHaveRows
  <2>5. CASE Request
    BY <2>5, <1>1 DEF Request, LoginCount, LogoutLookup, RenewLookup, ApiAt,
       LogoutPc, RenewPc, IsLive
  <2>6. QED
    BY <2>1, <2>2, <2>3, <2>4, <2>5, ApiChange DEF ApiStep
<1>3. /\ reaper'.pc \in {"release", "revoke", "audit"} =>
             reaper'.key \in Key /\ row'[reaper'.key] # NoRow
      /\ \A k \in reaper'.batch : row'[k] # NoRow
  <2>1. CASE reaper' = reaper
    BY <1>0, <1>1, <2>1 DEF KeysHaveRows, TypeOK, ReaperState
  <2>2. CASE \E pc \in ReaperPc \ {"release", "revoke", "audit"} : reaper' = ReaperAt(pc)
    BY <2>2 DEF ReaperAt
  <2>3. CASE ReaperSelect
    <3>1. PICK b \in SUBSET Overdue(row, clock) :
              reaper' = IF b = {} THEN ReaperAt("sleep")
                        ELSE [ReaperAt("peer") EXCEPT !.batch = b]
      BY <2>3 DEF ReaperSelect, Batches
    <3>2. CASE b = {}
      BY <2>2, <3>1, <3>2 DEF ReaperPc
    <3>3. CASE b # {}
      <4>1. reaper'.pc = "peer" /\ reaper'.batch = b
        BY <3>1, <3>3 DEF ReaperAt
      <4>2. QED
        BY <1>1, <4>1 DEF Overdue, IsLive
    <3>4. QED
      BY <3>2, <3>3
  <2>4. CASE ReaperRemovePeer
    BY <1>0, <1>1, <2>4 DEF ReaperRemovePeer, KeysHaveRows, TypeOK, ReaperState
  <2>5. CASE ReaperRelease \/ ReaperRevoke
    <3>1. /\ reaper.pc \in {"release", "revoke"}
          /\ reaper'.key = reaper.key /\ reaper'.batch = reaper.batch
      BY <1>0, <2>5 DEF ReaperRelease, ReaperRevoke, TypeOK, ReaperState
    <3>2. QED
      BY <1>0, <1>1, <3>1 DEF KeysHaveRows, TypeOK, ReaperState
  <2>6. CASE ReaperAudit
    BY <1>0, <1>1, <2>2, <2>6
       DEF ReaperAudit, KeysHaveRows, TypeOK, ReaperState, ReaperPc
  <2>7. CASE ReaperWake
    BY <2>2, <2>7 DEF ReaperWake, ReaperPc
  <2>8. QED
    BY <2>1, <2>2, <2>3, <2>4, <2>5, <2>6, <2>7, ReaperChange
       DEF ReaperStep, ReaperPc
<1>4. QED
  BY <1>2, <1>3 DEF KeysHaveRows

LEMMA RowsLeasableStep == IInv /\ [Next]_vars => RowsLeasable'
<1> SUFFICES ASSUME IInv, [Next]_vars, NEW k \in Key, row'[k] # NoRow
             PROVE  row'[k].ip \in Leasable
  BY DEF RowsLeasable
<1>1. CASE row[k] # NoRow
  BY <1>1, RowStep DEF IInv, RowsLeasable
<1>2. CASE row[k] = NoRow
  BY <1>2, RowStep DEF IInv, LoginLocals, LoginPc
<1>3. QED
  BY <1>1, <1>2

LEMMA ThreadsOfMainStep == IInv /\ [Next]_vars => ThreadsOfMain'
<1> SUFFICES ASSUME IInv, [Next]_vars PROVE ThreadsOfMain'
  OBVIOUS
<1>0. TypeOK /\ ThreadsOfMain
  BY DEF IInv
<1>1. CASE UNCHANGED vars
  BY <1>0, <1>1 DEF vars, ThreadsOfMain, ApiUp
<1>2. CASE MainStep
  <2>1. CASE LoadStatic \/ RevokeStale \/ ApiStart
    BY <1>0, <2>1 DEF LoadStatic, RevokeStale, ApiStart, ThreadsOfMain, ApiUp
  <2>2. CASE ReaperStart \/ ReaperJoin
    BY <1>0, <2>2 DEF ReaperStart, ReaperJoin, ThreadsOfMain, ApiUp
  <2>3. CASE ApiStop
    BY <1>0, <2>3 DEF ApiStop, ThreadsOfMain, ApiUp
  <2>4. QED
    BY <1>2, <2>1, <2>2, <2>3 DEF MainStep
<1>3. CASE ApiStep
  <2>1. api.pc # "idle" /\ proc' = proc /\ reaper' = reaper
    BY <1>3 DEF ApiStep, LoginStep, LogoutStep, RenewStep, LoginAllocate,
       LoginExhausted, LoginAddPeer, LoginInsert, LoginUndoPeer, LoginUndoIp,
       LoginAudit, LogoutRemovePeer, LogoutRelease, LogoutRevoke, LogoutAudit,
       RenewUpdate, RenewAudit
  <2>2. QED
    BY <1>0, <2>1 DEF ThreadsOfMain, ApiUp
<1>4. CASE ReaperStep
  BY <1>0, <1>4 DEF ReaperStep, ReaperSelect, ReaperRemovePeer, ReaperRelease,
     ReaperRevoke, ReaperAudit, ReaperWake, ThreadsOfMain, ApiUp, ReaperAt
<1>5. CASE Request
  BY <1>0, <1>5 DEF Request, LoginCount, LogoutLookup, RenewLookup, Accepts,
     ThreadsOfMain, ApiUp
<1>6. CASE Environment
  BY <1>0, <1>6 DEF Environment, Start, Signal, Tick, Die, ThreadsOfMain, ApiUp,
     ApiIdle, ApiAt
<1>7. QED
  BY <1>1, <1>2, <1>3, <1>4, <1>5, <1>6 DEF Next

(* A session ends in two places while the server runs, and when it starts. *)
LEMMA LiveStep ==
    ASSUME IInv, [Next]_vars, NEW k \in Key, IsLive(row, k)
    PROVE  \/ IsLive(row', k)
           \/ RevokeStale
           \/ LogoutRevoke /\ api.key = k
           \/ ReaperRevoke /\ reaper.key = k
<1>0. row \in [Key -> Row \cup {NoRow}] /\ row[k] # NoRow /\ ~ row[k].revoked
  BY DEF IInv, TypeOK, IsLive
<1>1. row'[k] # NoRow
  BY <1>0, RowStep
<1>2. SUFFICES ASSUME row'[k].revoked, ~ RevokeStale
               PROVE  \/ LogoutRevoke /\ api.key = k
                      \/ ReaperRevoke /\ reaper.key = k
  BY <1>1 DEF IsLive
<1>3. row' # row
  BY <1>0, <1>2
<1>4. CASE LoginInsert
  <2>1. row[api.key] = NoRow
    BY <1>4 DEF IInv, LoginLocals, LoginInsert, LoginPc
  <2>2. row' = Inserted(row, api.key, api.account, api.ip, api.expires)
    BY <1>3, <1>4 DEF LoginInsert
  <2>3. row'[k] = row[k]
    BY <1>0, <2>1, <2>2 DEF Inserted
  <2>4. QED
    BY <1>0, <1>2, <2>3
<1>5. CASE RenewUpdate
  <2>1. row' = Extended(row, api.key, api.expires)
    BY <1>3, <1>5 DEF RenewUpdate
  <2>2. row[k] \in Row
    BY <1>0
  <2>3. row'[k].revoked = row[k].revoked
    BY <1>0, <2>1, <2>2 DEF Extended, Row
  <2>4. QED
    BY <1>0, <1>2, <2>3
<1>6. CASE LogoutRevoke
  <2>1. row' = Revoked(row, api.key)
    BY <1>3, <1>6 DEF LogoutRevoke, RevokeRow
  <2>2. api.key = k
    BY <1>0, <1>2, <2>1 DEF Revoked
  <2>3. QED
    BY <1>6, <2>2
<1>7. CASE ReaperRevoke
  <2>1. row' = Revoked(row, reaper.key)
    BY <1>3, <1>7 DEF ReaperRevoke, RevokeRow
  <2>2. reaper.key = k
    BY <1>0, <1>2, <2>1 DEF Revoked
  <2>3. QED
    BY <1>7, <2>2
<1>8. QED
  BY <1>2, <1>3, <1>4, <1>5, <1>6, <1>7, RowChange

(* Only the two release calls bring a thread past the release. *)
LEMMA PastReleaseStep ==
    ASSUME IInv, [Next]_vars, NEW k \in Key, PastRelease(k)'
    PROVE  \/ PastRelease(k)
           \/ LogoutRelease /\ api.key = k
           \/ ReaperRelease /\ reaper.key = k
<1>0. TypeOK
  BY DEF IInv
<1>1. CASE api'.pc = "logout_revoke" /\ api'.key = k
  <2>1. CASE api' = api
    BY <1>1, <2>1 DEF PastRelease
  <2>2. api' # ApiIdle /\ ~ Request
    BY <1>1 DEF ApiIdle, ApiAt, Request, LoginCount, LogoutLookup, RenewLookup
  <2>3. ~ LoginStep
    BY <1>0, <1>1, <2>2
       DEF LoginStep, LoginAllocate, LoginExhausted, LoginAddPeer, LoginInsert,
           LoginUndoPeer, LoginUndoIp, LoginAudit, TypeOK, ApiState
  <2>4. ~ RenewStep
    BY <1>0, <1>1, <2>2 DEF RenewStep, RenewUpdate, RenewAudit, TypeOK, ApiState
  <2>5. ASSUME LogoutStep PROVE LogoutRelease /\ api.key = k
    BY <1>0, <1>1, <2>2, <2>5
       DEF LogoutStep, LogoutRemovePeer, LogoutRelease, LogoutRevoke,
           LogoutAudit, TypeOK, ApiState
  <2>6. QED
    BY <2>1, <2>2, <2>3, <2>4, <2>5, ApiChange DEF ApiStep
<1>2. CASE reaper'.pc = "revoke" /\ reaper'.key = k
  <2>1. CASE reaper' = reaper
    BY <1>2, <2>1 DEF PastRelease
  <2>2. CASE ReaperStep
    <3>1. ~ ReaperSelect
      BY <1>2 DEF ReaperSelect, ReaperAt
    <3>2. ~ ReaperAudit /\ ~ ReaperWake
      <4>1. ~ ReaperWake
        BY <1>2 DEF ReaperWake, ReaperAt
      <4>2. ASSUME ReaperAudit, reaper.batch # {} PROVE FALSE
        BY <1>0, <1>2, <4>2 DEF ReaperAudit, TypeOK, ReaperState
      <4>3. ASSUME ReaperAudit, reaper.batch = {} PROVE FALSE
        BY <1>2, <4>3 DEF ReaperAudit, ReaperAt
      <4>4. QED
        BY <4>1, <4>2, <4>3
    <3>3. ~ ReaperRemovePeer /\ ~ ReaperRevoke
      BY <1>0, <1>2 DEF ReaperRemovePeer, ReaperRevoke, TypeOK, ReaperState
    <3>4. ASSUME ReaperRelease PROVE reaper.key = k
      BY <1>0, <1>2, <3>4 DEF ReaperRelease, TypeOK, ReaperState
    <3>5. QED
      BY <2>2, <3>1, <3>2, <3>3, <3>4 DEF ReaperStep
  <2>3. reaper' \notin {ReaperAt("off"), ReaperAt("select")}
    BY <1>2 DEF ReaperAt
  <2>4. QED
    BY <2>1, <2>2, <2>3, ReaperChange
<1>3. QED
  BY <1>1, <1>2 DEF PastRelease

LEMMA NoLeakedAddressStep == IInv /\ [Next]_vars => NoLeakedAddress'
<1> SUFFICES ASSUME IInv, [Next]_vars, NEW i \in bitmap' \cap Leasable
             PROVE  \E k \in Key : Holder(k, i)'
  BY DEF NoLeakedAddress
<1>0. /\ TypeOK /\ LoginLocals /\ KeysHaveRows /\ RowsLeasable /\ ThreadsOfMain
      /\ NoLeakedAddress
  BY DEF IInv
<1>1. CASE LoginAllocate /\ api'.ip = i
  <2>1. api'.pc = "login_peer" /\ api'.key = api.key /\ api.key \in Key
    BY <1>0, <1>1 DEF LoginAllocate, TypeOK, ApiState, LoginLocals, LoginPc
  <2>2. Holder(api.key, i)'
    BY <1>1, <2>1 DEF Holder, LoginHoldsIp
  <2>3. QED
    BY <2>1, <2>2
<1>2. CASE ~ (LoginAllocate /\ api'.ip = i)
  <2>1. i \in bitmap /\ bitmap' # {} /\ ~ Start
    <3>1. i \notin Reserved /\ i \notin Excluded
      BY LeasableType DEF Leasable
    <3>2. CASE LoginAllocate
      <4>1. PICK j \in Leasable : /\ bitmap' = MarkedUpTo(bitmap, j)
                                 /\ api' = [api EXCEPT !.pc = "login_peer", !.ip = j]
        BY <3>2 DEF LoginAllocate
      <4>2. api'.ip = j
        BY <1>0, <4>1 DEF TypeOK, ApiState
      <4>3. ~ Start
        BY <3>2, <1>0 DEF Start, LoginAllocate, ThreadsOfMain, ApiUp
      <4>4. QED
        BY <1>2, <3>1, <3>2, <4>1, <4>2, <4>3 DEF MarkedUpTo
    <3>3. CASE bitmap' = bitmap \/ bitmap' = {} \/ bitmap' = Reserved
               \/ LoginExhausted \/ LoginUndoIp \/ LogoutRelease \/ ReaperRelease
      BY <3>1, <3>3 DEF LoginExhausted, LoginUndoIp, LogoutRelease, ReaperRelease,
         MarkedAll, Released, Start
    <3>4. QED
      BY <3>2, <3>3, BitmapChange
  <2>2. PICK k \in Key : Holder(k, i)
    BY <1>0, <2>1 DEF NoLeakedAddress
  <2>3. ApiUp
    BY <1>0, <2>1, LeasableType DEF ThreadsOfMain
  <2>4. CASE LoginHoldsIp /\ api.key = k /\ api.ip = i
    <3>1. row[k] = NoRow
      BY <1>0, <2>4 DEF LoginHoldsIp, LoginLocals, LoginPc
    <3>2. CASE api' = api
      BY <2>4, <3>2 DEF Holder, LoginHoldsIp
    <3>3. CASE LoginAddPeer
      <4>1. /\ api'.pc \in {"login_insert", "login_undo_ip"}
            /\ api'.key = api.key /\ api'.ip = api.ip
        BY <1>0, <3>3 DEF LoginAddPeer, TypeOK, ApiState
      <4>2. QED
        BY <2>4, <4>1 DEF Holder, LoginHoldsIp
    <3>4. CASE LoginInsert /\ row' = row
      <4>1. row' # Inserted(row, api.key, api.account, api.ip, api.expires)
        <5>1. api.key \in Key /\ api.account \in Account /\ api.ip \in Index
              /\ api.expires \in Nat
          BY <1>0, <3>4 DEF LoginInsert, LoginLocals, LoginPc, TypeOK, ApiState
        <5>2. Inserted(row, api.key, api.account, api.ip, api.expires)[api.key]
                  \in Row
          BY <1>0, <5>1 DEF Inserted, TypeOK, Row
        <5>3. QED
          BY <2>4, <3>1, <3>4, <5>2, DbAssumption
      <4>2. /\ api'.pc = "login_undo_peer"
            /\ api'.key = api.key /\ api'.ip = api.ip
        BY <1>0, <3>4, <4>1 DEF LoginInsert, TypeOK, ApiState
      <4>3. QED
        BY <2>4, <4>2 DEF Holder, LoginHoldsIp
    <3>5. CASE LoginInsert /\ row' = Inserted(row, api.key, api.account, api.ip, api.expires)
      <4>1. IsLive(row', k) /\ row'[k].ip = i
        <5>1. row'[k] = [account |-> api.account, ip |-> api.ip,
                         expires |-> api.expires, revoked |-> FALSE]
          BY <1>0, <2>4, <3>5 DEF Inserted, TypeOK
        <5>2. row'[k] \in Row
          BY <1>0, <3>5, <5>1 DEF LoginInsert, LoginLocals, LoginPc, TypeOK, ApiState, Row
        <5>3. row'[k] # NoRow
          BY <5>2, DbAssumption
        <5>4. row'[k].ip = i /\ row'[k].revoked = FALSE
          BY <2>4, <5>1
        <5>5. QED
          BY <5>3, <5>4 DEF IsLive
      <4>2. api'.pc # "logout_revoke" /\ reaper' = reaper
        BY <1>0, <3>5 DEF LoginInsert, TypeOK, ApiState
      <4>3. ~ PastRelease(k)'
        BY <1>0, <3>1, <4>2 DEF PastRelease, KeysHaveRows
      <4>4. QED
        BY <4>1, <4>3 DEF Holder, IsLive
    <3>6. CASE LoginUndoPeer
      <4>1. api'.pc = "login_undo_ip" /\ api'.key = api.key /\ api'.ip = api.ip
        BY <1>0, <3>6 DEF LoginUndoPeer, TypeOK, ApiState
      <4>2. QED
        BY <2>4, <4>1 DEF Holder, LoginHoldsIp
    <3>7. CASE LoginUndoIp
      BY <2>4, <3>7 DEF LoginUndoIp, Released
    <3>8. QED
      <4>1. ApiStep \/ Request =>
                \/ LoginAddPeer \/ LoginInsert \/ LoginUndoPeer \/ LoginUndoIp
        BY <2>4 DEF ApiStep, LoginStep, LogoutStep, RenewStep, Request,
           LoginHoldsIp, LoginAllocate, LoginExhausted, LoginAudit,
           LogoutRemovePeer, LogoutRelease, LogoutRevoke, LogoutAudit,
           RenewUpdate, RenewAudit, LoginCount, LogoutLookup, RenewLookup, Accepts
      <4>2. api' = api \/ bitmap' = {} \/ ApiStep \/ Request
        BY ApiKept
      <4>3. LoginInsert => \/ row' = row
                           \/ row' = Inserted(row, api.key, api.account, api.ip,
                                              api.expires)
        BY DEF LoginInsert
      <4>4. QED
        BY <2>1, <3>2, <3>3, <3>4, <3>5, <3>6, <3>7, <4>1, <4>2, <4>3
  <2>5. CASE IsLive(row, k) /\ row[k].ip = i /\ ~ PastRelease(k)
    <3>1. row'[k] # NoRow /\ row'[k].ip = i
      BY <2>5, RowStep DEF IsLive
    <3>2. IsLive(row', k)
      <4>1. ~ RevokeStale
        BY <2>3 DEF ApiUp, RevokeStale
      <4>2. ~ (LogoutRevoke /\ api.key = k) /\ ~ (ReaperRevoke /\ reaper.key = k)
        BY <2>5 DEF PastRelease, LogoutRevoke, ReaperRevoke
      <4>3. QED
        BY <2>5, <4>1, <4>2, LiveStep
    <3>3. ~ PastRelease(k)'
      <4>1. ~ (LogoutRelease /\ api.key = k) /\ ~ (ReaperRelease /\ reaper.key = k)
        BY <2>5 DEF LogoutRelease, ReaperRelease, Released
      <4>2. QED
        BY <2>5, <4>1, PastReleaseStep
    <3>4. QED
      BY <3>1, <3>2, <3>3 DEF Holder, IsLive
  <2>6. QED
    BY <2>2, <2>4, <2>5 DEF Holder
<1>3. QED
  BY <1>1, <1>2

-----------------------------------------------------------------------------
(* The invariant and its theorems                                          *)

LEMMA Invariance == Spec => []IInv
<1>1. IInv /\ [Next]_vars => IInv'
  BY TypeStep, LoginLocalsStep, KeysHaveRowsStep, RowsLeasableStep,
     ThreadsOfMainStep, NoLeakedAddressStep DEF IInv
<1>2. QED
  BY <1>1, InitIInv, PTL DEF Spec

(* Every variable has its type, whatever the pool, the limits, the number  *)
(* of clients, the failures and the restarts.                              *)
THEOREM TypeCorrect == Spec => []TypeOK
<1>1. IInv => TypeOK
  BY DEF IInv
<1>2. QED
  BY <1>1, Invariance, PTL

(* No address of the pool is ever leaked: a bit that ip_pool_allocate      *)
(* could take and finds set belongs to a session or to a login in          *)
(* progress, through every error path, failure and restart.                *)
THEOREM AddressesNotLeaked == Spec => []NoLeakedAddress
<1>1. IInv => NoLeakedAddress
  BY DEF IInv
<1>2. QED
  BY <1>1, Invariance, PTL

(* A peer table and routes without the peer of a session keep those of a   *)
(* static device.                                                          *)
LEMMA RemovalKeepsStatic ==
    ASSUME TypeOK, NEW k \in Key, RemovePeer(k)
    PROVE  StaticKept
<1> SUFFICES ASSUME NEW s \in Static, s \in peers, route[StaticAddr[s]] = s
             PROVE  s \in peers' /\ route'[StaticAddr[s]] = s
  BY DEF StaticKept
<1>1. s # k /\ StaticAddr[s] \in Addr
  BY WgAssumption
<1>2. peers' \in {peers, peers \ {k}} /\ route' \in {route, RouteDropped(route, k)}
  BY DEF RemovePeer
<1>3. QED
  BY <1>1, <1>2 DEF RouteDropped

(* The steps that write the device.                                        *)
LEMMA DeviceChange ==
    ASSUME [Next]_vars
    PROVE  \/ peers' = peers /\ route' = route
           \/ LoadStatic \/ LoginAddPeer \/ LoginUndoPeer
           \/ LogoutRemovePeer \/ ReaperRemovePeer
           \/ \E machine \in BOOLEAN : Die(machine)
BY DEF Next, vars, MainStep, ApiStep, LoginStep, LogoutStep, RenewStep,
       ReaperStep, Request, Environment, RevokeStale, ApiStart, ReaperStart,
       ReaperJoin, ApiStop, LoginAllocate, LoginExhausted, LoginInsert,
       LoginUndoIp, LoginAudit, LogoutRelease, LogoutRevoke, LogoutAudit,
       RenewUpdate, RenewAudit, ReaperSelect, ReaperRelease, ReaperRevoke,
       ReaperAudit, ReaperWake, LoginCount, LogoutLookup, RenewLookup, Start,
       Signal, Tick

(* No step of the server, reloads after a restart included, takes the      *)
(* route of a static device away, whatever sessions come and go.           *)
THEOREM StaticDevicesKept == Spec => StaticRouteKept
<1>1. IInv /\ [Next]_vars => [StaticKept]_vars
  <2> SUFFICES ASSUME IInv, [Next]_vars PROVE StaticKept
    OBVIOUS
  <2>0. TypeOK /\ LoginLocals /\ KeysHaveRows
    BY DEF IInv
  <2>1. CASE peers' = peers /\ route' = route
    BY <2>1 DEF StaticKept
  <2>2. CASE LoadStatic
    <3> SUFFICES ASSUME NEW s \in Static, s \in peers, route[StaticAddr[s]] = s
                 PROVE  s \in peers' /\ route'[StaticAddr[s]] = s
      BY DEF StaticKept
    <3>1. StaticAddr[s] \in Addr
      BY WgAssumption
    <3>2. RouteStatic(route)[StaticAddr[s]] = s
      BY <3>1, WgAssumption DEF RouteStatic
    <3>3. QED
      BY <2>2, <3>2 DEF LoadStatic
  <2>3. CASE LoginAddPeer
    <3> SUFFICES ASSUME NEW s \in Static, s \in peers, route[StaticAddr[s]] = s
                 PROVE  s \in peers' /\ route'[StaticAddr[s]] = s
      BY DEF StaticKept
    <3>1. api.key \in Key /\ api.ip \in Leasable
      BY <2>0, <2>3 DEF LoginAddPeer, LoginLocals, LoginPc
    <3>2. StaticAddr[s] \in Addr /\ s # api.key /\ StaticAddr[s] # api.ip
      BY <3>1, WgAssumption, StaticAssumption DEF Leasable
    <3>3. RouteTo(route, api.key, api.ip)[StaticAddr[s]] = s
      BY <3>2 DEF RouteTo
    <3>4. QED
      BY <2>3, <3>3 DEF LoginAddPeer
  <2>4. CASE LoginUndoPeer
    BY <2>0, <2>4, RemovalKeepsStatic DEF LoginUndoPeer, LoginLocals, LoginPc
  <2>5. CASE LogoutRemovePeer
    BY <2>0, <2>5, RemovalKeepsStatic DEF LogoutRemovePeer, KeysHaveRows, LogoutPc
  <2>6. CASE ReaperRemovePeer
    <3>1. PICK k \in reaper.batch : RemovePeer(k)
      BY <2>6 DEF ReaperRemovePeer
    <3>2. k \in Key
      BY <2>0 DEF TypeOK, ReaperState
    <3>3. QED
      BY <2>0, <3>1, <3>2, RemovalKeepsStatic
  <2>7. CASE \E machine \in BOOLEAN : Die(machine)
    BY <2>7 DEF Die, StaticKept
  <2>8. QED
    BY <2>1, <2>2, <2>3, <2>4, <2>5, <2>6, <2>7, DeviceChange
<1>2. QED
  BY <1>1, Invariance, PTL DEF Spec, StaticRouteKept

=============================================================================
