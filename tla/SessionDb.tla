------------------------------ MODULE SessionDb ------------------------------
(***************************************************************************)
(* The sessions table of vpn-authd (server/src/db.c).  A session's row id, *)
(* token and device public key are all fresh and unique, so one Key stands *)
(* for the three; the table maps each key to its row, or to NoRow while no *)
(* row has been inserted.  Each operator is one SQL statement; sqlite runs *)
(* with FULLMUTEX, so a statement is atomic.                               *)
(***************************************************************************)
EXTENDS Naturals, FiniteSets, IpPool, WgDevice

CONSTANTS
    Account,      \* account ids
    NoRow,        \* "no row with this key"
    BatchLimit    \* the LIMIT of db_get_expired_sessions: 100

Row == [account : Account, ip : Index, expires : Nat, revoked : BOOLEAN]

ASSUME DbAssumption == /\ NoRow \notin Row
                       /\ BatchLimit \in Nat \ {0}
                       /\ Index \subseteq Addr

(* A row that is not revoked. *)
IsLive(row, k) == row[k] # NoRow /\ ~ row[k].revoked

(* Variant: the query forgets revoked = 0. *)
OverdueOrRevoked(row, now) ==
    {k \in Key : row[k] # NoRow /\ row[k].expires < now}

(* revoked = 0 AND expires_at < now *)
Overdue(row, now) == {k \in Key : IsLive(row, k) /\ row[k].expires < now}

(* revoked = 0 AND expires_at >= now, for one account *)
Active(row, a, now) ==
    {k \in Key : IsLive(row, k) /\ row[k].account = a /\ row[k].expires >= now}

(* db_create_session *)
Inserted(row, k, a, ip, expires) ==
    [row EXCEPT ![k] = [account |-> a, ip |-> ip,
                        expires |-> expires, revoked |-> FALSE]]

(* db_revoke_session *)
Revoked(row, k) == [row EXCEPT ![k] = [@ EXCEPT !.revoked = TRUE]]

(* Variant: the renewal of a session makes it active again. *)
ExtendedRevives(row, k, expires) ==
    [row EXCEPT ![k] = [@ EXCEPT !.expires = expires, !.revoked = FALSE]]

(* db_update_session_expiry: by id alone, revoked or not *)
Extended(row, k, expires) == [row EXCEPT ![k] = [@ EXCEPT !.expires = expires]]

(* db_revoke_all_active_sessions *)
AllRevoked(row) ==
    [k \in Key |-> IF row[k] = NoRow THEN NoRow
                   ELSE [row[k] EXCEPT !.revoked = TRUE]]

(* The batches db_get_expired_sessions may return.  The query has a LIMIT   *)
(* and no ORDER BY; when mayFail, the statement may fail, or its loop stop  *)
(* early (a step that is not SQLITE_ROW, a realloc that fails).             *)
Batches(row, now, mayFail) ==
    {b \in SUBSET Overdue(row, now) :
        /\ Cardinality(b) <= BatchLimit
        /\ mayFail \/ b = Overdue(row, now) \/ Cardinality(b) = BatchLimit}

=============================================================================
