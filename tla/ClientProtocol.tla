--------------------------- MODULE ClientProtocol ---------------------------
(***************************************************************************)
(* One MYSQL handle of the C client library and the packets on their way   *)
(* to it: the text protocol of libmysql/client.c, which decides from       *)
(* mysql->status and two bits of mysql->server_status what may be sent and *)
(* what is read next, with automatic reconnection and mysql_stmt_close,    *)
(* the one call that may discard a result another call is using.           *)
(*                                                                         *)
(* A call is a sequence of steps: the command with all of                  *)
(* cli_advanced_command, then one step for every packet cli_safe_read      *)
(* returns.  The server answers a command at once; a packet carries the    *)
(* number of its command.  The definitions of the columns travel with the  *)
(* packet that announces the result ("SET").  Autocommit is on, and no     *)
(* allocation fails.                                                       *)
(***************************************************************************)
EXTENDS Integers, Sequences, SequencesExt

CONSTANTS
    Results,        \* the MYSQL_RES of unbuffered results
    Responses,      \* what a query may do: a sequence of [out, trans]
    MaxCommands,    \* bound on the commands
    MaxBreaks,      \* bound on the failures of the network
    None            \* no result

(* A query has one result or more, and only the last can be an error.  An  *)
(* ERR packet carries no status: a statement that fails is taken to leave  *)
(* the transaction as it was.                                              *)
ASSUME ClientAssumption ==
    /\ None \notin Results \cup [q : Nat, cancelled : BOOLEAN]
    /\ MaxCommands \in Nat /\ MaxBreaks \in Nat
    /\ \A r \in Responses :
          /\ r \in Seq([out : {"ok", "empty", "rows", "broken_rows", "error"},
                       trans : {"begin", "end", "keep"}])
          /\ r # <<>>
          /\ \A i \in 1..Len(r) :
               /\ r[i].out \in {"broken_rows", "error"} => i = Len(r)
               /\ r[i].out = "error" => r[i].trans = "keep"

VARIABLES
    mysql,          \* the handle: status, MORE_RESULTS and IN_TRANS of
                    \* server_status, fields # 0, unbuffered_fetch_owner
    reconnect,      \* mysql->reconnect
    conn,           \* "none" if mysql->net.vio = 0, else "up" or "broken"
    wire,           \* packets to be read
    stmt,           \* a MYSQL_STMT: "init", "prepared" or "detached"
    res,            \* unbuffered results the application can fetch from
    pc,             \* where the call in progress is
    last,           \* the number of commands, and the last one's number
    breaks,         \* failures of the network
    srvTrans,       \* the session on the server has a transaction open
    lost,           \* the library lost a session while the handle said
                    \* IN_TRANS, and no call has said so since
    orphaned        \* mysql_fetch_row of a discarded result has declared
                    \* the handle ready over rows of another one

vars == <<mysql, reconnect, conn, wire, stmt, res, pc, last, breaks, srvTrans,
          lost, orphaned>>

Init ==
    /\ mysql = [status |-> "READY", more |-> FALSE, trans |-> FALSE,
                fields |-> FALSE, owner |-> None]
    /\ reconnect \in BOOLEAN
    /\ conn = "up"
    /\ wire = <<>>
    /\ stmt = "init"
    /\ res = [r \in Results |-> None]
    /\ pc = "idle"
    /\ last = 0
    /\ breaks = 0
    /\ srvTrans = FALSE
    /\ lost = FALSE
    /\ orphaned = FALSE

(***************************************************************************)
(* The server.                                                             *)
(***************************************************************************)
TransAfter(response, t) ==
    LET after[i \in 0..Len(response)] ==
          IF i = 0 THEN t
          ELSE CASE response[i].trans = "begin" -> TRUE
                 [] response[i].trans = "end"   -> FALSE
                 [] response[i].trans = "keep"  -> after[i - 1]
    IN after

Kinds(out) ==
    CASE out = "ok"          -> <<"OK">>
      [] out = "error"       -> <<"ERR">>
      [] out = "empty"       -> <<"SET", "EOF", "EOF">>
      [] out = "rows"        -> <<"SET", "EOF", "ROW", "EOF">>
      [] out = "broken_rows" -> <<"SET", "EOF", "ROW", "ERR">>

ResultPackets(out, q, more, trans) ==
    [j \in 1..Len(Kinds(out)) |->
       [kind |-> Kinds(out)[j], q |-> q, more |-> more, trans |-> trans]]

(* The packets that answer command q.  All but ERR carry the status of the *)
(* session; SERVER_MORE_RESULTS_EXISTS is set in all but the last result.  *)
Packets(response, q, t) ==
    FlattenSeq([i \in 1..Len(response) |->
        ResultPackets(response[i].out, q, i < Len(response), TransAfter(response, t)[i])])

(* The network fails: what the server sent last never arrives, and it ends *)
(* the session with its transaction.                                       *)
Break ==
    /\ conn = "up" /\ pc # "closed" /\ breaks < MaxBreaks
    /\ conn' = "broken"
    /\ breaks' = breaks + 1
    /\ \E n \in 0..Len(wire) : wire' = SubSeq(wire, 1, n)
    /\ srvTrans' = FALSE
    /\ UNCHANGED <<mysql, reconnect, stmt, res, pc, last, lost>>

(***************************************************************************)
(* cli_advanced_command.                                                   *)
(***************************************************************************)
OutOfSyncStatusOnly == mysql.status # "READY"

OutOfSync == mysql.status # "READY" \/ mysql.more

MayReconnectAlways == reconnect

(* What mysql_reconnect asks before it connects.                           *)
MayReconnect == reconnect /\ ~mysql.trans

(* mysql_reconnect's new handle takes the place of the old one: prepared   *)
(* statements are closed, results keep pointing to it.                     *)
Reconnected ==
    /\ MayReconnect
    /\ conn' = "up"
    /\ mysql' = [status |-> "READY", more |-> FALSE, trans |-> FALSE,
                 fields |-> FALSE, owner |-> None]

(* The reconnection is refused or fails.                                   *)
Gone ==
    /\ conn' = "none"
    /\ mysql' = [mysql EXCEPT !.trans = FALSE, !.fields = FALSE]

(* net_write_command fails: the session is over.  (With vio = 0 there was  *)
(* none to begin with.)                                                    *)
NoSession == conn = "none" \/ (conn = "broken" /\ ~OutOfSync)

(* A session ends with its transaction, if the handle knows of one: what   *)
(* the unread results of a multi-statement have opened goes unnoticed.     *)
LostWith == lost \/ (conn # "none" /\ mysql.trans)

(* Command number last + 1 that the server answers with response; the call *)
(* goes on at `then'.  keep is what stmt is when the call fails or goes on *)
(* in a new session, and skip is stmt_skip.                                *)
Command(response, then, skip, keep) ==
    LET q == last + 1 IN
    /\ \/ /\ conn # "none" /\ OutOfSync
          /\ pc' = "idle"
          /\ UNCHANGED <<mysql, conn, wire, stmt, last, srvTrans, lost>>
       \/ /\ conn # "none" /\ ~OutOfSync        \* written, perhaps in vain
          /\ \E n \in 0..Len(wire) :            \* net_clear
                wire' = SubSeq(wire, n + 1, Len(wire)) \o
                        (IF conn = "up" THEN Packets(response, q, srvTrans)
                                        ELSE <<>>)
          /\ srvTrans' = (conn = "up" /\
                          TransAfter(response, srvTrans)[Len(response)])
          /\ pc' = then /\ last' = q
          /\ UNCHANGED <<mysql, conn, stmt, lost>>
       \/ /\ NoSession /\ Gone
          /\ pc' = "idle" /\ lost' = FALSE /\ wire' = <<>>
          /\ UNCHANGED <<stmt, last, srvTrans>>
       \/ /\ NoSession /\ Reconnected
          /\ stmt' = keep /\ last' = q
          /\ IF skip
               THEN /\ wire' = <<>> /\ srvTrans' = FALSE
                    /\ pc' = "idle" /\ lost' = FALSE
               ELSE /\ wire' = Packets(response, q, FALSE)
                    /\ srvTrans' = TransAfter(response, FALSE)[Len(response)]
                    /\ pc' = then /\ lost' = LostWith
    /\ UNCHANGED <<reconnect, res, breaks>>

(* A prepared statement does not survive a reconnection.                   *)
Detached == IF stmt = "prepared" THEN "detached" ELSE stmt

mysql_real_query ==
    /\ pc = "idle" /\ last < MaxCommands
    /\ \E response \in Responses : Command(response, "reply", FALSE, Detached)

Simple == {<<[out |-> o, trans |-> "keep"]>> : o \in {"ok", "error"}}

mysql_ping ==
    /\ pc = "idle" /\ last < MaxCommands
    /\ \E response \in Simple : Command(response, "simple", FALSE, Detached)

mysql_stmt_prepare ==
    /\ pc = "idle" /\ stmt = "init" /\ last < MaxCommands
    /\ \E response \in Simple : Command(response, "prepare", FALSE, Detached)

(***************************************************************************)
(* Reading.  Flags is what a packet with a status does to the handle.      *)
(***************************************************************************)
Flags(m, p) == [m EXCEPT !.more = p.more, !.trans = p.trans]

Cancelled(m) ==
    IF m.owner = None THEN res ELSE [res EXCEPT ![m.owner].cancelled = TRUE]

(* The end of a call that read packet by packet: it returns an error, or   *)
(* it was discarding rows (mysql_free_result returns nothing,              *)
(* mysql_stmt_close goes on) and has told nobody.                          *)
Failed(m) ==
    /\ mysql' = m /\ pc' = "idle"
    /\ lost' = (lost /\ wire # <<>>)
    /\ UNCHANGED res

Flushed(m, l) ==
    /\ mysql' = [m EXCEPT !.status = "READY"]
    /\ res' = Cancelled(m)
    /\ pc' = IF pc = "free_rows" THEN "idle" ELSE "close"
    /\ lost' = l

Reading == {"reply", "simple", "prepare", "fields", "rows"}

Flushing == {"free_rows", "close_rows", "close_next", "close_fields"}

Aborted(m, l) == IF pc \in Reading THEN Failed(m) ELSE Flushed(m, l)

(* cli_safe_read finds no packet and calls end_server, or finds an error.  *)
ReadError ==
    /\ pc \in Reading \cup Flushing
    /\ IF wire = <<>>
         THEN /\ conn # "up"
              /\ conn' = "none" /\ wire' = <<>>
              /\ Aborted([mysql EXCEPT !.fields = FALSE], lost \/ mysql.trans)
         ELSE /\ Head(wire).kind = "ERR"
              /\ wire' = Tail(wire) /\ conn' = conn
              /\ Aborted([mysql EXCEPT !.more = FALSE], lost)
    /\ UNCHANGED <<reconnect, stmt, last, breaks, srvTrans>>

(* A packet of one of the kinds is read at label l.                        *)
Read(l, kinds) ==
    /\ pc = l
    /\ wire # <<>> /\ Head(wire).kind \in kinds
    /\ wire' = Tail(wire)
    /\ UNCHANGED <<reconnect, conn, last, breaks, srvTrans>>

(* cli_read_query_result, and the fields that follow a SET.                *)
ReadReply ==
    /\ Read("reply", {"OK", "SET"})
    /\ LET p == Head(wire)
           m == [mysql EXCEPT !.fields = FALSE]
       IN IF p.kind = "OK" THEN mysql' = Flags(m, p) /\ pc' = "idle"
                           ELSE mysql' = m /\ pc' = "fields"
    /\ UNCHANGED <<stmt, res, lost>>

ReadFields ==
    /\ Read("fields", {"EOF"})
    /\ mysql' = [Flags(mysql, Head(wire)) EXCEPT !.status = "GET",
                                                 !.fields = TRUE]
    /\ pc' = "idle"
    /\ UNCHANGED <<stmt, res, lost>>

(* simple_command of mysql_ping, cli_read_prepare_result: the status in    *)
(* the OK is not looked at.                                                *)
ReadSimple ==
    /\ \/ Read("simple", {"OK"}) /\ stmt' = stmt
       \/ Read("prepare", {"OK"}) /\ stmt' = "prepared"
    /\ pc' = "idle"
    /\ UNCHANGED <<mysql, res, lost>>

(***************************************************************************)
(* Results.  A call at the wrong time fails and changes nothing: it is not *)
(* an action here.                                                         *)
(***************************************************************************)
mysql_store_result ==
    /\ pc = "idle" /\ mysql.fields /\ mysql.status = "GET"
    /\ mysql' = [mysql EXCEPT !.status = "READY"]
    /\ pc' = "rows"
    /\ UNCHANGED <<reconnect, conn, wire, stmt, res, last, breaks, srvTrans,
                   lost>>

ReadRows ==
    /\ Read("rows", {"ROW", "EOF"})
    /\ IF Head(wire).kind = "ROW"
         THEN UNCHANGED <<mysql, pc>>
         ELSE /\ mysql' = [Flags(mysql, Head(wire)) EXCEPT !.fields = FALSE,
                                                          !.owner = None]
              /\ pc' = "idle"
    /\ UNCHANGED <<stmt, res, lost>>

mysql_use_result ==
    /\ pc = "idle" /\ mysql.fields /\ mysql.status = "GET"
    /\ \E r \in Results :
          /\ res[r] = None
          /\ res' = [res EXCEPT ![r] = [q |-> last, cancelled |-> FALSE]]
          /\ mysql' = [mysql EXCEPT !.status = "USE", !.fields = FALSE,
                                    !.owner = r]
    /\ UNCHANGED <<reconnect, conn, wire, stmt, pc, last, breaks, srvTrans,
                   lost>>

Disowned(m, r) == IF m.owner = r THEN [m EXCEPT !.owner = None] ELSE m

(* The rest of mysql_fetch_row when no row came: the result is done with.  *)
Done(r, m) ==
    /\ mysql' = Disowned([m EXCEPT !.status = "READY"], r)
    /\ res' = [res EXCEPT ![r] = None]

(* The code does not ask whose rows are pending.  A result discarded by    *)
(* mysql_stmt_close, or read to its end through another, takes a row of    *)
(* the one pending for its own, and if that does not parse with its number *)
(* of columns, or nobody fetches yet, it sets the status to READY with the *)
(* rows still to come.                                                     *)
mysql_fetch_row(r) ==
    /\ pc = "idle" /\ res[r] # None
    /\ \/ /\ mysql.status # "USE"
          /\ Done(r, mysql)
          /\ orphaned' = (mysql.status = "GET")
          /\ UNCHANGED <<conn, wire, lost>>
       \/ /\ mysql.status = "USE" /\ wire = <<>>
          /\ conn # "up"
          /\ conn' = "none" /\ wire' = <<>>
          /\ Done(r, [mysql EXCEPT !.fields = FALSE])
          /\ lost' = FALSE
          /\ UNCHANGED orphaned
       \/ /\ mysql.status = "USE" /\ wire # <<>>
          /\ wire' = Tail(wire)
          /\ LET p == Head(wire) IN
             \/ /\ p.kind = "ROW"
                /\ UNCHANGED <<mysql, res, orphaned>>
             \/ /\ p.kind = "ROW" /\ r # mysql.owner
                /\ Done(r, mysql) /\ orphaned' = TRUE
             \/ /\ p.kind = "EOF"
                /\ Done(r, Flags(mysql, p)) /\ UNCHANGED orphaned
             \/ /\ p.kind = "ERR"
                /\ Done(r, [mysql EXCEPT !.more = FALSE])
                /\ UNCHANGED orphaned
          /\ UNCHANGED <<conn, lost>>
    /\ UNCHANGED <<reconnect, stmt, pc, last, breaks, srvTrans>>

mysql_free_result(r) ==
    /\ pc = "idle" /\ res[r] # None
    /\ res' = [res EXCEPT ![r] = None]
    /\ mysql' = Disowned(mysql, r)
    /\ pc' = IF mysql.status = "USE" THEN "free_rows" ELSE "idle"
    /\ UNCHANGED <<reconnect, conn, wire, stmt, last, breaks, srvTrans, lost>>

(* flush_one_result for mysql_free_result: the rows up to EOF.             *)
FreeRows ==
    /\ Read("free_rows", {"ROW", "EOF"})
    /\ IF Head(wire).kind = "ROW" THEN UNCHANGED <<mysql, res, pc, lost>>
                                  ELSE Flushed(Flags(mysql, Head(wire)), lost)
    /\ UNCHANGED stmt

mysql_next_result ==
    /\ pc = "idle" /\ mysql.status = "READY" /\ mysql.more
    /\ pc' = "reply"
    /\ UNCHANGED <<mysql, reconnect, conn, wire, stmt, res, last, breaks,
                   srvTrans, lost>>

(***************************************************************************)
(* mysql_stmt_close: the statement leaves mysql->stmts, a result that is   *)
(* pending is flushed, whoever owns it, and COM_STMT_CLOSE is sent, which  *)
(* has no answer.                                                          *)
(***************************************************************************)
mysql_stmt_close ==
    /\ pc = "idle" /\ stmt # "init"
    /\ stmt' = "init"
    /\ pc' = IF stmt = "detached" THEN "idle"
             ELSE IF mysql.status # "READY" THEN "close_rows" ELSE "close"
    /\ UNCHANGED <<mysql, reconnect, conn, wire, res, last, breaks, srvTrans,
                   lost>>

(* flush_one_result, then in cli_flush_use_result the results that follow, *)
(* up to the first OK.                                                     *)
CloseRows ==
    /\ Read("close_rows", {"ROW", "EOF"})
    /\ LET p == Head(wire) IN
       IF p.kind = "ROW" THEN UNCHANGED <<mysql, res, pc, lost>>
       ELSE IF p.more THEN /\ mysql' = Flags(mysql, p) /\ pc' = "close_next"
                           /\ UNCHANGED <<res, lost>>
       ELSE Flushed(Flags(mysql, p), lost)
    /\ UNCHANGED stmt

CloseNext ==
    /\ Read("close_next", {"OK", "SET"})
    /\ LET p == Head(wire) IN
       IF p.kind = "OK" THEN Flushed(Flags(mysql, p), lost)
                        ELSE pc' = "close_fields" /\ UNCHANGED <<mysql, res, lost>>
    /\ UNCHANGED stmt

CloseFields ==
    /\ Read("close_fields", {"EOF"})
    /\ mysql' = Flags(mysql, Head(wire))
    /\ pc' = "close_rows"
    /\ UNCHANGED <<stmt, res, lost>>

CloseSend ==
    /\ pc = "close"
    /\ Command(<<>>, "idle", TRUE, stmt)

(***************************************************************************)
(* The end.                                                                *)
(***************************************************************************)
mysql_close ==
    /\ pc = "idle"
    /\ pc' = "closed"
    /\ conn' = "none" /\ wire' = <<>> /\ srvTrans' = FALSE /\ lost' = FALSE
    /\ mysql' = IF conn = "none" THEN mysql
                ELSE [mysql EXCEPT !.status = "READY", !.fields = FALSE]
    /\ stmt' = "detached"
    /\ reconnect' = (reconnect /\ conn = "none")
    /\ UNCHANGED <<res, last, breaks>>

(* After a call that orphans rows the next one reads them as the answer to *)
(* something else: the model stops there.                                  *)
Terminating == (pc = "closed" \/ orphaned) /\ UNCHANGED vars

Call ==
    \/ Break
    \/ mysql_real_query \/ mysql_ping \/ mysql_stmt_prepare
    \/ ReadError \/ ReadReply \/ ReadFields \/ ReadSimple
    \/ mysql_store_result \/ ReadRows \/ mysql_use_result
    \/ \E r \in Results : mysql_free_result(r)
    \/ FreeRows \/ mysql_next_result
    \/ mysql_stmt_close \/ CloseRows \/ CloseNext \/ CloseFields \/ CloseSend
    \/ mysql_close

Next ==
    \/ ~orphaned /\ Call /\ UNCHANGED orphaned
    \/ ~orphaned /\ \E r \in Results : mysql_fetch_row(r)
    \/ Terminating

Spec == Init /\ [][Next]_vars

-----------------------------------------------------------------------------

(* Types.                                                                  *)
TypeOK ==
    /\ mysql \in [status : {"READY", "GET", "USE"}, more : BOOLEAN,
                  trans : BOOLEAN, fields : BOOLEAN, owner : Results \cup {None}]
    /\ conn \in {"none", "up", "broken"}
    /\ stmt \in {"init", "prepared", "detached"}
    /\ pc \in Reading \cup Flushing \cup {"idle", "close", "closed"}
    /\ {reconnect, srvTrans, lost, orphaned} \subseteq BOOLEAN

(* The packets that may come next, as far as the handle knows.             *)
InRows == {"ROW", "EOF", "ERR"}

Expected ==
    CASE pc \in {"reply", "close_next"}              -> {"OK", "SET", "ERR"}
      [] pc \in {"simple", "prepare"}                -> {"OK", "ERR"}
      [] pc \in {"fields", "close_fields"}           -> {"EOF", "ERR"}
      [] pc \in {"rows", "free_rows", "close_rows"}  -> InRows
      [] pc \in {"idle", "close"} /\ mysql.status # "READY" -> InRows
      [] pc \in {"idle", "close"} /\ mysql.status = "READY" /\ mysql.more
                                             -> {"OK", "SET", "ERR"}
      [] OTHER                               -> {}

(* What the handle takes to be on the wire is there, after results were    *)
(* discarded and sessions lost, as long as no row was fetched in vain from *)
(* a discarded result while another was pending: the next packet is of a   *)
(* kind the client is about to read and answers the last command, one is   *)
(* there whenever the client would wait for one, nothing is left over when *)
(* a command may be sent, and then the IN_TRANS bit is the server's; rows  *)
(* are pending only for a result the application can still store, or for   *)
(* the unbuffered result the handle points to, not cancelled.  That fetch  *)
(* gives up the rows of the other result in silence: the comment in        *)
(* mysql_fetch_row expects a new query "after mysql_stmt_close()" and      *)
(* spares its unbuffered_fetch_owner, but not its status.  Always,         *)
(* unbuffered_fetch_owner, which is written through, does not point into a *)
(* result that was freed (cli_advanced_command, cli_safe_read,             *)
(* cli_flush_use_result, mysql_fetch_row, mysql_free_result).              *)
InSync ==
    /\ TypeOK
    /\ mysql.owner # None => res[mysql.owner] # None
    /\ ~orphaned =>
         /\ wire # <<>> => /\ Head(wire).kind \in Expected
                           /\ \A i \in 1..Len(wire) : wire[i].q = last
         /\ conn = "up" /\ Expected # {} => wire # <<>>
         /\ conn = "up" /\ pc = "idle" /\ Expected = {} => mysql.trans = srvTrans
         /\ mysql.status # "READY" /\ pc = "idle" => conn # "none"
         /\ mysql.status = "GET" /\ pc = "idle" => mysql.fields
         /\ mysql.status = "USE" /\ pc = "idle" =>
               /\ mysql.owner # None
               /\ res[mysql.owner] = [q |-> last, cancelled |-> FALSE]

(* A session is not replaced by a new one while a transaction the handle   *)
(* knew of (its IN_TRANS bit) is lost with it and no call has returned     *)
(* CR_SERVER_LOST or CR_SERVER_GONE_ERROR, even if the loss was noticed by *)
(* mysql_free_result, which returns nothing (mysql_reconnect).  A          *)
(* transaction opened by a result of a multi-statement that was not read   *)
(* yet is not known, and is lost in silence.                               *)
NoSilentLoss == conn = "up" => ~lost
=============================================================================
