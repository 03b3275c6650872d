------------------------------- MODULE RawDb -------------------------------
(***************************************************************************)
(* The raw client's requests, its credentials and the interfaces over it.  *)
(* raw::db_utf8, api::simple_db and a query handle of the C interface have *)
(* one raw client, "db".  async_api::simple_db, and so an async handle,    *)
(* inserts with "db" from a thread of its loop, and has in simpledb a      *)
(* second one, "simpledb", for create() and drop().                        *)
(*                                                                         *)
(* An owner thread sets the credentials and makes calls; request_from()    *)
(* reads the two strings while they may be being assigned.                 *)
(***************************************************************************)
EXTENDS Integers, Sequences, FiniteSets

CONSTANTS
  Accounts,   \* the server's accounts: [username, password] records
  Pairs,      \* what with_authentication() is called with
  MaxCalls,   \* bound: calls
  MaxSets     \* bound: calls of with_authentication()

Clients == {"db", "simpledb"}

\* A string read while it is assigned: neither the old nor the new value.
Torn == "torn"
Anonymous == [username |-> "", password |-> ""]

\* The strings that occur, and the pairs of them.
Strings == {"", Torn} \union UNION {{pair.username, pair.password} : pair \in Pairs}
Credentials == [username : Strings, password : Strings]

ASSUME ConstantsAssumption ==
  /\ Pairs \subseteq Credentials
  /\ MaxCalls \in Nat /\ MaxSets \in Nat

VARIABLES
  interface,            \* which one the owner uses
  handle,               \* "none" until the owner has it, then "live"
  username, password,   \* of each raw client
  setter,               \* with_authentication(): where it is, its arguments
  calls,                \* the calls, in the order they began
  exists,               \* the server has the database
  applied,              \* the calls it has carried out, in order
  configured, sets      \* history: the last pair set, and how many were

credVars == <<username, password, setter, configured, sets>>
serverVars == <<exists, applied>>
vars == <<interface, handle, credVars, calls, serverVars>>

-----------------------------------------------------------------------------

\* A handle of the C interface gets its credentials in new_auth() or never.
OfC == interface \in {"c_async", "c_query"}

Init ==
  /\ interface \in {"simple_db", "async", "c_async", "c_query"}
  /\ handle = IF OfC THEN "none" ELSE "live"
  /\ username = [c \in Clients |-> ""] /\ password = [c \in Clients |-> ""]
  /\ setter = [pc |-> "idle", pair |-> Anonymous]
  /\ calls = <<>>
  /\ exists \in BOOLEAN /\ applied = <<>>
  /\ configured = Anonymous /\ sets = 0

ClientOf(op) ==
  IF op \in {"create", "drop"} /\ interface \in {"async", "c_async"} THEN "simpledb" ELSE "db"

\* Who calls what: simple_db stands for db_utf8, too, which has get().
SimpleDbOps == {"create", "drop", "insert", "get"}
AsyncOps == {"create", "drop"}
QueryOps == {"get"}

Ops(t) ==
  IF t = "loop" THEN (IF interface \in {"async", "c_async"} THEN {"insert"} ELSE {})
  ELSE CASE interface = "simple_db" -> SimpleDbOps
         [] interface = "c_query" -> QueryOps
         [] OTHER -> AsyncOps

Over == {"returned", "threw"}
Building == {"username", "password"}
Busy(t) == \E i \in DOMAIN calls : calls[i].by = t /\ calls[i].pc \notin Over

\* influx_c_rest_async_new(), influx_c_rest_query_new(); an exception of the
\* constructor returns a null pointer, and there is no handle.
new ==
  /\ handle = "none" /\ setter.pc = "idle"
  /\ handle' = "live"
  /\ UNCHANGED <<interface, credVars, calls, serverVars>>

\* with_authentication(): this->username = username; this->password = password
BeginSet(pair) ==
  /\ sets < MaxSets /\ setter.pc = "idle" /\ ~Busy("owner")
  /\ handle = (IF OfC THEN "none" ELSE "live")
  /\ setter' = [pc |-> "username", pair |-> pair] /\ sets' = sets + 1
  /\ calls' = [i \in DOMAIN calls |->
                 [calls[i] EXCEPT !.overlap = @ \/ calls[i].pc \in Building]]
  /\ UNCHANGED <<username, password, configured, serverVars, handle, interface>>

SetUsername ==
  /\ setter.pc = "username"
  /\ username' = [username EXCEPT !["db"] = setter.pair.username]
  /\ setter' = [setter EXCEPT !.pc = "password"]
  /\ UNCHANGED <<password, configured, sets, calls, serverVars, handle, interface>>

\* Mutant: the password is left as it was.
SetNoPassword ==
  /\ setter.pc = "password"
  /\ setter' = [setter EXCEPT !.pc = "idle"] /\ configured' = setter.pair
  /\ handle' = "live"
  /\ UNCHANGED <<username, password, sets, calls, serverVars, interface>>

SetPassword ==
  /\ setter.pc = "password"
  /\ password' = [password EXCEPT !["db"] = setter.pair.password]
  /\ setter' = [setter EXCEPT !.pc = "idle"] /\ configured' = setter.pair
  /\ handle' = "live"
  /\ UNCHANGED <<username, sets, calls, serverVars, interface>>

\* What a read of a string returns, the other thread perhaps assigning it.
Reads(client, field, value) ==
  IF client = "db" /\ setter.pc = field THEN {value, setter.pair[field], Torn} ELSE {value}

Begin(t, op) ==
  /\ handle = "live" /\ Len(calls) < MaxCalls /\ ~Busy(t) /\ (t = "owner" => setter.pc = "idle")
  /\ calls' = Append(calls, [by |-> t, op |-> op, pc |-> "username", status |-> 0,
                             header |-> Anonymous, since |-> configured,
                             overlap |-> setter.pc # "idle"])
  /\ UNCHANGED <<credVars, serverVars, handle, interface>>

\* post(), get() and insert() go through request_from(): username.empty(), then
\* username + ":" + password.  client.request() takes the request, and the thread
\* blocks in response.wait().
ReadUsername(i) ==
  LET client == ClientOf(calls[i].op)
      read == Reads(client, "username", username[client])
  IN /\ calls[i].pc = "username"
     /\ \E seen \in read, user \in read :
          calls' = [calls EXCEPT ![i] =
            IF seen = "" THEN [@ EXCEPT !.pc = "wait"]
            ELSE [@ EXCEPT !.header.username = user, !.pc = "password"]]
     /\ UNCHANGED <<credVars, serverVars, handle, interface>>

ReadPassword(i) ==
  LET client == ClientOf(calls[i].op)
  IN /\ calls[i].pc = "password"
     /\ \E word \in Reads(client, "password", password[client]) :
          calls' = [calls EXCEPT ![i].header.password = word, ![i].pc = "wait"]
     /\ UNCHANGED <<credVars, serverVars, handle, interface>>

Status(call) ==
  IF call.header \notin Accounts THEN 401
  ELSE IF call.op # "insert" THEN 200
  ELSE IF exists THEN 204 ELSE 404

\* The server answers a request, which its sender may have given up.
Serve(i) ==
  /\ calls[i].pc \in {"wait"} \cup Over /\ calls[i].status = 0
  /\ calls' = [calls EXCEPT ![i].status = Status(calls[i])]
  /\ applied' = IF Status(calls[i]) < 300 THEN Append(applied, i) ELSE applied
  /\ exists' = IF Status(calls[i]) = 401 \/ calls[i].op \notin {"create", "drop"} THEN exists
               ELSE calls[i].op = "create"
  /\ UNCHANGED <<credVars, handle, interface>>

\* The statuses an operation returns for: all others are thrown.
Accepted(op) == IF op = "insert" THEN {200, 204} ELSE {200}

\* Mutant: the status is not looked at.
FinishUnchecked(i) ==
  /\ calls[i].pc = "wait" /\ calls[i].status # 0
  /\ calls' = [calls EXCEPT ![i].pc = "returned"]
  /\ UNCHANGED <<credVars, serverVars, handle, interface>>

Finish(i) ==
  /\ calls[i].pc = "wait" /\ calls[i].status # 0
  /\ calls' = [calls EXCEPT ![i].pc =
       IF calls[i].status \in Accepted(calls[i].op) THEN "returned" ELSE "threw"]
  /\ UNCHANGED <<credVars, serverVars, handle, interface>>

\* No answer in time, or no connection: wait() throws, and the exception is
\* rethrown as a runtime_error.
GiveUp(i) ==
  /\ calls[i].pc = "wait"
  /\ calls' = [calls EXCEPT ![i].pc = "threw"]
  /\ UNCHANGED <<credVars, serverVars, handle, interface>>

Next ==
  \/ new
  \/ \E pair \in Pairs : BeginSet(pair)
  \/ SetUsername \/ SetPassword
  \/ \E t \in {"owner", "loop"} : \E op \in Ops(t) : Begin(t, op)
  \/ \E i \in DOMAIN calls :
       \/ ReadUsername(i) \/ ReadPassword(i)
       \/ Serve(i) \/ Finish(i) \/ GiveUp(i)

Spec == Init /\ [][Next]_vars

-----------------------------------------------------------------------------
(* Properties *)

Built(call) == call.pc \notin Building

\* A pair without a username is not sent: request_from() tests username.empty().
Sent(pair) == IF pair.username = "" THEN Anonymous ELSE pair

\* with_authentication(): a request of the client that was given a pair, and that
\* was not built while one was being set, carries the last pair set, whole.
CarriesCredentials ==
  \A i \in DOMAIN calls :
    Built(calls[i]) /\ ~calls[i].overlap /\ ClientOf(calls[i].op) = "db" =>
      calls[i].header = Sent(calls[i].since)

\* The same of every operation of the interface, create() and drop() among them.
AllAuthenticated ==
  \A i \in DOMAIN calls :
    Built(calls[i]) /\ ~calls[i].overlap => calls[i].header = Sent(calls[i].since)

\* An operation that returns has been carried out, once, and before whatever the
\* same thread calls later, although requests that were given up may be carried
\* out at any time after.
AppliedInCallOrder ==
  \A i \in DOMAIN calls : calls[i].pc = "returned" =>
    \E k \in DOMAIN applied :
      /\ applied[k] = i
      /\ \A m \in DOMAIN applied \ {k} : applied[m] # i
      /\ \A m \in 1..k : calls[applied[m]].by = calls[i].by => applied[m] <= i

=============================================================================
