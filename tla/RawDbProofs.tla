----------------------------- MODULE RawDbProofs -----------------------------
(***************************************************************************)
(* Theorems about the raw client's credentials and the order of its calls, *)
(* for every set of pairs and accounts and every number of calls.          *)
(***************************************************************************)
EXTENDS RawDb, TLAPS

USE DEF credVars, serverVars

Threads == {"owner", "loop"}
Operations == {"create", "drop", "insert", "get"}
Places == {"username", "password", "wait", "returned", "threw"}

Call == [by : Threads, op : Operations, pc : Places, status : Nat,
         header : Credentials, since : Credentials, overlap : BOOLEAN]

\* The types of the variables.
TypeOK ==
  /\ interface \in {"simple_db", "async", "c_async", "c_query"}
  /\ handle \in {"none", "live"}
  /\ username \in [Clients -> Strings] /\ password \in [Clients -> Strings]
  /\ setter \in [pc : {"idle", "username", "password"}, pair : Credentials]
  /\ calls \in Seq(Call)
  /\ exists \in BOOLEAN /\ applied \in Seq(Nat)
  /\ configured \in Credentials /\ sets \in Nat

-----------------------------------------------------------------------------
(* How the steps change the calls *)

\* What is sent while only the username has been read.
NameOnly(pair) == [username |-> pair.username, password |-> ""]

LEMMA NamesOnly ==
  /\ Anonymous.password = ""
  /\ \A pair : NameOnly(pair).username = pair.username
  BY DEF Anonymous, NameOnly

LEMMA AnonymousType == Anonymous \in Credentials
<1>1. "" \in Strings
  BY DEF Strings
<1> QED
  BY <1>1 DEF Anonymous, Credentials

\* A string read while it is assigned is one of those that occur.
LEMMA ReadsType ==
  ASSUME TypeOK, NEW client \in Clients
  PROVE  /\ Reads(client, "username", username[client]) \subseteq Strings
         /\ Reads(client, "password", password[client]) \subseteq Strings
<1>1. Torn \in Strings
  BY DEF Strings
<1>2. username[client] \in Strings /\ password[client] \in Strings
  BY DEF TypeOK
<1>3. setter.pair["username"] \in Strings /\ setter.pair["password"] \in Strings
  BY DEF TypeOK, Credentials
<1> QED
  BY <1>1, <1>2, <1>3 DEF Reads

\* A step of one call changes that call and no other.
LEMMA UpdateCall ==
  ASSUME calls \in Seq(Call), NEW i \in DOMAIN calls, NEW c \in Call,
         calls' = [calls EXCEPT ![i] = c]
  PROVE  /\ calls' \in Seq(Call)
         /\ DOMAIN calls' = DOMAIN calls
         /\ calls'[i] = c
         /\ \A j \in DOMAIN calls \ {i} : calls'[j] = calls[j]
  OBVIOUS

\* What the steps of a call leave as it is.
Keeps(c, d) ==
  /\ d.by = c.by /\ d.op = c.op /\ d.since = c.since /\ d.overlap = c.overlap

\* request_from() has read username.empty() and perhaps the username.
LEMMA ReadUsernameStep ==
  ASSUME TypeOK, NEW i \in DOMAIN calls, ReadUsername(i)
  PROVE  /\ calls' \in Seq(Call) /\ DOMAIN calls' = DOMAIN calls
         /\ \A j \in DOMAIN calls \ {i} : calls'[j] = calls[j]
         /\ calls[i].pc = "username" /\ Keeps(calls[i], calls'[i])
         /\ calls'[i].status = calls[i].status
         /\ LET client == ClientOf(calls[i].op)
                read == Reads(client, "username", username[client])
            IN \E seen, user \in read :
                 \/ /\ seen = "" /\ calls'[i].pc = "wait"
                    /\ calls'[i].header = calls[i].header
                 \/ /\ seen # "" /\ calls'[i].pc = "password"
                    /\ calls'[i].header = [username |-> user, password |-> calls[i].header.password]
<1> DEFINE client == ClientOf(calls[i].op)
           read == Reads(client, "username", username[client])
<1>1. calls \in Seq(Call) /\ calls[i] \in Call
  BY DEF TypeOK
<1>2. client \in Clients
  BY DEF ClientOf, Clients
<1>3. read \subseteq Strings
  BY <1>2, ReadsType
<1>4. PICK seen \in read, user \in read :
        calls' = [calls EXCEPT ![i] =
                    IF seen = "" THEN [calls[i] EXCEPT !.pc = "wait"]
                    ELSE [calls[i] EXCEPT !.header.username = user, !.pc = "password"]]
  BY DEF ReadUsername
<1>5. user \in Strings
  BY <1>3
<1>6. calls[i].pc = "username"
  BY DEF ReadUsername
<1> HIDE DEF read, client
<1>7. CASE seen = ""
  <2> DEFINE c == [calls[i] EXCEPT !.pc = "wait"]
  <2>1. c \in Call /\ Keeps(calls[i], c) /\ c.status = calls[i].status
        /\ c.pc = "wait" /\ c.header = calls[i].header
    BY <1>1 DEF Call, Places, Keeps
  <2>2. calls' = [calls EXCEPT ![i] = c]
    BY <1>4, <1>7
  <2> HIDE DEF c
  <2> QED
    BY <1>1, <1>6, <1>7, <2>1, <2>2, UpdateCall DEF read, client
<1>8. CASE seen # ""
  <2> DEFINE h == [calls[i].header EXCEPT !.username = user]
             c == [calls[i] EXCEPT !.header = h, !.pc = "password"]
  <2>1. h \in Credentials /\ h = [username |-> user, password |-> calls[i].header.password]
    <3>1. calls[i].header \in Credentials
      BY <1>1 DEF Call
    <3> QED
      BY <1>5, <3>1 DEF Credentials
  <2>2. calls' = [calls EXCEPT ![i] = c]
    BY <1>4, <1>8
  <2> HIDE DEF h
  <2>3. c \in Call /\ Keeps(calls[i], c) /\ c.status = calls[i].status
        /\ c.pc = "password" /\ c.header = h
    BY <1>1, <2>1 DEF Call, Places, Keeps
  <2> HIDE DEF c
  <2>4. /\ calls' \in Seq(Call) /\ DOMAIN calls' = DOMAIN calls
        /\ \A j \in DOMAIN calls \ {i} : calls'[j] = calls[j]
        /\ calls'[i] = c
    BY <1>1, <2>2, <2>3, UpdateCall
  <2>5. seen # "" /\ calls'[i].pc = "password"
        /\ calls'[i].header = [username |-> user, password |-> calls[i].header.password]
    BY <1>8, <2>1, <2>3, <2>4
  <2> QED
    BY <1>6, <2>3, <2>4, <2>5 DEF read, client
<1> QED
  BY <1>7, <1>8

LEMMA ReadPasswordStep ==
  ASSUME TypeOK, NEW i \in DOMAIN calls, ReadPassword(i)
  PROVE  /\ calls' \in Seq(Call) /\ DOMAIN calls' = DOMAIN calls
         /\ \A j \in DOMAIN calls \ {i} : calls'[j] = calls[j]
         /\ calls[i].pc = "password" /\ Keeps(calls[i], calls'[i])
         /\ calls'[i].status = calls[i].status /\ calls'[i].pc = "wait"
         /\ LET client == ClientOf(calls[i].op)
            IN \E word \in Reads(client, "password", password[client]) :
                 calls'[i].header = [username |-> calls[i].header.username, password |-> word]
<1> DEFINE client == ClientOf(calls[i].op)
           read == Reads(client, "password", password[client])
<1>1. calls \in Seq(Call) /\ calls[i] \in Call
  BY DEF TypeOK
<1>2. client \in Clients
  BY DEF ClientOf, Clients
<1>3. read \subseteq Strings
  BY <1>2, ReadsType
<1>4. PICK word \in read : calls' = [calls EXCEPT ![i].header.password = word, ![i].pc = "wait"]
  BY DEF ReadPassword
<1>5. word \in Strings
  BY <1>3
<1>6. calls[i].pc = "password"
  BY DEF ReadPassword
<1> HIDE DEF read, client
<1> DEFINE h == [calls[i].header EXCEPT !.password = word]
           c == [calls[i] EXCEPT !.header = h, !.pc = "wait"]
<1>7. h \in Credentials /\ h = [username |-> calls[i].header.username, password |-> word]
  <2>1. calls[i].header \in Credentials
    BY <1>1 DEF Call
  <2> QED
    BY <1>5, <2>1 DEF Credentials
<1>8. calls' = [calls EXCEPT ![i] = c]
  BY <1>1, <1>4
<1> HIDE DEF h
<1>9. c \in Call /\ Keeps(calls[i], c) /\ c.status = calls[i].status
      /\ c.pc = "wait" /\ c.header = h
  BY <1>1, <1>7 DEF Call, Places, Keeps
<1> HIDE DEF c
<1> QED
  BY <1>1, <1>6, <1>7, <1>8, <1>9, UpdateCall DEF read, client

\* The server's answer.
LEMMA ServeStep ==
  ASSUME TypeOK, NEW i \in DOMAIN calls, Serve(i)
  PROVE  /\ calls' \in Seq(Call) /\ DOMAIN calls' = DOMAIN calls
         /\ \A j \in DOMAIN calls \ {i} : calls'[j] = calls[j]
         /\ calls[i].pc \in {"wait"} \union Over /\ calls[i].status = 0
         /\ Keeps(calls[i], calls'[i])
         /\ calls'[i].pc = calls[i].pc /\ calls'[i].header = calls[i].header
         /\ calls'[i].status \in {200, 204, 401, 404}
         /\ applied' = IF calls'[i].status \in {200, 204} THEN Append(applied, i) ELSE applied
<1> DEFINE n == Status(calls[i])
           c == [calls[i] EXCEPT !.status = n]
<1>1. calls \in Seq(Call) /\ calls[i] \in Call
  BY DEF TypeOK
<1>2. n \in {200, 204, 401, 404}
  BY DEF Status
<1>3. calls' = [calls EXCEPT ![i] = c] /\ applied' = IF n < 300 THEN Append(applied, i) ELSE applied
  BY DEF Serve
<1> HIDE DEF n
<1>4. c \in Call /\ Keeps(calls[i], c) /\ c.pc = calls[i].pc /\ c.header = calls[i].header
      /\ c.status = n
  BY <1>1, <1>2 DEF Call, Keeps
<1> HIDE DEF c
<1>5. n < 300 <=> n \in {200, 204}
  BY <1>2
<1>6. calls[i].pc \in {"wait"} \union Over /\ calls[i].status = 0
  BY DEF Serve
<1>7. /\ calls' \in Seq(Call) /\ DOMAIN calls' = DOMAIN calls
      /\ calls'[i] = c
      /\ \A j \in DOMAIN calls \ {i} : calls'[j] = calls[j]
  BY <1>1, <1>3, <1>4, UpdateCall
<1> QED
  BY <1>2, <1>3, <1>4, <1>5, <1>6, <1>7

\* Returning, or throwing, as a call that was answered or was given up does.
LEMMA EndStep ==
  ASSUME TypeOK, NEW i \in DOMAIN calls, Finish(i) \/ GiveUp(i)
  PROVE  /\ calls' \in Seq(Call) /\ DOMAIN calls' = DOMAIN calls
         /\ \A j \in DOMAIN calls \ {i} : calls'[j] = calls[j]
         /\ calls[i].pc = "wait" /\ Keeps(calls[i], calls'[i])
         /\ calls'[i].status = calls[i].status /\ calls'[i].header = calls[i].header
         /\ calls'[i].pc \in Over
         /\ calls'[i].pc = "returned" => calls[i].status \in {200, 204}
<1>1. calls \in Seq(Call) /\ calls[i] \in Call
  BY DEF TypeOK
<1>2. PICK pc \in Over : /\ calls' = [calls EXCEPT ![i].pc = pc]
                         /\ pc = "returned" => calls[i].status \in {200, 204}
  <2>1. CASE Finish(i)
    BY <2>1 DEF Finish, Over, Accepted
  <2>2. CASE GiveUp(i)
    BY <2>2 DEF GiveUp, Over
  <2> QED
    BY <2>1, <2>2
<1> DEFINE c == [calls[i] EXCEPT !.pc = pc]
<1>3. calls' = [calls EXCEPT ![i] = c]
  BY <1>2
<1>4. c \in Call /\ Keeps(calls[i], c) /\ c.pc = pc /\ c.header = calls[i].header
      /\ c.status = calls[i].status
  BY <1>1, <1>2 DEF Call, Keeps, Places, Over
<1> HIDE DEF c
<1>5. calls[i].pc = "wait"
  BY DEF Finish, GiveUp
<1>6. /\ calls' \in Seq(Call) /\ DOMAIN calls' = DOMAIN calls
      /\ calls'[i] = c
      /\ \A j \in DOMAIN calls \ {i} : calls'[j] = calls[j]
  BY <1>1, <1>3, <1>4, UpdateCall
<1> QED
  BY <1>2, <1>4, <1>5, <1>6

\* A call begins when its thread has no other.
LEMMA BeginStep ==
  ASSUME TypeOK, NEW t \in Threads, NEW op \in Ops(t), Begin(t, op)
  PROVE  /\ calls' \in Seq(Call)
         /\ DOMAIN calls' = DOMAIN calls \union {Len(calls) + 1}
         /\ Len(calls) + 1 \notin DOMAIN calls
         /\ \A j \in DOMAIN calls : calls'[j] = calls[j] /\ j < Len(calls) + 1
         /\ LET c == calls'[Len(calls) + 1]
            IN /\ c.by = t /\ c.pc = "username" /\ c.status = 0
               /\ c.header = Anonymous /\ c.since = configured
               /\ c.overlap = FALSE => setter.pc = "idle"
         /\ \A j \in DOMAIN calls : calls[j].by = t => calls[j].pc \in Over
<1> DEFINE c == [by |-> t, op |-> op, pc |-> "username", status |-> 0,
                 header |-> Anonymous, since |-> configured, overlap |-> setter.pc # "idle"]
<1>1. calls \in Seq(Call) /\ configured \in Credentials
  BY DEF TypeOK
<1>2. op \in Operations
  BY DEF Ops, SimpleDbOps, AsyncOps, QueryOps, Operations
<1>3. (setter.pc # "idle") \in BOOLEAN
  OBVIOUS
<1>4. c \in Call
  BY <1>1, <1>2, <1>3, AnonymousType DEF Call, Places
<1>5. calls' = Append(calls, c)
  BY DEF Begin
<1>6. /\ c.by = t /\ c.pc = "username" /\ c.status = 0
      /\ c.header = Anonymous /\ c.since = configured
      /\ c.overlap = FALSE => setter.pc = "idle"
  OBVIOUS
<1> HIDE DEF c
<1>7. /\ calls' \in Seq(Call)
      /\ DOMAIN calls' = DOMAIN calls \union {Len(calls) + 1}
      /\ Len(calls) + 1 \notin DOMAIN calls
      /\ \A j \in DOMAIN calls : calls'[j] = calls[j] /\ j < Len(calls) + 1
      /\ calls'[Len(calls) + 1] = c
  BY <1>1, <1>4, <1>5
<1>8. \A j \in DOMAIN calls : calls[j].by = t => calls[j].pc \in Over
  BY DEF Begin, Busy
<1> QED
  BY <1>6, <1>7, <1>8

\* Setting a pair marks the calls whose request is being built.
LEMMA BeginSetStep ==
  ASSUME TypeOK, NEW pair \in Pairs, BeginSet(pair)
  PROVE  /\ calls' \in Seq(Call) /\ DOMAIN calls' = DOMAIN calls
         /\ \A j \in DOMAIN calls :
              /\ calls'[j].by = calls[j].by /\ calls'[j].op = calls[j].op
              /\ calls'[j].pc = calls[j].pc /\ calls'[j].status = calls[j].status
              /\ calls'[j].header = calls[j].header /\ calls'[j].since = calls[j].since
              /\ calls'[j].overlap = FALSE =>
                   calls[j].overlap = FALSE /\ calls[j].pc \notin Building
<1> DEFINE marked(j) == [calls[j] EXCEPT !.overlap = calls[j].overlap \/ calls[j].pc \in Building]
<1>1. calls \in Seq(Call) /\ DOMAIN calls = 1 .. Len(calls) /\ Len(calls) \in Nat
  BY DEF TypeOK
<1>2. ASSUME NEW j \in DOMAIN calls
      PROVE  /\ marked(j) \in Call
             /\ marked(j).by = calls[j].by /\ marked(j).op = calls[j].op
             /\ marked(j).pc = calls[j].pc /\ marked(j).status = calls[j].status
             /\ marked(j).header = calls[j].header /\ marked(j).since = calls[j].since
             /\ marked(j).overlap = FALSE =>
                  calls[j].overlap = FALSE /\ calls[j].pc \notin Building
  <2>1. calls[j] \in Call
    BY <1>1
  <2> DEFINE o == calls[j].overlap \/ calls[j].pc \in Building
  <2>2. o \in BOOLEAN /\ (o = FALSE => calls[j].overlap = FALSE /\ calls[j].pc \notin Building)
    BY <2>1 DEF Call
  <2> HIDE DEF o
  <2>3. marked(j) = [calls[j] EXCEPT !.overlap = o]
    BY DEF o
  <2> QED
    BY <2>1, <2>2, <2>3 DEF Call
<1>3. calls' = [j \in DOMAIN calls |-> marked(j)]
  BY DEF BeginSet
<1> HIDE DEF marked
<1>4. DOMAIN calls' = 1 .. Len(calls) /\ \A j \in DOMAIN calls : calls'[j] = marked(j)
  BY <1>1, <1>3
<1>5. calls' \in [1 .. Len(calls) -> Call]
  BY <1>1, <1>2, <1>3
<1>6. calls' \in Seq(Call)
  BY <1>1, <1>5
<1> QED
  BY <1>1, <1>2, <1>4, <1>6

-----------------------------------------------------------------------------
(* Types *)

LEMMA TypeInit == Init => TypeOK
<1> SUFFICES ASSUME Init PROVE TypeOK
  OBVIOUS
<1>1. "" \in Strings
  BY DEF Strings
<1>2. setter \in [pc : {"idle", "username", "password"}, pair : Credentials]
  BY AnonymousType DEF Init
<1>3. calls \in Seq(Call)
  <2>1. calls = <<>>
    BY DEF Init
  <2> QED
    BY <2>1
<1>4. applied \in Seq(Nat)
  <2>1. applied = <<>>
    BY DEF Init
  <2> QED
    BY <2>1
<1> QED
  BY <1>1, <1>2, <1>3, <1>4, AnonymousType DEF Init, TypeOK

\* Which step was taken, and what a call's step leaves alone.
LEMMA Steps ==
  ASSUME [Next]_vars
  PROVE  \/ new
         \/ \E pair \in Pairs : BeginSet(pair)
         \/ SetUsername \/ SetPassword
         \/ \E t \in Threads : \E op \in Ops(t) :
              Begin(t, op) /\ UNCHANGED <<interface, handle, credVars, serverVars>>
         \/ \E i \in DOMAIN calls :
              \/ /\ ReadUsername(i) \/ ReadPassword(i) \/ Finish(i) \/ GiveUp(i)
                 /\ UNCHANGED <<interface, handle, credVars, serverVars>>
              \/ Serve(i) /\ exists' \in {exists, TRUE, FALSE}
                          /\ UNCHANGED <<interface, handle, credVars>>
         \/ UNCHANGED vars
<1>1. CASE \E t \in Threads : \E op \in Ops(t) : Begin(t, op)
  BY <1>1 DEF Begin
<1>2. ASSUME NEW i \in DOMAIN calls, ReadUsername(i) \/ ReadPassword(i) \/ Finish(i) \/ GiveUp(i)
      PROVE  UNCHANGED <<interface, handle, credVars, serverVars>>
  BY <1>2 DEF ReadUsername, ReadPassword, Finish, GiveUp
<1>3. ASSUME NEW i \in DOMAIN calls, Serve(i)
      PROVE  exists' \in {exists, TRUE, FALSE} /\ UNCHANGED <<interface, handle, credVars>>
  BY <1>3 DEF Serve
<1> QED
  BY <1>1, <1>2, <1>3 DEF Next, Threads

LEMMA TypeStep == TypeOK /\ [Next]_vars => TypeOK'
<1> SUFFICES ASSUME TypeOK, [Next]_vars PROVE TypeOK'
  OBVIOUS
<1>1. CASE new
  BY <1>1 DEF new, TypeOK
<1>2. ASSUME NEW pair \in Pairs, BeginSet(pair) PROVE TypeOK'
  <2>1. pair \in Credentials
    BY ConstantsAssumption
  <2>2. setter' \in [pc : {"idle", "username", "password"}, pair : Credentials]
    BY <1>2, <2>1 DEF BeginSet
  <2>3. calls' \in Seq(Call)
    BY <1>2, BeginSetStep
  <2> QED
    BY <1>2, <2>2, <2>3 DEF BeginSet, TypeOK
<1>3. CASE SetUsername
  <2>1. setter' \in [pc : {"idle", "username", "password"}, pair : Credentials]
    BY <1>3 DEF SetUsername, TypeOK
  <2>2. setter.pair.username \in Strings
    BY DEF TypeOK, Credentials
  <2> QED
    BY <1>3, <2>1, <2>2 DEF SetUsername, TypeOK
<1>4. CASE SetPassword
  <2>1. setter' \in [pc : {"idle", "username", "password"}, pair : Credentials]
    BY <1>4 DEF SetPassword, TypeOK
  <2>2. setter.pair.password \in Strings /\ setter.pair \in Credentials
    BY DEF TypeOK, Credentials
  <2> QED
    BY <1>4, <2>1, <2>2 DEF SetPassword, TypeOK
<1>5. ASSUME calls' \in Seq(Call), applied' \in Seq(Nat), exists' \in BOOLEAN,
             UNCHANGED <<interface, handle, credVars>>
      PROVE  TypeOK'
  BY <1>5 DEF TypeOK
<1>6. ASSUME NEW t \in Threads, NEW op \in Ops(t), Begin(t, op) PROVE calls' \in Seq(Call)
  BY <1>6, BeginStep
<1>7. ASSUME NEW i \in DOMAIN calls, ReadUsername(i) \/ ReadPassword(i) \/ Finish(i) \/ GiveUp(i)
      PROVE  calls' \in Seq(Call)
  BY <1>7, ReadUsernameStep, ReadPasswordStep, EndStep
<1>8. ASSUME NEW i \in DOMAIN calls, Serve(i)
      PROVE  calls' \in Seq(Call) /\ applied' \in Seq(Nat)
  <2>1. i \in Nat /\ applied \in Seq(Nat)
    BY DEF TypeOK
  <2>2. Append(applied, i) \in Seq(Nat)
    BY <2>1
  <2>3. calls' \in Seq(Call) /\ (applied' = applied \/ applied' = Append(applied, i))
    BY <1>8, ServeStep
  <2> QED
    BY <2>1, <2>2, <2>3
<1>9. exists \in BOOLEAN /\ applied \in Seq(Nat)
  BY DEF TypeOK
<1>10. CASE UNCHANGED vars
  BY <1>10 DEF vars, TypeOK
<1> QED
  BY <1>1, <1>2, <1>3, <1>4, <1>5, <1>6, <1>7, <1>8, <1>9, <1>10, Steps

LEMMA TypeHolds == Spec => []TypeOK
  BY TypeInit, TypeStep, PTL DEF Spec

-----------------------------------------------------------------------------
(* Credentials *)

\* A request that no setting of a pair has overlapped so far has read that
\* much of the last pair set, which is still the one the client has.
BuiltSoFar(i) ==
  LET c == calls[i]
  IN /\ c.pc = "username" => c.header = Anonymous
     /\ c.overlap = FALSE =>
          /\ c.pc \in Building => setter.pc = "idle" /\ c.since = configured
          /\ ClientOf(c.op) = "db" =>
               /\ c.pc = "password" =>
                    /\ c.since.username # ""
                    /\ c.header = NameOnly(c.since)
               /\ c.pc \notin Building => c.header = Sent(c.since)

CredInv ==
  /\ setter.pc = "idle" =>
       username["db"] = configured.username /\ password["db"] = configured.password
  /\ setter.pc = "password" => username["db"] = setter.pair.username
  /\ \A i \in DOMAIN calls : BuiltSoFar(i)

-----------------------------------------------------------------------------
(* The order of the calls *)

\* The calls of a thread come one after the other; what has returned was
\* answered, and what was answered well is applied.
CallInv ==
  /\ \A i, j \in DOMAIN calls : i < j /\ calls[i].by = calls[j].by => calls[i].pc \in Over
  /\ \A i \in DOMAIN calls :
       /\ calls[i].pc \in Building => calls[i].status = 0
       /\ calls[i].pc = "returned" => calls[i].status \in {200, 204}
       /\ calls[i].status \in {200, 204} => \E k \in DOMAIN applied : applied[k] = i
  /\ \A k \in DOMAIN applied : applied[k] \in DOMAIN calls /\ calls[applied[k]].status # 0
  /\ \A k, m \in DOMAIN applied : applied[k] = applied[m] => k = m

\* Only a call that was given up is applied after a later one of its thread.
LateInv ==
  \A k, m \in DOMAIN applied :
    /\ m < k
    /\ calls[applied[m]].by = calls[applied[k]].by
    /\ calls[applied[k]].pc # "threw"
    => applied[m] < applied[k]

LEMMA CredInit == Init => CredInv
<1> SUFFICES ASSUME Init PROVE CredInv
  OBVIOUS
<1>1. "db" \in Clients
  BY DEF Clients
<1>2. DOMAIN calls = {}
  <2>1. calls = <<>>
    BY DEF Init
  <2> QED
    BY <2>1
<1> QED
  BY <1>1, <1>2 DEF Init, CredInv, Anonymous

\* What BuiltSoFar looks at.
LEMMA BuiltSoFarKept ==
  ASSUME NEW i, BuiltSoFar(i), calls'[i] = calls[i],
         UNCHANGED <<interface, setter, configured>>
  PROVE  BuiltSoFar(i)'
  BY DEF BuiltSoFar, ClientOf

LEMMA CredStep ==
  ASSUME TypeOK, CredInv, [Next]_vars
  PROVE  CredInv'
<1>0. "db" \in Clients
  BY DEF Clients
<1>1. CASE new \/ UNCHANGED vars
  <2>1. UNCHANGED <<interface, credVars, calls>>
    BY <1>1 DEF new, vars
  <2> QED
    BY <2>1, BuiltSoFarKept DEF CredInv
<1>2. ASSUME NEW pair \in Pairs, BeginSet(pair) PROVE CredInv'
  <2>1. setter' = [pc |-> "username", pair |-> pair]
        /\ UNCHANGED <<interface, username, password, configured>>
    BY <1>2 DEF BeginSet
  <2>2. ASSUME NEW i \in DOMAIN calls PROVE BuiltSoFar(i)'
    <3>1. /\ calls'[i].op = calls[i].op
          /\ calls'[i].pc = calls[i].pc
          /\ calls'[i].header = calls[i].header /\ calls'[i].since = calls[i].since
          /\ calls'[i].overlap = FALSE => calls[i].overlap = FALSE /\ calls[i].pc \notin Building
      BY <1>2, BeginSetStep
    <3>2. BuiltSoFar(i)
      BY DEF CredInv
    <3> QED
      BY <2>1, <3>1, <3>2 DEF BuiltSoFar, ClientOf, Building
  <2>3. DOMAIN calls' = DOMAIN calls
    BY <1>2, BeginSetStep
  <2> QED
    BY <2>1, <2>2, <2>3 DEF CredInv
<1>3. CASE SetUsername
  <2>1. /\ setter.pc = "username" /\ setter'.pc = "password" /\ setter'.pair = setter.pair
        /\ username'["db"] = setter.pair.username
        /\ UNCHANGED <<interface, configured, calls>>
    BY <1>0, <1>3 DEF SetUsername, TypeOK
  <2>2. ASSUME NEW i \in DOMAIN calls PROVE BuiltSoFar(i)'
    BY <2>1 DEF CredInv, BuiltSoFar, ClientOf
  <2> QED
    BY <2>1, <2>2 DEF CredInv
<1>4. CASE SetPassword
  <2>1. /\ setter.pc = "password" /\ setter'.pc = "idle" /\ configured' = setter.pair
        /\ password'["db"] = setter.pair.password /\ username' = username
        /\ UNCHANGED <<interface, calls>>
    BY <1>0, <1>4 DEF SetPassword, TypeOK
  <2>2. ASSUME NEW i \in DOMAIN calls PROVE BuiltSoFar(i)'
    BY <2>1 DEF CredInv, BuiltSoFar, ClientOf
  <2> QED
    BY <2>1, <2>2 DEF CredInv
<1>5. ASSUME NEW t \in Threads, NEW op \in Ops(t), Begin(t, op),
             UNCHANGED <<interface, handle, credVars, serverVars>>
      PROVE  CredInv'
  <2>1. PICK k :
        /\ DOMAIN calls' = DOMAIN calls \union {k}
        /\ \A j \in DOMAIN calls : calls'[j] = calls[j]
        /\ calls'[k].pc = "username"
        /\ calls'[k].header = Anonymous /\ calls'[k].since = configured
        /\ calls'[k].overlap = FALSE => setter.pc = "idle"
    BY <1>5, BeginStep
  <2>2. BuiltSoFar(k)'
    <3>1. setter' = setter /\ configured' = configured
      BY <1>5
    <3>2. calls'[k].pc \in Building /\ calls'[k].pc # "password"
      BY <2>1 DEF Building
    <3> QED
      BY <2>1, <3>1, <3>2 DEF BuiltSoFar
  <2>3. ASSUME NEW i \in DOMAIN calls PROVE BuiltSoFar(i)'
    BY <1>5, <2>1, BuiltSoFarKept DEF CredInv
  <2> QED
    BY <1>5, <2>1, <2>2, <2>3 DEF CredInv
<1>6. ASSUME NEW i \in DOMAIN calls, UNCHANGED <<interface, credVars>>,
             DOMAIN calls' = DOMAIN calls, \A j \in DOMAIN calls \ {i} : calls'[j] = calls[j],
             BuiltSoFar(i)'
      PROVE  CredInv'
  <2>1. ASSUME NEW j \in DOMAIN calls PROVE BuiltSoFar(j)'
    <3>1. CASE j # i
      BY <1>6, <3>1, BuiltSoFarKept DEF CredInv
    <3> QED
      BY <1>6, <3>1
  <2> QED
    BY <1>6, <2>1 DEF CredInv
<1>7. ASSUME NEW i \in DOMAIN calls, Serve(i) \/ Finish(i) \/ GiveUp(i),
             UNCHANGED <<interface, handle, credVars>>
      PROVE  CredInv'
  <2>1. /\ Keeps(calls[i], calls'[i]) /\ calls'[i].header = calls[i].header
        /\ calls[i].pc \notin Building /\ calls'[i].pc \notin Building
        /\ DOMAIN calls' = DOMAIN calls /\ \A j \in DOMAIN calls \ {i} : calls'[j] = calls[j]
    BY <1>7, ServeStep, EndStep DEF Building, Over
  <2>2. BuiltSoFar(i)'
    BY <1>7, <2>1 DEF CredInv, BuiltSoFar, Keeps, ClientOf, Building
  <2> QED
    BY <1>6, <1>7, <2>1, <2>2
<1>8. ASSUME NEW i \in DOMAIN calls, ReadUsername(i),
             UNCHANGED <<interface, handle, credVars, serverVars>>
      PROVE  CredInv'
  <2>1. /\ DOMAIN calls' = DOMAIN calls
        /\ \A j \in DOMAIN calls \ {i} : calls'[j] = calls[j]
        /\ calls[i].pc = "username" /\ Keeps(calls[i], calls'[i])
        /\ LET client == ClientOf(calls[i].op)
               read == Reads(client, "username", username[client])
           IN \E seen, user \in read :
                \/ /\ seen = "" /\ calls'[i].pc = "wait"
                   /\ calls'[i].header = calls[i].header
                \/ /\ seen # "" /\ calls'[i].pc = "password"
                   /\ calls'[i].header = [username |-> user, password |-> calls[i].header.password]
    BY <1>8, ReadUsernameStep
  <2>2. BuiltSoFar(i) /\ calls[i].header = Anonymous
    BY <2>1 DEF CredInv, BuiltSoFar
  <2>3. ASSUME calls[i].overlap = FALSE
        PROVE  setter.pc = "idle" /\ calls[i].since = configured
    BY <2>1, <2>2, <2>3 DEF BuiltSoFar, Building
  <2>4. calls'[i].pc \in {"wait", "password"}
    BY <2>1
  <2>5. ASSUME calls[i].overlap = FALSE, ClientOf(calls[i].op) = "db"
        PROVE  \/ /\ configured.username = "" /\ calls'[i].pc = "wait"
                  /\ calls'[i].header = Anonymous
               \/ /\ configured.username # "" /\ calls'[i].pc = "password"
                  /\ calls'[i].header = NameOnly(configured)
    <3>1. username["db"] = configured.username
          /\ Reads("db", "username", username["db"]) = {username["db"]}
      BY <2>3, <2>5 DEF CredInv, Reads
    <3>2. calls[i].header.password = ""
      BY <2>2, NamesOnly
    <3> QED
      BY <2>1, <2>2, <2>5, <3>1, <3>2 DEF NameOnly
  <2>6. BuiltSoFar(i)'
    BY <1>8, <2>1, <2>3, <2>4, <2>5 DEF BuiltSoFar, Keeps, ClientOf, Building, Sent
  <2> QED
    BY <1>6, <1>8, <2>1, <2>6
<1>9. ASSUME NEW i \in DOMAIN calls, ReadPassword(i),
             UNCHANGED <<interface, handle, credVars, serverVars>>
      PROVE  CredInv'
  <2>1. /\ DOMAIN calls' = DOMAIN calls
        /\ \A j \in DOMAIN calls \ {i} : calls'[j] = calls[j]
        /\ calls[i].pc = "password" /\ Keeps(calls[i], calls'[i]) /\ calls'[i].pc = "wait"
        /\ LET client == ClientOf(calls[i].op)
           IN \E word \in Reads(client, "password", password[client]) :
                calls'[i].header = [username |-> calls[i].header.username, password |-> word]
    BY <1>9, ReadPasswordStep
  <2>2. BuiltSoFar(i)
    BY DEF CredInv
  <2>3. ASSUME calls[i].overlap = FALSE, ClientOf(calls[i].op) = "db"
        PROVE  calls'[i].header = Sent(calls[i].since)
    <3>1. /\ setter.pc = "idle" /\ calls[i].since = configured
          /\ configured.username # ""
          /\ calls[i].header = NameOnly(configured)
      BY <2>1, <2>2, <2>3 DEF BuiltSoFar, Building
    <3>2. password["db"] = configured.password
          /\ Reads("db", "password", password["db"]) = {password["db"]}
      BY <3>1 DEF CredInv, Reads
    <3>3. calls'[i].header = [username |-> calls[i].header.username,
                             password |-> configured.password]
      BY <2>1, <2>3, <3>2
    <3>4. configured = [username |-> configured.username, password |-> configured.password]
      BY DEF TypeOK, Credentials
    <3>5. calls[i].header.username = configured.username
      BY <3>1, NamesOnly
    <3>6. calls'[i].header = configured
      BY <3>3, <3>4, <3>5
    <3> QED
      BY <3>1, <3>6 DEF Sent
  <2>4. BuiltSoFar(i)'
    BY <1>9, <2>1, <2>3 DEF BuiltSoFar, Keeps, ClientOf, Building
  <2> QED
    BY <1>6, <1>9, <2>1, <2>4
<1> QED
  BY <1>1, <1>2, <1>3, <1>4, <1>5, <1>7, <1>8, <1>9, Steps

\* A request whose building no with_authentication() overlaps carries the last
\* pair set, whole, however the two threads' steps interleave.
THEOREM CredentialsCarried == Spec => []CarriesCredentials
<1>1. TypeOK /\ CredInv => CarriesCredentials
  <2>1. TypeOK => \A i \in DOMAIN calls : calls[i].overlap \in BOOLEAN
    <3> SUFFICES ASSUME TypeOK, NEW i \in DOMAIN calls PROVE calls[i].overlap \in BOOLEAN
      OBVIOUS
    <3>1. calls[i] \in Call
      BY DEF TypeOK
    <3> QED
      BY <3>1 DEF Call
  <2> QED
    BY <2>1 DEF CredInv, BuiltSoFar, CarriesCredentials, Built
<1> QED
  BY <1>1, CredInit, CredStep, TypeHolds, PTL DEF Spec

-----------------------------------------------------------------------------
(* The order of the calls is kept *)

LEMMA CallInit == Init => CallInv /\ LateInv
<1> SUFFICES ASSUME Init PROVE CallInv /\ LateInv
  OBVIOUS
<1>1. calls = <<>> /\ applied = <<>>
  BY DEF Init
<1>2. DOMAIN calls = {} /\ DOMAIN applied = {}
  BY <1>1
<1> QED
  BY <1>2 DEF CallInv, LateInv

\* Both look at a call's thread, place and status only.
LEMMA CallKept ==
  ASSUME CallInv, LateInv, DOMAIN calls' = DOMAIN calls, UNCHANGED applied,
         \A j \in DOMAIN calls : /\ calls'[j].by = calls[j].by
                                 /\ calls'[j].pc = calls[j].pc
                                 /\ calls'[j].status = calls[j].status
  PROVE  CallInv' /\ LateInv'
  BY DEF CallInv, LateInv

\* A step of call i that keeps its status.
LEMMA CallMoves ==
  ASSUME CallInv, LateInv, NEW i \in DOMAIN calls,
         DOMAIN calls' = DOMAIN calls, UNCHANGED applied,
         \A j \in DOMAIN calls \ {i} : calls'[j] = calls[j],
         calls'[i].by = calls[i].by, calls'[i].status = calls[i].status,
         calls[i].pc \notin Over, calls'[i].pc \in Building => calls[i].pc \in Building,
         calls'[i].pc = "returned" => calls[i].status \in {200, 204}
  PROVE  CallInv' /\ LateInv'
<1>1. "threw" \in Over
  BY DEF Over
<1>2. \A j \in DOMAIN calls : /\ calls'[j].by = calls[j].by
                              /\ calls'[j].status = calls[j].status
                              /\ calls[j].pc \in Over => calls'[j].pc = calls[j].pc
  OBVIOUS
<1>3. \A j \in DOMAIN calls : /\ calls'[j].pc \in Building => calls[j].pc \in Building
                              /\ calls'[j].pc = "returned" => calls[j].status \in {200, 204}
  BY DEF CallInv
<1>4. CallInv'
  BY <1>2, <1>3 DEF CallInv
<1>5. \A j \in DOMAIN calls : calls'[j].pc # "threw" => calls[j].pc # "threw"
  BY <1>1, <1>2
<1>6. LateInv'
  BY <1>2, <1>5 DEF LateInv, CallInv
<1> QED
  BY <1>4, <1>6

LEMMA CallServed ==
  ASSUME TypeOK, CallInv, LateInv, NEW i \in DOMAIN calls, Serve(i)
  PROVE  CallInv' /\ LateInv'
<1>1. /\ DOMAIN calls' = DOMAIN calls
      /\ \A j \in DOMAIN calls \ {i} : calls'[j] = calls[j]
      /\ calls[i].pc \in {"wait"} \union Over /\ calls[i].status = 0
      /\ calls'[i].by = calls[i].by /\ calls'[i].pc = calls[i].pc
      /\ calls'[i].status \in {200, 204, 401, 404}
      /\ applied' = IF calls'[i].status \in {200, 204} THEN Append(applied, i) ELSE applied
  BY ServeStep DEF Keeps
<1>2. \A j \in DOMAIN calls : calls'[j].by = calls[j].by /\ calls'[j].pc = calls[j].pc
  BY <1>1
<1>3. \A k \in DOMAIN applied : applied[k] # i /\ applied[k] \in DOMAIN calls
  BY <1>1 DEF CallInv
<1>4. calls[i].pc # "returned" /\ calls[i].pc \notin Building
  <2>1. 0 \notin {200, 204}
    OBVIOUS
  <2> QED
    BY <1>1, <2>1 DEF CallInv, Building, Over
<1>5. CASE applied' = applied /\ calls'[i].status \notin {200, 204}
  <2>1. calls'[i].status # 0
    BY <1>1
  <2> QED
    BY <1>1, <1>2, <1>3, <1>4, <1>5, <2>1 DEF CallInv, LateInv
<1>6. CASE applied' = Append(applied, i) /\ calls'[i].status \in {200, 204}
  <2>1. DOMAIN calls = 1 .. Len(calls) /\ Len(calls) \in Nat /\ applied \in Seq(Nat)
    BY DEF TypeOK
  <2>2. PICK n : /\ DOMAIN applied' = DOMAIN applied \union {n}
                 /\ n \notin DOMAIN applied /\ \A k \in DOMAIN applied : k < n /\ ~(n < k)
                 /\ ~(n < n)
                 /\ \A k \in DOMAIN applied : applied'[k] = applied[k]
                 /\ applied'[n] = i
    <3>1. i \in Nat
      BY <2>1
    <3>2. /\ DOMAIN applied' = DOMAIN applied \union {Len(applied) + 1}
          /\ Len(applied) + 1 \notin DOMAIN applied
          /\ \A k \in DOMAIN applied : k < Len(applied) + 1 /\ ~(Len(applied) + 1 < k)
          /\ ~(Len(applied) + 1 < Len(applied) + 1)
          /\ \A k \in DOMAIN applied : applied'[k] = applied[k]
          /\ applied'[Len(applied) + 1] = i
      BY <1>6, <2>1, <3>1
    <3> QED
      BY <3>2
  <2>3. calls'[i].status # 0
    BY <1>6
  <2>4. CallInv'
    BY <1>1, <1>2, <1>3, <1>4, <2>2, <2>3 DEF CallInv
  <2>5. ASSUME calls[i].pc # "threw", NEW m \in DOMAIN applied, calls[applied[m]].by = calls[i].by
        PROVE  applied[m] < i
    <3>1. calls[i].pc \notin Over
      BY <1>4, <2>5 DEF Over
    <3>2. ~(i < applied[m])
      BY <1>3, <2>5, <3>1 DEF CallInv
    <3> QED
      BY <1>3, <2>1, <3>2
  <2>6. LateInv'
    BY <1>2, <1>3, <2>2, <2>5 DEF LateInv
  <2> QED
    BY <2>4, <2>6
<1> QED
  BY <1>1, <1>5, <1>6

LEMMA CallBegun ==
  ASSUME TypeOK, CallInv, LateInv, NEW t \in Threads, NEW op \in Ops(t), Begin(t, op),
         UNCHANGED applied
  PROVE  CallInv' /\ LateInv'
<1>1. PICK n :
        /\ DOMAIN calls' = DOMAIN calls \union {n}
        /\ n \notin DOMAIN calls /\ \A j \in DOMAIN calls : calls'[j] = calls[j] /\ j < n
        /\ calls'[n].by = t /\ calls'[n].pc = "username" /\ calls'[n].status = 0
        /\ \A j \in DOMAIN calls : calls[j].by = t => calls[j].pc \in Over
  BY BeginStep
<1>2. DOMAIN calls = 1 .. Len(calls) /\ Len(calls) \in Nat
  BY DEF TypeOK
<1>3. n \in Int /\ ~(n < n)
  <2>1. calls' \in Seq(Call)
    BY BeginStep
  <2>2. DOMAIN calls' = 1 .. Len(calls') /\ Len(calls') \in Nat
    BY <2>1
  <2>3. n \in DOMAIN calls'
    BY <1>1
  <2> QED
    BY <2>2, <2>3
<1>4. \A j \in DOMAIN calls : ~(n < j)
  BY <1>1, <1>2, <1>3
<1>5. "username" # "returned" /\ 0 \notin {200, 204}
  OBVIOUS
<1>6. CallInv'
  BY <1>1, <1>3, <1>4, <1>5 DEF CallInv
<1>7. LateInv'
  BY <1>1 DEF LateInv, CallInv
<1> QED
  BY <1>6, <1>7

LEMMA CallStep ==
  ASSUME TypeOK, CallInv, LateInv, [Next]_vars
  PROVE  CallInv' /\ LateInv'
<1>1. CASE new \/ SetUsername \/ SetPassword \/ UNCHANGED vars
  <2>1. UNCHANGED <<calls, applied>>
    BY <1>1 DEF new, SetUsername, SetPassword, vars
  <2> QED
    BY <2>1, CallKept
<1>2. ASSUME NEW pair \in Pairs, BeginSet(pair) PROVE CallInv' /\ LateInv'
  <2>1. UNCHANGED applied
    BY <1>2 DEF BeginSet
  <2> QED
    BY <1>2, <2>1, BeginSetStep, CallKept
<1>3. ASSUME NEW i \in DOMAIN calls, ReadUsername(i) \/ ReadPassword(i), UNCHANGED applied
      PROVE  CallInv' /\ LateInv'
  <2>1. /\ DOMAIN calls' = DOMAIN calls
        /\ \A j \in DOMAIN calls \ {i} : calls'[j] = calls[j]
        /\ calls'[i].by = calls[i].by /\ calls'[i].status = calls[i].status
        /\ calls[i].pc \in Building /\ calls'[i].pc \in {"password", "wait"}
    BY <1>3, ReadUsernameStep, ReadPasswordStep DEF Keeps, Building
  <2>2. calls[i].pc \notin Over /\ calls'[i].pc # "returned"
    BY <2>1 DEF Building, Over
  <2> QED
    BY <1>3, <2>1, <2>2, CallMoves
<1>4. ASSUME NEW i \in DOMAIN calls, Finish(i) \/ GiveUp(i), UNCHANGED applied
      PROVE  CallInv' /\ LateInv'
  <2>1. /\ DOMAIN calls' = DOMAIN calls
        /\ \A j \in DOMAIN calls \ {i} : calls'[j] = calls[j]
        /\ calls'[i].by = calls[i].by /\ calls'[i].status = calls[i].status
        /\ calls[i].pc = "wait" /\ calls'[i].pc \in Over
        /\ calls'[i].pc = "returned" => calls[i].status \in {200, 204}
    BY <1>4, EndStep DEF Keeps
  <2>2. calls[i].pc \notin Over /\ calls'[i].pc \notin Building
    BY <2>1 DEF Building, Over
  <2> QED
    BY <1>4, <2>1, <2>2, CallMoves
<1> QED
  BY <1>1, <1>2, <1>3, <1>4, CallBegun, CallServed, Steps

\* What has returned was carried out once, and nothing the same thread called
\* later was carried out before it: only given up calls come late.
THEOREM CallsInOrder == Spec => []AppliedInCallOrder
<1>1. TypeOK /\ CallInv /\ LateInv => AppliedInCallOrder
  <2> SUFFICES ASSUME TypeOK, CallInv, LateInv, NEW i \in DOMAIN calls, calls[i].pc = "returned"
               PROVE  \E k \in DOMAIN applied :
                        /\ applied[k] = i
                        /\ \A m \in DOMAIN applied \ {k} : applied[m] # i
                        /\ \A m \in 1 .. k : calls[applied[m]].by = calls[i].by => applied[m] <= i
    BY DEF AppliedInCallOrder
  <2>1. PICK k \in DOMAIN applied : applied[k] = i
    BY DEF CallInv
  <2>2. \A m \in DOMAIN applied \ {k} : applied[m] # i
    BY <2>1 DEF CallInv
  <2>3. applied \in Seq(Nat) /\ i \in Nat
    BY DEF TypeOK
  <2>4. ASSUME NEW m \in 1 .. k, calls[applied[m]].by = calls[i].by PROVE applied[m] <= i
    <3>1. m \in DOMAIN applied /\ applied[m] \in Nat
      BY <2>1, <2>3
    <3>2. CASE m = k
      BY <2>1, <2>3, <3>2
    <3>3. CASE m # k
      <4>1. m < k
        BY <2>3, <3>3
      <4>2. applied[m] < applied[k]
        BY <2>1, <2>4, <3>1, <4>1 DEF LateInv
      <4> QED
        BY <2>1, <2>3, <3>1, <4>2
    <3> QED
      BY <3>2, <3>3
  <2> QED
    BY <2>1, <2>2, <2>4
<1> QED
  BY <1>1, CallInit, CallStep, TypeHolds, PTL DEF Spec

=============================================================================
