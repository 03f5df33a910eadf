----------------------- MODULE NotificationDeliveryProofs -----------------------
(***************************************************************************)
(* What NotificationDelivery says of every number of notifications and of  *)
(* changes by the user.  Calls do not touch each other, so the invariant   *)
(* is one formula about one call.                                          *)
(***************************************************************************)
EXTENDS NotificationDelivery, TLAPS

Untouched(c) ==
    attempt[c] = 0 /\ \A n \in Attempts : request[c][n] = "none" /\ ending[c][n] = "open"

\* The request of the second attempt is there only after a first that ended transiently,
\* and a first attempt without a connection left none.
Wire(c) ==
    LET stand == channel[c]["serverChan"]
    IN /\ stand \in {"off", "secret"} => Untouched(c)
       /\ stand = "sending" => attempt[c] \in Attempts
       /\ stand = "sending" /\ attempt[c] = 1 => ending[c][1] = "open"
       /\ stand = "pausing" => attempt[c] = 1 /\ Transient(ending[c][1])
       /\ attempt[c] = 2 => Transient(ending[c][1])
       /\ attempt[c] # 2 => request[c][2] = "none"
       /\ ending[c][1] = "connection" => request[c][1] = "none"

\* Every channel that was asked makes its entry as it ends, or fails to, and no other.
Book(c) ==
    /\ \A ch \in Channels :
          channel[c][ch] \notin Over => records[c][ch] = 0 /\ ch \notin unwritten[c]
    /\ at[c] \in {"idle", "running"} => \A ch \in Channels : channel[c][ch] = "off"
    /\ at[c] \in {"notifying", "returned"} =>
          \A ch \in Channels : channel[c][ch] = "off" <=> ch \notin asked[c]
    /\ at[c] \in {"notifying", "returned"} /\ event[c] # TestEvent =>
          /\ asked[c] = IF ShouldNotify(event[c]) THEN settings[c] ELSE {}
          /\ \A ch \in Channels : channel[c][ch] \in Over =>
                records[c][ch] = IF ch \in unwritten[c] THEN 0 ELSE 1
    /\ at[c] = "returned" =>
          /\ \A ch \in asked[c] : channel[c][ch] \in Over
          /\ result[c] = IF \E ch \in asked[c] : channel[c][ch] = "failed"
                         THEN "failed" ELSE "ok"

CallInv == TypeOK /\ \A c \in Calls : Wire(c) /\ Book(c)

-----------------------------------------------------------------------------
LEMMA CallInit == Init => CallInv
<1> SUFFICES ASSUME Init  PROVE CallInv
  OBVIOUS
<1>1. TypeOK
  BY ChangesAssumption DEF Init, TypeOK, Each, Attempts
<1>2. ASSUME NEW c \in Calls
      PROVE  Wire(c) /\ Book(c)
  BY DEF Init, Each, Wire, Book, Untouched, Attempts, Channels, Over
<1> QED  BY <1>1, <1>2 DEF CallInv

\* A call nothing of which changes keeps its formula.
LEMMA CallStays ==
    ASSUME NEW c \in Calls, Wire(c), Book(c),
           at'[c] = at[c], settings'[c] = settings[c], event'[c] = event[c],
           asked'[c] = asked[c], channel'[c] = channel[c], attempt'[c] = attempt[c],
           request'[c] = request[c], ending'[c] = ending[c], records'[c] = records[c],
           unwritten'[c] = unwritten[c], result'[c] = result[c]
    PROVE  Wire(c)' /\ Book(c)'
BY DEF Wire, Book, Untouched

\* The user's changes reach no call that is under way.
LEMMA UserKeeps ==
    ASSUME CallInv, User
    PROVE  CallInv'
<1>1. /\ UNCHANGED <<at, settings, event, asked, channel, wire, diary, result>>
      /\ changes < MaxChanges /\ changes' = changes + 1
      /\ enabled' \subseteq Channels /\ secrets' \subseteq WithSecret
  BY DEF CallInv, TypeOK, User, SaveSettings, SetSecret, DeleteSecret, Change
<1>2. changes' \in 0 .. MaxChanges
  BY <1>1, ChangesAssumption DEF CallInv, TypeOK
<1>3. TypeOK'
  BY <1>1, <1>2 DEF CallInv, TypeOK, wire, diary
<1>4. \A c \in Calls : Wire(c)' /\ Book(c)'
  BY <1>1, CallStays DEF CallInv, wire, diary
<1> QED  BY <1>3, <1>4 DEF CallInv

-----------------------------------------------------------------------------
(* The steps of one call *)

\* No other call changes.
Alone(c) ==
    /\ UNCHANGED user
    /\ \A d \in Calls \ {c} :
          /\ at'[d] = at[d] /\ settings'[d] = settings[d] /\ event'[d] = event[d]
          /\ asked'[d] = asked[d] /\ channel'[d] = channel[d] /\ attempt'[d] = attempt[d]
          /\ request'[d] = request[d] /\ ending'[d] = ending[d]
          /\ records'[d] = records[d] /\ unwritten'[d] = unwritten[d]
          /\ result'[d] = result[d]

LEMMA OneCall ==
    ASSUME CallInv, NEW c \in Calls, Alone(c), TypeOK', Wire(c)', Book(c)'
    PROVE  CallInv'
BY CallStays DEF CallInv, Alone

\* Notify and Test open the channels they ask.
LEMMA BeginKeeps ==
    ASSUME CallInv, NEW c \in Calls, NEW wanted \in SUBSET Channels,
           at[c] \in {"idle", "running"}, at' = [at EXCEPT ![c] = "notifying"],
           asked' = [asked EXCEPT ![c] = wanted],
           NEW e \in Events \cup {TestEvent}, event' = [event EXCEPT ![c] = e],
           e # TestEvent => wanted = IF ShouldNotify(e) THEN settings[c] ELSE {},
           Begin(c, wanted), UNCHANGED <<user, settings, wire, diary, result>>
    PROVE  CallInv'
<1> USE DEF CallInv
<1>1. \A ch \in Channels :
          channel'[c][ch] = IF ch \notin wanted THEN "off"
                            ELSE IF ch \in WithSecret THEN "secret" ELSE "sending"
  BY DEF TypeOK, Begin
<1>2. TypeOK'
  BY DEF TypeOK, Begin, user, wire, diary
<1>3. Alone(c)
  BY DEF TypeOK, Begin, Alone, user, wire, diary
<1>4. /\ \A ch \in Channels : channel[c][ch] = "off" /\ records[c][ch] = 0 /\ ch \notin unwritten[c]
      /\ Untouched(c)
  BY DEF Book, Wire, Over, Channels
<1>5. Wire(c)'
  <2>1. channel'[c]["serverChan"] \in {"off", "secret"}
    BY <1>1 DEF Channels, WithSecret
  <2>2. Untouched(c)'
    BY <1>4 DEF Untouched, wire, diary
  <2> QED  BY <2>1, <2>2 DEF Wire, Untouched, Attempts
<1>6. Book(c)'
  <2>1. /\ at'[c] = "notifying" /\ asked'[c] = wanted /\ event'[c] = e
        /\ settings'[c] = settings[c] /\ records'[c] = records[c]
        /\ unwritten'[c] = unwritten[c]
    BY DEF TypeOK, diary
  <2>2. \A ch \in Channels :
            channel'[c][ch] \notin Over /\ records'[c][ch] = 0 /\ ch \notin unwritten'[c]
    BY <1>1, <1>4, <2>1 DEF Over
  <2>3. \A ch \in Channels : channel'[c][ch] = "off" <=> ch \notin asked'[c]
    BY <1>1, <2>1
  <2>4. event'[c] # TestEvent =>
            asked'[c] = IF ShouldNotify(event'[c]) THEN settings'[c] ELSE {}
    BY <2>1
  <2> QED  BY <2>1, <2>2, <2>3, <2>4 DEF Book
<1> QED  BY <1>2, <1>3, <1>5, <1>6, OneCall

\* The diary of a call as one of its channels ends: an entry, or one that is refused.
Booked(c, ch) ==
    \/ records' = [records EXCEPT ![c][ch] = @ + 1] /\ UNCHANGED unwritten
    \/ unwritten' = [unwritten EXCEPT ![c] = @ \cup {ch}] /\ UNCHANGED records

\* A step that moves one channel of a call and books its end.
LEMMA MoveKeepsBook ==
    ASSUME CallInv, NEW c \in Calls, NEW ch \in Channels,
           NEW there \in {"secret", "sending", "pausing"} \cup Over,
           channel[c][ch] \in {"secret", "sending", "pausing"},
           channel' = [channel EXCEPT ![c][ch] = there],
           \/ there \notin Over /\ UNCHANGED diary
           \/ there \in Over /\ Booked(c, ch)
           \/ there \in Over /\ event[c] = TestEvent /\ UNCHANGED diary,
           UNCHANGED <<at, settings, event, asked, result>>
    PROVE  /\ Book(c)'
           /\ channel' \in [Calls -> [Channels -> {"off", "secret", "sending", "pausing"} \cup Over]]
           /\ records' \in [Calls -> [Channels -> 0 .. 1]]
           /\ unwritten' \in [Calls -> SUBSET Channels]
           /\ \A d \in Calls \ {c} : records'[d] = records[d] /\ unwritten'[d] = unwritten[d]
<1> USE DEF CallInv
<1>1. /\ channel'[c][ch] = there
      /\ \A x \in Channels \ {ch} : channel'[c][x] = channel[c][x]
  BY DEF TypeOK
<1>2. records[c][ch] = 0 /\ ch \notin unwritten[c]
  BY DEF Book, Over
<1>3. at[c] = "notifying" /\ ch \in asked[c]
  BY DEF Book, TypeOK, Over
<1>4. channel' \in [Calls -> [Channels -> {"off", "secret", "sending", "pausing"} \cup Over]]
  BY DEF TypeOK
<1>5. /\ records \in [Calls -> [Channels -> 0 .. 1]] /\ unwritten \in [Calls -> SUBSET Channels]
      /\ records[c][ch] + 1 = 1 /\ 1 \in 0 .. 1
  BY <1>2 DEF TypeOK
<1>6. \/ UNCHANGED <<records, unwritten>> /\ (there \notin Over \/ event[c] = TestEvent)
      \/ there \in Over /\ records' = [records EXCEPT ![c][ch] = 1] /\ unwritten' = unwritten
      \/ /\ there \in Over /\ records' = records
         /\ unwritten' = [unwritten EXCEPT ![c] = @ \cup {ch}]
  BY <1>5 DEF Booked, diary
<1>7. /\ records' \in [Calls -> [Channels -> 0 .. 1]]
      /\ unwritten' \in [Calls -> SUBSET Channels]
      /\ \A d \in Calls \ {c} : records'[d] = records[d] /\ unwritten'[d] = unwritten[d]
      /\ \A x \in Channels : x # ch =>
            records'[c][x] = records[c][x] /\ (x \in unwritten'[c] <=> x \in unwritten[c])
  BY <1>5, <1>6
<1>8. /\ there \notin Over => records'[c][ch] = 0 /\ ch \notin unwritten'[c]
      /\ there \in Over /\ event[c] # TestEvent =>
            records'[c][ch] = IF ch \in unwritten'[c] THEN 0 ELSE 1
  BY <1>2, <1>5, <1>6
<1>9. Book(c)'
  <2>1. ASSUME NEW x \in Channels, channel'[c][x] \notin Over
        PROVE  records'[c][x] = 0 /\ x \notin unwritten'[c]
    <3>1. CASE x = ch
      BY <1>1, <1>8, <2>1, <3>1
    <3>2. CASE x # ch
      <4>1. records[c][x] = 0 /\ x \notin unwritten[c]
        BY <1>1, <2>1, <3>2 DEF Book
      <4>2. records'[c][x] = records[c][x] /\ (x \in unwritten'[c] <=> x \in unwritten[c])
        BY <1>7, <3>2
      <4> QED  BY <4>1, <4>2
    <3> QED  BY <3>1, <3>2
  <2>2. \A x \in Channels : channel'[c][x] = "off" <=> x \notin asked'[c]
    BY <1>1, <1>3 DEF Book, Over
  <2>3. ASSUME event'[c] # TestEvent
        PROVE  /\ asked'[c] = IF ShouldNotify(event'[c]) THEN settings'[c] ELSE {}
               /\ \A x \in Channels : channel'[c][x] \in Over =>
                     records'[c][x] = IF x \in unwritten'[c] THEN 0 ELSE 1
    <3>1. /\ asked[c] = IF ShouldNotify(event[c]) THEN settings[c] ELSE {}
          /\ \A x \in Channels : channel[c][x] \in Over =>
                records[c][x] = IF x \in unwritten[c] THEN 0 ELSE 1
      BY <1>3, <2>3 DEF Book
    <3>2. ASSUME NEW x \in Channels, channel'[c][x] \in Over
          PROVE  records'[c][x] = IF x \in unwritten'[c] THEN 0 ELSE 1
      <4>1. CASE x = ch
        BY <1>1, <1>8, <2>3, <3>2, <4>1
      <4>2. CASE x # ch
        <5>1. records[c][x] = IF x \in unwritten[c] THEN 0 ELSE 1
          BY <1>1, <3>1, <3>2, <4>2
        <5>2. records'[c][x] = records[c][x] /\ (x \in unwritten'[c] <=> x \in unwritten[c])
          BY <1>7, <4>2
        <5> QED  BY <5>1, <5>2
      <4> QED  BY <4>1, <4>2
    <3> QED  BY <3>1, <3>2
  <2> QED  BY <1>3, <2>1, <2>2, <2>3 DEF Book
<1> QED  BY <1>4, <1>7, <1>9

\* A step of a channel other than Server酱's, and one of Server酱's that touches no
\* request, keeps what is known of the wire.
LEMMA WireStays ==
    ASSUME NEW c \in Calls, Wire(c), UNCHANGED wire,
           \/ channel'[c]["serverChan"] = channel[c]["serverChan"]
           \/ channel'[c]["serverChan"] = "failed"
    PROVE  Wire(c)'
BY DEF Wire, Untouched, wire, diary

\* SecretRead, SecretMissing, Sent and DeadlineExpires.
LEMMA ChannelKeeps ==
    ASSUME CallInv, NEW c \in Calls, NEW ch \in Channels,
           \/ SecretRead(c, ch)
           \/ SecretMissing(c, ch)
           \/ \E outcome \in Over : Sent(c, ch, outcome)
           \/ DeadlineExpires(c)
    PROVE  CallInv'
<1> USE DEF CallInv
<1>1. CASE SecretRead(c, ch)
  <2>1. Book(c)' /\ TypeOK'
    <3>1. attempt' \in [Calls -> 0 .. 2]
      BY <1>1 DEF TypeOK, SecretRead
    <3> QED  BY <1>1, <3>1, MoveKeepsBook DEF SecretRead, TypeOK, user, Over, diary
  <2>2. Alone(c)
    BY <1>1 DEF TypeOK, SecretRead, Alone, user, diary
  <2>3. Wire(c)'
    <3>1. CASE ch = "serverChan"
      <4>1. Untouched(c)
        BY <1>1, <3>1 DEF SecretRead, Wire
      <4>2. /\ channel'[c]["serverChan"] = "sending" /\ attempt'[c] = 1
            /\ request' = request /\ ending' = ending
        BY <1>1, <3>1 DEF SecretRead, TypeOK
      <4> QED  BY <4>1, <4>2 DEF Wire, Untouched, Attempts
    <3>2. CASE ch # "serverChan"
      BY <1>1, <3>2, WireStays DEF SecretRead, TypeOK, wire, Channels, diary
    <3> QED  BY <3>1, <3>2
  <2> QED  BY <2>1, <2>2, <2>3, OneCall
<1>2. CASE SecretMissing(c, ch)
  <2>1. /\ channel[c][ch] = "secret"
        /\ channel' = [channel EXCEPT ![c][ch] = "failed"]
        /\ Booked(c, ch) \/ (event[c] = TestEvent /\ UNCHANGED diary)
        /\ UNCHANGED <<user, at, settings, event, asked, wire, result>>
    BY <1>2 DEF SecretMissing, Finish, Booked, diary
  <2>2. /\ Book(c)' /\ TypeOK'
        /\ \A d \in Calls \ {c} : records'[d] = records[d] /\ unwritten'[d] = unwritten[d]
    BY <2>1, MoveKeepsBook DEF TypeOK, user, wire, Over, diary
  <2>3. Alone(c)
    BY <2>1, <2>2 DEF TypeOK, Alone, user, wire
  <2>4. Wire(c)'
    BY <2>1, WireStays DEF TypeOK, Channels
  <2> QED  BY <2>2, <2>3, <2>4, OneCall
<1>3. ASSUME NEW outcome \in Over, Sent(c, ch, outcome)
      PROVE  CallInv'
  <2>1. /\ channel[c][ch] = "sending" /\ ch # "serverChan"
        /\ channel' = [channel EXCEPT ![c][ch] = outcome]
        /\ Booked(c, ch)
        /\ UNCHANGED <<user, at, settings, event, asked, wire, result>>
    BY <1>3 DEF Sent, Finish, Booked
  <2>2. /\ Book(c)' /\ TypeOK'
        /\ \A d \in Calls \ {c} : records'[d] = records[d] /\ unwritten'[d] = unwritten[d]
    BY <2>1, MoveKeepsBook DEF TypeOK, user, wire, diary
  <2>3. Alone(c)
    BY <2>1, <2>2 DEF TypeOK, Alone, user, wire
  <2>4. Wire(c)'
    BY <2>1, WireStays DEF TypeOK, Channels
  <2> QED  BY <2>2, <2>3, <2>4, OneCall
<1>4. CASE DeadlineExpires(c)
  <2>1. /\ channel[c]["serverChan"] \in {"sending", "pausing"}
        /\ channel' = [channel EXCEPT ![c]["serverChan"] = "failed"]
        /\ Booked(c, "serverChan")
        /\ UNCHANGED <<user, at, settings, event, asked, wire, result>>
    BY <1>4 DEF DeadlineExpires, Finish, Booked
  <2>2. /\ Book(c)' /\ TypeOK'
        /\ \A d \in Calls \ {c} : records'[d] = records[d] /\ unwritten'[d] = unwritten[d]
    BY <2>1, MoveKeepsBook DEF TypeOK, user, wire, Over, Channels, diary
  <2>3. Alone(c)
    BY <2>1, <2>2 DEF TypeOK, Alone, user, wire
  <2>4. Wire(c)'
    BY <2>1, WireStays DEF TypeOK, Channels
  <2> QED  BY <2>2, <2>3, <2>4, OneCall
<1> QED  BY <1>1, <1>2, <1>3, <1>4

\* An attempt ends; without a connection only when there was no request.
LEMMA AttemptKeeps ==
    ASSUME CallInv, NEW c \in Calls, Sending(c),
           NEW how \in {"ok", "connection", "network", "status", "permanent", "timeout"},
           AttemptEnds(c, how),
           how = "connection" => Current(c) = "none"
    PROVE  CallInv'
<1> USE DEF CallInv
<1>1. channel[c]["serverChan"] = "sending" /\ attempt[c] \in Attempts
  BY DEF Sending, Wire
<1>2. /\ ending' = [ending EXCEPT ![c][attempt[c]] = how]
      /\ UNCHANGED <<user, at, settings, event, asked, attempt, request, result>>
  BY DEF AttemptEnds
<1>3. PICK there \in {"pausing", "ok", "failed"} :
          /\ channel' = [channel EXCEPT ![c]["serverChan"] = there]
          /\ there = "pausing" => Transient(how) /\ attempt[c] = 1 /\ UNCHANGED diary
          /\ there # "pausing" => Booked(c, "serverChan")
  BY DEF AttemptEnds, Finish, Booked
<1>4. "serverChan" \in Channels
  BY DEF Channels
<1>5. /\ Book(c)'
      /\ channel' \in [Calls -> [Channels -> {"off", "secret", "sending", "pausing"} \cup Over]]
      /\ records' \in [Calls -> [Channels -> 0 .. 1]]
      /\ unwritten' \in [Calls -> SUBSET Channels]
      /\ \A d \in Calls \ {c} : records'[d] = records[d] /\ unwritten'[d] = unwritten[d]
  <2>1. CASE there = "pausing"
    BY <1>1, <1>2, <1>3, <1>4, <2>1, MoveKeepsBook DEF Over
  <2>2. CASE there # "pausing"
    BY <1>1, <1>2, <1>3, <1>4, <2>2, MoveKeepsBook DEF Over
  <2> QED  BY <2>1, <2>2
<1>6. TypeOK'
  <2>1. ending' \in [Calls -> [Attempts ->
            {"open", "ok", "connection", "network", "status", "permanent", "timeout"}]]
    BY <1>1, <1>2 DEF TypeOK
  <2> QED  BY <1>2, <1>5, <2>1 DEF TypeOK, user, diary
<1>7. Alone(c)
  BY <1>2, <1>3, <1>5 DEF TypeOK, Alone, user
<1>8. Wire(c)'
  <2>1. /\ channel'[c]["serverChan"] = there
        /\ attempt'[c] = attempt[c] /\ request'[c] = request[c]
        /\ ending'[c][attempt[c]] = how
        /\ \A n \in Attempts \ {attempt[c]} : ending'[c][n] = ending[c][n]
    BY <1>1, <1>2, <1>3, <1>4 DEF TypeOK
  <2>2. attempt[c] = 2 => ending'[c][1] = ending[c][1]
    BY <2>1 DEF Attempts
  <2>3. attempt[c] = 1 => ending'[c][1] = how
    BY <2>1
  <2>4. ending'[c][1] = "connection" => request'[c][1] = "none"
    BY <1>1, <2>1, <2>2, <2>3 DEF Wire, Current, Attempts
  <2>5. attempt[c] = 2 => Transient(ending'[c][1])
    BY <2>2 DEF Wire
  <2>6. there = "pausing" => attempt'[c] = 1 /\ Transient(ending'[c][1])
    BY <1>3, <2>1, <2>3
  <2>7. attempt[c] # 2 => request'[c][2] = "none"
    BY <2>1 DEF Wire
  <2> QED  BY <2>1, <2>4, <2>5, <2>6, <2>7 DEF Wire
<1> QED  BY <1>6, <1>7, <1>8, <1>5, OneCall

\* Post, Resume, and what the service does with a request.
LEMMA WireKeeps ==
    ASSUME CallInv, NEW c \in Calls,
           \/ Post(c) \/ Resume(c)
           \/ \E n \in Attempts, fate \in {"accepted", "refused", "lost"} : Arrive(c, n, fate)
    PROVE  CallInv'
<1> USE DEF CallInv
<1>1. CASE Post(c)
  <2>1. /\ channel[c]["serverChan"] = "sending" /\ attempt[c] \in Attempts
        /\ request[c][attempt[c]] = "none"
        /\ request' = [request EXCEPT ![c][attempt[c]] = "travelling"]
        /\ UNCHANGED <<user, at, settings, event, asked, channel, attempt, ending, diary, result>>
    BY <1>1 DEF Post, Sending, Current, Wire
  <2>2. TypeOK'
    BY <2>1 DEF TypeOK, user, diary
  <2>3. Alone(c) /\ Book(c)'
    BY <2>1 DEF TypeOK, Alone, user, Book, diary
  <2>4. /\ request'[c][attempt[c]] = "travelling"
        /\ \A n \in Attempts \ {attempt[c]} : request'[c][n] = request[c][n]
    BY <2>1 DEF TypeOK
  <2>5. attempt[c] = 2 => Transient(ending[c][1]) /\ request'[c][1] = request[c][1]
    BY <2>4 DEF Wire, Attempts
  <2>6. attempt[c] = 1 => ending[c][1] = "open" /\ request'[c][2] = request[c][2]
    BY <2>1, <2>4 DEF Wire, Attempts
  <2>7. Wire(c)'
    BY <2>1, <2>5, <2>6 DEF Wire, Attempts
  <2> QED  BY <2>2, <2>3, <2>7, OneCall
<1>2. CASE Resume(c)
  <2>1. /\ channel[c]["serverChan"] = "pausing"
        /\ channel' = [channel EXCEPT ![c]["serverChan"] = "sending"]
        /\ attempt' = [attempt EXCEPT ![c] = 2]
        /\ UNCHANGED <<user, at, settings, event, asked, request, ending, diary, result>>
    BY <1>2 DEF Resume
  <2>2. Book(c)' /\ TypeOK'
    <3>1. attempt' \in [Calls -> 0 .. 2]
      BY <2>1 DEF TypeOK
    <3> QED  BY <2>1, <3>1, MoveKeepsBook DEF TypeOK, user, Over, Channels, diary
  <2>3. Alone(c)
    BY <2>1 DEF TypeOK, Alone, user, diary
  <2>4. attempt[c] = 1 /\ Transient(ending[c][1])
    BY <2>1 DEF Wire
  <2>5. channel'[c]["serverChan"] = "sending" /\ attempt'[c] = 2
    BY <2>1 DEF TypeOK, Channels
  <2>6. Wire(c)'
    BY <2>1, <2>4, <2>5 DEF Wire, Attempts
  <2> QED  BY <2>2, <2>3, <2>6, OneCall
<1>3. ASSUME NEW n \in Attempts, NEW fate \in {"accepted", "refused", "lost"}, Arrive(c, n, fate)
      PROVE  CallInv'
  <2>1. /\ request[c][n] = "travelling"
        /\ request' = [request EXCEPT ![c][n] = fate]
        /\ UNCHANGED <<user, at, settings, event, asked, channel, attempt, ending, diary, result>>
    BY <1>3 DEF Arrive
  <2>2. TypeOK'
    BY <2>1 DEF TypeOK, user, diary
  <2>3. Alone(c) /\ Book(c)'
    BY <2>1 DEF TypeOK, Alone, user, Book, diary
  <2>4. \A m \in Attempts : request[c][m] = "none" => request'[c][m] = "none"
    BY <2>1 DEF TypeOK
  <2>5. Wire(c)'
    <3>1. Untouched(c) => Untouched(c)'
      BY <2>1, <2>4 DEF Untouched
    <3>2. /\ request[c][1] = "none" => request'[c][1] = "none"
          /\ request[c][2] = "none" => request'[c][2] = "none"
      BY <2>4 DEF Attempts
    <3> QED  BY <2>1, <3>1, <3>2 DEF Wire
  <2> QED  BY <2>2, <2>3, <2>5, OneCall
<1> QED  BY <1>1, <1>2, <1>3

\* StartRun and Return.
LEMMA CallKeeps ==
    ASSUME CallInv, NEW c \in Calls, StartRun(c) \/ Return(c)
    PROVE  CallInv'
<1> USE DEF CallInv
<1>1. UNCHANGED <<user, event, asked, channel, wire, diary>>
  BY DEF StartRun, Return
<1>2. TypeOK'
  <2>1. /\ at' \in [Calls -> {"idle", "running", "notifying", "returned"}]
        /\ settings' \in [Calls -> SUBSET Channels]
        /\ result' \in [Calls -> {"none"} \cup Over]
    BY DEF TypeOK, StartRun, Return, Over
  <2> QED  BY <1>1, <2>1 DEF TypeOK, user, wire, diary
<1>3. Alone(c)
  BY <1>1 DEF TypeOK, Alone, user, wire, StartRun, Return, diary
<1>4. Wire(c)'
  BY <1>1 DEF Wire, Untouched, wire, diary
<1>5. CASE StartRun(c)
  <2>1. at[c] = "idle" /\ at'[c] = "running"
    BY <1>5 DEF StartRun, TypeOK
  <2>2. Book(c)'
    BY <1>1, <2>1 DEF Book, diary
  <2> QED  BY <1>2, <1>3, <1>4, <2>2, OneCall
<1>6. CASE Return(c)
  <2>1. /\ at[c] = "notifying" /\ at'[c] = "returned" /\ settings'[c] = settings[c]
        /\ \A ch \in asked[c] : channel[c][ch] \in Over
        /\ result'[c] = IF \E ch \in asked[c] : channel[c][ch] = "failed" THEN "failed" ELSE "ok"
    BY <1>6 DEF Return, TypeOK
  <2>2. Book(c)'
    BY <1>1, <2>1 DEF Book, diary
  <2> QED  BY <1>2, <1>3, <1>4, <2>2, OneCall
<1> QED  BY <1>5, <1>6

LEMMA CallStep == CallInv /\ [Next]_vars => CallInv'
<1> SUFFICES ASSUME CallInv, [Next]_vars  PROVE CallInv'
  OBVIOUS
<1>1. CASE Service
  BY <1>1, WireKeeps DEF Service
<1>2. ASSUME NEW c \in Calls, Step(c)
      PROVE  CallInv'
  <2>1. ASSUME NEW e \in Events, Notify(c, e)
        PROVE  CallInv'
    <3>1. settings[c] \subseteq Channels
      BY DEF CallInv, TypeOK
    <3>2. (IF ShouldNotify(e) THEN settings[c] ELSE {}) \in SUBSET Channels
      BY <3>1
    <3> QED  BY <2>1, <3>2, BeginKeeps DEF Notify
  <2>2. ASSUME NEW ch \in Channels, Test(c, ch)
        PROVE  CallInv'
    BY <2>2, BeginKeeps DEF Test
  <2>3. \A how \in {"connection", "permanent"} : NotPosted(c, how) => CallInv'
    BY AttemptKeeps DEF NotPosted
  <2>4. AnswerAccepted(c) => CallInv'
    BY AttemptKeeps DEF AnswerAccepted
  <2>5. \A how \in {"status", "network", "timeout", "permanent"} : AnswerError(c, how) => CallInv'
    BY AttemptKeeps DEF AnswerError
  <2>6. (\E ch \in Channels : SecretRead(c, ch) \/ SecretMissing(c, ch)) => CallInv'
    BY ChannelKeeps
  <2>7. (\E ch \in Channels, outcome \in Over : Sent(c, ch, outcome)) => CallInv'
    BY ChannelKeeps
  <2>8. DeadlineExpires(c) => CallInv'
    BY ChannelKeeps, "email" \in Channels DEF Channels
  <2> QED  BY <1>2, <2>1, <2>2, <2>3, <2>4, <2>5, <2>6, <2>7, <2>8, CallKeeps, WireKeeps DEF Step
<1>3. CASE UNCHANGED vars
  <2>1. TypeOK'
    BY <1>3 DEF CallInv, TypeOK, vars, user, wire, diary
  <2>2. \A c \in Calls : Wire(c)' /\ Book(c)'
    BY <1>3, CallStays DEF CallInv, vars, wire, diary
  <2> QED  BY <2>1, <2>2 DEF CallInv
<1> QED  BY <1>1, <1>2, <1>3, UserKeeps DEF Next

LEMMA CallAlways == Spec => []CallInv
BY CallInit, CallStep, PTL DEF Spec

\* The variables have their types; in particular no channel of a call makes two entries.
THEOREM TypeCorrect == Spec => []TypeOK
<1>1. CallInv => TypeOK
  BY DEF CallInv
<1> QED  BY CallAlways, <1>1, PTL

\* A message is taken over twice only after the first answer was a transient status or a
\* broken connection (deliver_inner, map_reqwest_error, http_error).
THEOREM TwiceIsRare == Spec => []TwiceOnlyAfterLostAnswer
<1>1. ASSUME CallInv, NEW c \in Calls, \A n \in Attempts : request[c][n] = "accepted"
      PROVE  ending[c][1] \in {"network", "status"}
  <2>1. request[c][1] = "accepted" /\ request[c][2] = "accepted"
    BY <1>1 DEF Attempts
  <2> QED  BY <1>1, <2>1 DEF CallInv, Wire, Transient
<1>2. CallInv => TwiceOnlyAfterLostAnswer
  BY <1>1 DEF TwiceOnlyAfterLostAnswer
<1> QED  BY CallAlways, <1>2, PTL

\* When a run's notify returns, the channels of the run's own settings have ended and made
\* one entry each, those excepted whose entry was refused, no other has, and the result
\* tells whether one failed (NotificationRunSink::notify, record_delivery).
THEOREM ChannelsReport == Spec => []EveryChannelReports
<1>1. ASSUME CallInv, NEW c \in Calls, at[c] = "returned", event[c] # TestEvent
      PROVE  LET due == IF event[c] = [type |-> "runSucceeded", mode |-> "retry"]
                        THEN settings[c] ELSE {}
             IN /\ unwritten[c] \subseteq due
                /\ \A ch \in Channels :
                      records[c][ch] = IF ch \in due \ unwritten[c] THEN 1 ELSE 0
                /\ \A ch \in due : channel[c][ch] \in Over
                /\ "serverChan" \notin due => \A n \in Attempts : request[c][n] = "none"
                /\ result[c] = IF \E ch \in due : channel[c][ch] = "failed" THEN "failed" ELSE "ok"
  <2>1. event[c] \in Events \cup {NoEvent} /\ unwritten[c] \subseteq Channels
    BY <1>1 DEF CallInv, TypeOK
  <2>2. ShouldNotify(event[c]) <=> event[c] = [type |-> "runSucceeded", mode |-> "retry"]
    BY <2>1 DEF ShouldNotify, Events, NoEvent
  <2>3. asked[c] = IF ShouldNotify(event[c]) THEN settings[c] ELSE {}
    BY <1>1 DEF CallInv, Book
  <2>4. \A ch \in Channels :
            /\ channel[c][ch] = "off" <=> ch \notin asked[c]
            /\ channel[c][ch] \notin Over => records[c][ch] = 0 /\ ch \notin unwritten[c]
            /\ channel[c][ch] \in Over =>
                  records[c][ch] = IF ch \in unwritten[c] THEN 0 ELSE 1
            /\ ch \in asked[c] => channel[c][ch] \in Over
    BY <1>1 DEF CallInv, Book
  <2>5. /\ unwritten[c] \subseteq asked[c]
        /\ \A ch \in Channels :
              records[c][ch] = IF ch \in asked[c] \ unwritten[c] THEN 1 ELSE 0
    BY <2>1, <2>4 DEF Over
  <2>6. "serverChan" \notin asked[c] => \A n \in Attempts : request[c][n] = "none"
    BY <1>1 DEF CallInv, Book, Wire, Untouched, Channels
  <2>7. /\ \A ch \in asked[c] : channel[c][ch] \in Over
        /\ result[c] = IF \E ch \in asked[c] : channel[c][ch] = "failed" THEN "failed" ELSE "ok"
    BY <1>1 DEF CallInv, Book
  <2> QED  BY <2>2, <2>3, <2>5, <2>6, <2>7
<1>2. CallInv => EveryChannelReports
  BY <1>1 DEF EveryChannelReports
<1> QED  BY CallAlways, <1>2, PTL
=============================================================================
