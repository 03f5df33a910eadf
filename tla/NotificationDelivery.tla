------------------------- MODULE NotificationDelivery -------------------------
(***************************************************************************)
(* From a run's end to the message on a phone: the sink of a run asks its  *)
(* three channels at once, and the channel of Server酱 posts to a service  *)
(* whose answer may be lost, late, or about a message already passed on.   *)
(* Source: notifications.rs, server_chan.rs, email_notifier.rs.            *)
(*                                                                         *)
(* A call is one notify of a run's sink, or one test button.  That a run   *)
(* calls notify at most once for its success is RetryEngine's property.    *)
(* Texts, proxies and the size limit of notifications.log are left out.    *)
(***************************************************************************)
EXTENDS Naturals, FiniteSets

CONSTANTS
    Calls,       \* notifications, each by a run or by a test button
    MaxChanges   \* bound: changes of settings and credentials by the user

ASSUME ChangesAssumption == MaxChanges \in Nat

Channels == {"serverChan", "desktop", "email"}
WithSecret == {"serverChan", "email"}
Attempts == 1 .. 2       \* MAX_DELIVERY_ATTEMPTS
Events == [type : {"runSucceeded", "runFailed", "runStopped", "startFailed"},
           mode : {"retry", "manual"}]
NoEvent == [type |-> "none", mode |-> "none"]
TestEvent == [type |-> "test", mode |-> "none"]

VARIABLES
    enabled,   \* channels enabled in the saved configuration
    secrets,   \* channels whose secret the Credential Manager holds
    changes,   \* number of changes the user made
    at,        \* where a call stands
    settings,  \* the channels enabled when its run started (the sink's copy)
    event,     \* the event of the call
    asked,     \* channels the call must notify
    channel,   \* where each channel of a call stands
    attempt,   \* the attempt the Server酱 client is at
    request,   \* what became of the request of each attempt, at the service
    ending,    \* how each attempt ended for the client
    records,   \* entries of notifications.log, by call and channel
    unwritten, \* the channels of a call whose entry could not be appended (history)
    result     \* what notify returned

user == <<enabled, secrets, changes>>
wire == <<attempt, request, ending>>
diary == <<records, unwritten>>
vars == <<user, at, settings, event, asked, channel, wire, diary, result>>

Over == {"ok", "failed"}

-----------------------------------------------------------------------------
(* The user, between and during runs                                       *)

Change ==
    /\ changes < MaxChanges
    /\ changes' = changes + 1
    /\ UNCHANGED <<at, settings, event, asked, channel, wire, diary, result>>

SaveSettings(channels) ==
    /\ Change
    /\ channels # enabled /\ enabled' = channels
    /\ UNCHANGED secrets

SetSecret(ch) ==
    /\ Change
    /\ secrets' = secrets \cup {ch}
    /\ UNCHANGED enabled

DeleteSecret(ch) ==
    /\ Change
    /\ secrets' = secrets \ {ch}
    /\ UNCHANGED enabled

-----------------------------------------------------------------------------
(* Calls                                                                   *)

\* run_sink: the sink of a run keeps a copy of the settings.
StartRun(c) ==
    /\ at[c] = "idle"
    /\ at' = [at EXCEPT ![c] = "running"]
    /\ settings' = [settings EXCEPT ![c] = enabled]
    /\ UNCHANGED <<user, event, asked, channel, wire, diary, result>>

ShouldNotify(e) == e.type = "runSucceeded" /\ e.mode = "retry"

\* Where a channel begins: with its credential, the desktop at once.
Begin(c, channels) ==
    channel' = [channel EXCEPT ![c] = [ch \in Channels |->
        IF ch \notin channels THEN "off" ELSE IF ch \in WithSecret THEN "secret" ELSE "sending"]]

\* notify of a run's sink.  (A start that failed has a sink of its own with Server酱
\* only; its event reaches nobody in either.)
Notify(c, e) ==
    LET wanted == IF ShouldNotify(e) THEN settings[c] ELSE {}
    IN /\ at[c] = "running"
       /\ at' = [at EXCEPT ![c] = "notifying"]
       /\ event' = [event EXCEPT ![c] = e]
       /\ asked' = [asked EXCEPT ![c] = wanted]
       /\ Begin(c, wanted)
       /\ UNCHANGED <<user, settings, wire, diary, result>>

\* test_notification, test_desktop_notification, test_email_notification.
Test(c, ch) ==
    /\ at[c] = "idle"
    /\ at' = [at EXCEPT ![c] = "notifying"]
    /\ event' = [event EXCEPT ![c] = TestEvent]
    /\ asked' = [asked EXCEPT ![c] = {ch}]
    /\ Begin(c, {ch})
    /\ UNCHANGED <<user, settings, wire, diary, result>>

\* A channel is over, and says so in notifications.log before anything else happens.
\* An entry that cannot be appended is only printed: the outcome stands without it.
Finish(c, ch, outcome) ==
    /\ channel' = [channel EXCEPT ![c][ch] = outcome]
    /\ \/ /\ records' = [records EXCEPT ![c][ch] = @ + 1]
          /\ UNCHANGED unwritten
       \/ /\ unwritten' = [unwritten EXCEPT ![c] = @ \cup {ch}]
          /\ UNCHANGED records

\* Mutant of Return: the first failure ends the call (try_join! for join!).
ReturnFirstFailure(c) ==
    /\ at[c] = "notifying"
    /\ \/ \A ch \in asked[c] : channel[c][ch] \in Over
       \/ \E ch \in asked[c] : channel[c][ch] = "failed"
    /\ at' = [at EXCEPT ![c] = "returned"]
    /\ result' = [result EXCEPT ![c] =
           IF \E ch \in asked[c] : channel[c][ch] = "failed" THEN "failed" ELSE "ok"]
    /\ UNCHANGED <<user, settings, event, asked, channel, wire, diary>>

\* join! and merge_channel_results.
Return(c) ==
    /\ at[c] = "notifying"
    /\ \A ch \in asked[c] : channel[c][ch] \in Over
    /\ at' = [at EXCEPT ![c] = "returned"]
    /\ result' = [result EXCEPT ![c] =
           IF \E ch \in asked[c] : channel[c][ch] = "failed" THEN "failed" ELSE "ok"]
    /\ UNCHANGED <<user, settings, event, asked, channel, wire, diary>>

-----------------------------------------------------------------------------
(* Channels                                                                *)

\* The secret is read when it is needed, not when the run starts.
SecretRead(c, ch) ==
    /\ channel[c][ch] = "secret" /\ ch \in secrets
    /\ channel' = [channel EXCEPT ![c][ch] = "sending"]
    /\ attempt' = IF ch = "serverChan" THEN [attempt EXCEPT ![c] = 1] ELSE attempt
    /\ UNCHANGED <<user, at, settings, event, asked, request, ending, diary, result>>

\* There is no secret, it cannot be read, or the SMTP settings have gaps.  A test
\* returns the error without an entry.
SecretMissing(c, ch) ==
    /\ channel[c][ch] = "secret"
    /\ IF event[c] = TestEvent
       THEN channel' = [channel EXCEPT ![c][ch] = "failed"] /\ UNCHANGED diary
       ELSE Finish(c, ch, "failed")
    /\ UNCHANGED <<user, at, settings, event, asked, wire, result>>

\* DesktopNotificationTransport::show, and deliver_email: one attempt each.  SMTP_TIMEOUT
\* bounds the connection to the mail server only, not the answers on it: the e-mail may
\* stay "sending" for good.
Sent(c, ch, outcome) ==
    /\ ch # "serverChan" /\ channel[c][ch] = "sending"
    /\ Finish(c, ch, outcome)
    /\ UNCHANGED <<user, at, settings, event, asked, wire, result>>

-----------------------------------------------------------------------------
(* The Server酱 client: deliver, deliver_inner and one send per attempt    *)

Sending(c) == channel[c]["serverChan"] = "sending"
Current(c) == request[c][attempt[c]]

Post(c) ==
    /\ Sending(c) /\ Current(c) = "none"
    /\ request' = [request EXCEPT ![c][attempt[c]] = "travelling"]
    /\ UNCHANGED <<user, at, settings, event, asked, channel, attempt, ending, diary, result>>

\* Mutant of Transient: a request that timed out is tried again.
TransientOrTimeout(how) == how \in {"connection", "network", "status", "timeout"}

\* DeliveryError::transient: no connection, a connection that broke (map_reqwest_error),
\* HTTP 408, 429 and 5xx (http_error).
Transient(how) == how \in {"connection", "network", "status"}

\* send has ended: the delivery is over, or pauses before its second attempt.
AttemptEnds(c, how) ==
    /\ ending' = [ending EXCEPT ![c][attempt[c]] = how]
    /\ IF Transient(how) /\ attempt[c] = 1
       THEN /\ channel' = [channel EXCEPT ![c]["serverChan"] = "pausing"]
            /\ UNCHANGED diary
       ELSE Finish(c, "serverChan", IF how = "ok" THEN "ok" ELSE "failed")
    /\ UNCHANGED <<user, at, settings, event, asked, attempt, request, result>>

\* Nothing is sent: no connection, a stored key that validate_send_key refuses, or a
\* client that could not be built.
NotPosted(c, how) ==
    /\ Sending(c) /\ Current(c) = "none"
    /\ AttemptEnds(c, how)

\* A 2xx answer with the business code 0.
AnswerAccepted(c) ==
    /\ Sending(c) /\ Current(c) = "accepted"
    /\ AttemptEnds(c, "ok")

\* Another status, another code, no JSON, a body above MAX_RESPONSE_BYTES: the service
\* or a proxy before it answers, whatever became of the message.
AnswerError(c, how) ==
    /\ Sending(c) /\ Current(c) # "none"
    /\ AttemptEnds(c, how)

Resume(c) ==
    /\ channel[c]["serverChan"] = "pausing"
    /\ channel' = [channel EXCEPT ![c]["serverChan"] = "sending"]
    /\ attempt' = [attempt EXCEPT ![c] = 2]
    /\ UNCHANGED <<user, at, settings, event, asked, request, ending, diary, result>>

\* Mutant of DeadlineExpires: only the pause is timed.
DeadlineExpiresInPause(c) ==
    /\ channel[c]["serverChan"] = "pausing"
    /\ Finish(c, "serverChan", "failed")
    /\ UNCHANGED <<user, at, settings, event, asked, wire, result>>

\* DELIVERY_TIMEOUT for both attempts and the pause: the request under way is dropped,
\* which does not call it back.
DeadlineExpires(c) ==
    /\ channel[c]["serverChan"] \in {"sending", "pausing"}
    /\ Finish(c, "serverChan", "failed")
    /\ UNCHANGED <<user, at, settings, event, asked, wire, result>>

\* The service, which may get to a request long after the client gave it up.
Arrive(c, n, fate) ==
    /\ request[c][n] = "travelling"
    /\ request' = [request EXCEPT ![c][n] = fate]
    /\ UNCHANGED <<user, at, settings, event, asked, channel, attempt, ending, diary, result>>

-----------------------------------------------------------------------------
Each(v) == [c \in Calls |-> v]

Init ==
    /\ enabled \in SUBSET Channels /\ secrets \in SUBSET WithSecret /\ changes = 0
    /\ at = Each("idle") /\ settings = Each({}) /\ event = Each(NoEvent) /\ asked = Each({})
    /\ channel = Each([ch \in Channels |-> "off"])
    /\ attempt = Each(0)
    /\ request = Each([n \in Attempts |-> "none"])
    /\ ending = Each([n \in Attempts |-> "open"])
    /\ records = Each([ch \in Channels |-> 0]) /\ unwritten = Each({})
    /\ result = Each("none")

Service == \E c \in Calls, n \in Attempts, fate \in {"accepted", "refused", "lost"} :
               Arrive(c, n, fate)

User ==
    \/ \E channels \in SUBSET Channels : SaveSettings(channels)
    \/ \E ch \in WithSecret : SetSecret(ch) \/ DeleteSecret(ch)

Step(c) ==
    \/ StartRun(c)
    \/ \E e \in Events : Notify(c, e)
    \/ \E ch \in Channels : Test(c, ch)
    \/ \E ch \in Channels : SecretRead(c, ch) \/ SecretMissing(c, ch)
    \/ \E ch \in Channels, outcome \in Over : Sent(c, ch, outcome)
    \/ Post(c)
    \/ \E how \in {"connection", "permanent"} : NotPosted(c, how)
    \/ AnswerAccepted(c)
    \/ \E how \in {"status", "network", "timeout", "permanent"} : AnswerError(c, how)
    \/ Resume(c)
    \/ DeadlineExpires(c)
    \/ Return(c)

Next == User \/ Service \/ \E c \in Calls : Step(c)

Spec == Init /\ [][Next]_vars

\* The timer of tokio fires; reading a secret and showing a notification come to an end;
\* the task is polled.  Nothing is expected of the service or of the mail server, around
\* whose answers the code puts no timeout.
FairSpec ==
    /\ Spec
    /\ \A c \in Calls :
         /\ WF_vars(DeadlineExpires(c))
         /\ \A ch \in Channels : WF_vars(SecretRead(c, ch) \/ SecretMissing(c, ch))
         /\ WF_vars(\E outcome \in Over : Sent(c, "desktop", outcome))
         /\ WF_vars(Return(c))

-----------------------------------------------------------------------------
TypeOK ==
    /\ enabled \subseteq Channels /\ secrets \subseteq WithSecret /\ changes \in 0 .. MaxChanges
    /\ at \in [Calls -> {"idle", "running", "notifying", "returned"}]
    /\ settings \in [Calls -> SUBSET Channels] /\ asked \in [Calls -> SUBSET Channels]
    /\ event \in [Calls -> Events \cup {NoEvent, TestEvent}]
    /\ channel \in [Calls -> [Channels -> {"off", "secret", "sending", "pausing"} \cup Over]]
    /\ attempt \in [Calls -> 0 .. 2]
    /\ request \in [Calls -> [Attempts -> {"none", "travelling", "accepted", "refused", "lost"}]]
    /\ ending \in [Calls -> [Attempts ->
          {"open", "ok", "connection", "network", "status", "permanent", "timeout"}]]
    /\ records \in [Calls -> [Channels -> 0 .. 1]] /\ unwritten \in [Calls -> SUBSET Channels]
    /\ result \in [Calls -> {"none"} \cup Over]

\* Nobody gets the same message twice unless the service, or something before it, took
\* the first one and then answered with a transient status or broke the connection: never
\* after a timeout, whose message may still arrive, nor after an answer that settles it
\* (deliver, deliver_inner, map_reqwest_error, http_error).
TwiceOnlyAfterLostAnswer ==
    \A c \in Calls : (\A n \in Attempts : request[c][n] = "accepted") =>
        ending[c][1] \in {"network", "status"}

\* When a run's notify returns, every channel that was enabled when the run started has
\* ended and made its one entry, unless that entry was refused by the file, and every other
\* channel none, whatever happened to the others and to the settings meanwhile; the result
\* tells a failed channel, with its entry or without; and only the success of a retry run
\* reached anybody (NotificationRunSink::notify, run_sink, should_notify, record_delivery).
EveryChannelReports ==
    \A c \in Calls : at[c] = "returned" /\ event[c] # TestEvent =>
        LET due == IF event[c] = [type |-> "runSucceeded", mode |-> "retry"]
                   THEN settings[c] ELSE {}
        IN /\ unwritten[c] \subseteq due
           /\ \A ch \in Channels :
                 records[c][ch] = IF ch \in due \ unwritten[c] THEN 1 ELSE 0
           /\ \A ch \in due : channel[c][ch] \in Over
           /\ "serverChan" \notin due => \A n \in Attempts : request[c][n] = "none"
           /\ result[c] = IF \E ch \in due : channel[c][ch] = "failed" THEN "failed" ELSE "ok"

MailSends(c) == channel[c]["email"] = "sending"

\* A run waits for its notification, run.lock in hand: whatever the service of Server酱 does
\* or does not do, the wait ends, provided the mail server lets the e-mail end: nothing in
\* the code bounds that (DELIVERY_TIMEOUT, deliver_email, join!).
NotifyReturns ==
    \A c \in Calls :
        (MailSends(c) ~> ~MailSends(c)) => (at[c] = "notifying" ~> at[c] = "returned")
=============================================================================
