------------------------------ MODULE RtpClock ------------------------------
(***************************************************************************)
(* The RTP timestamps of one client's track and the RTCP sender reports    *)
(* (src/src/main.cpp): the camera thread sets rtpConfig->timestamp for     *)
(* every frame and asks for a report; MainThread sets it for the initial   *)
(* units of a client, which is Ready before they are sent.  A message goes *)
(* out with the timestamp it finds, and with a report if one was asked.    *)
(*                                                                         *)
(* Time is counted in ticks of the RTP clock, of which a second has few;   *)
(* timestamps and durations have Width bits, 32 in the code.               *)
(***************************************************************************)
EXTENDS Integers

CONSTANTS
    Width,
    Second,         \* clockRate
    Lead,           \* the 10 ticks taken off a frame's timestamp
    Start,          \* rtpConfig->startTimestamp, random in the code
    Gaps,           \* the times between two buffers of the encoder
    Horizon         \* bound: the time at which the camera stops

Wrap(n) == n % (2^Width)

VARIABLES
    now,                            \* the time, as the camera stamps buffers
    last_frame_timestamp, last_frame_duration,
    timestamp,                      \* rtpConfig->timestamp
    mLastReportedTimestamp, mNeedsToReport,
    camera, adder,                  \* where the two threads are
    ready,                          \* Client::State::Ready
    frameTimestampDuration,         \* of sendInitialNalus
    reportedAt                      \* history: the time of the last report

frameVars == <<now, last_frame_timestamp, last_frame_duration>>
reportVars == <<mLastReportedTimestamp, mNeedsToReport, reportedAt>>
adderVars == <<adder, ready, frameTimestampDuration>>
vars == <<frameVars, timestamp, reportVars, camera, adderVars>>

Init ==
    /\ now = 0
    /\ last_frame_timestamp = 0
    /\ last_frame_duration = 0
    /\ timestamp = Start
    /\ mLastReportedTimestamp = 0
    /\ mNeedsToReport = FALSE
    /\ camera = "idle"
    /\ adder = "idle"
    /\ ready = FALSE
    /\ frameTimestampDuration = 0
    /\ reportedAt = 0 - Second

\* RtcpSrReporter (libdatachannel) reports with the message that is sent.
Send ==
    /\ mLastReportedTimestamp' = IF mNeedsToReport THEN timestamp
                                 ELSE mLastReportedTimestamp
    /\ reportedAt' = IF mNeedsToReport THEN now ELSE reportedAt
    /\ mNeedsToReport' = FALSE

-----------------------------------------------------------------------------
(* on_mmalcam_buffer, on the camera thread.                                *)

\* Only a client that is Ready is sent the frame.
BeginFrame(gap) ==
    /\ camera = "idle"
    /\ now + gap <= Horizon
    /\ now' = now + gap
    /\ last_frame_duration' = Wrap(now' - last_frame_timestamp)
    /\ last_frame_timestamp' = Wrap(now')
    /\ camera' = IF ready THEN "stamp" ELSE "idle"
    /\ UNCHANGED <<timestamp, reportVars, adderVars>>

StampFrame ==
    /\ camera = "stamp"
    /\ timestamp' = Wrap(Start + last_frame_duration - Lead)
    /\ camera' = "report"
    /\ UNCHANGED <<frameVars, reportVars, adderVars>>

AskForReport ==
    /\ camera = "report"
    /\ mNeedsToReport' =
          (mNeedsToReport \/ Wrap(timestamp - mLastReportedTimestamp) > Second)
    /\ camera' = "send"
    /\ UNCHANGED <<frameVars, timestamp, mLastReportedTimestamp, reportedAt,
                   adderVars>>

SendFrame ==
    /\ camera = "send"
    /\ Send
    /\ camera' = "idle"
    /\ UNCHANGED <<frameVars, timestamp, adderVars>>

-----------------------------------------------------------------------------
(* addToStream and sendInitialNalus, on MainThread, with units to send.    *)

SetReady ==
    /\ adder = "idle" /\ ~ready
    /\ ready' = TRUE
    /\ adder' = "first"
    /\ UNCHANGED <<frameVars, timestamp, reportVars, camera,
                   frameTimestampDuration>>

\* Two frames before the start, and one before it.
StampFirst ==
    /\ adder = "first"
    /\ frameTimestampDuration' = last_frame_duration
    /\ timestamp' = Wrap(Start - 2 * last_frame_duration)
    /\ adder' = "sendFirst"
    /\ UNCHANGED <<frameVars, reportVars, camera, ready>>

StampSecond ==
    /\ adder = "second"
    /\ timestamp' = Wrap(timestamp + frameTimestampDuration)
    /\ adder' = "sendSecond"
    /\ UNCHANGED <<frameVars, reportVars, camera, ready,
                   frameTimestampDuration>>

SendInitial ==
    /\ adder \in {"sendFirst", "sendSecond"}
    /\ Send
    /\ adder' = IF adder = "sendFirst" THEN "second" ELSE "idle"
    /\ UNCHANGED <<frameVars, timestamp, camera, ready,
                   frameTimestampDuration>>

Stop ==
    /\ camera = "idle" /\ adder = "idle"
    /\ \A gap \in Gaps : now + gap > Horizon
    /\ UNCHANGED vars

Next ==
    \/ \E gap \in Gaps : BeginFrame(gap)
    \/ StampFrame \/ AskForReport \/ SendFrame
    \/ SetReady \/ StampFirst \/ StampSecond \/ SendInitial
    \/ Stop

Spec == Init /\ [][Next]_vars

-----------------------------------------------------------------------------
\* "check if last report was at least 1 second ago" (main.cpp:334): a report is
\* asked for with the first frame that is sent a second or more after the last
\* report, and with no frame before.
ReportEverySecond ==
    [][camera = "report" /\ camera' = "send" =>
          mNeedsToReport' = (mNeedsToReport \/ now - reportedAt >= Second)]_vars
=============================================================================
