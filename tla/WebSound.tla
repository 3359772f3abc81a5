------------------------------ MODULE WebSound ------------------------------
(***************************************************************************)
(* Reception in the page (webapp/app.js): every PCM frame is a task of its *)
(* own, which may await the audio context that the browser suspends on its *)
(* own account; the pilot mutes and unmutes meanwhile.                     *)
(*                                                                         *)
(* A frame is a number; mutings counts rxPlaybackEpoch.                    *)
(***************************************************************************)
EXTENDS Naturals, FiniteSets

CONSTANTS
    MaxFrames,      \* bound: frames and test tones
    MaxMutings      \* bound: presses of the mute button

ASSUME SoundAssumption == MaxFrames \in Nat /\ MaxMutings \in Nat

VARIABLES
    muted,          \* rxMuted
    playbackEpoch,          \* rxPlaybackEpoch
    context,        \* state of the audio context
    deferred,        \* frames whose task awaits ensureAudio(), with their epoch
    scheduled,      \* rxSources
    unlocking,      \* a gesture awaits ensureAudio()
    frames

soundVars == <<muted, playbackEpoch, context, deferred, scheduled, unlocking, frames>>

SoundInit ==
    /\ muted = FALSE /\ playbackEpoch = 0 /\ context = "none" /\ deferred = {} /\ scheduled = {}
    /\ unlocking = FALSE /\ frames = 0

\* ensureAudio(): a context exists; whether it runs is up to the browser.
EnsureAudio == context' = IF context \in {"none", "closed"} THEN "suspended" ELSE context

\* What is to be played, up to the await of ensureAudio().
Asked(tone) ==
    /\ frames < MaxFrames /\ frames' = frames + 1
    /\ IF muted
       THEN UNCHANGED <<deferred, context>>
       ELSE /\ deferred' = deferred \cup {[frame |-> frames', epoch |-> playbackEpoch, tone |-> tone]}
            /\ EnsureAudio
    /\ UNCHANGED <<muted, playbackEpoch, scheduled, unlocking>>

\* handleIncomingPcm() of a frame, and playBrowserTestTone()
FrameArrives == Asked(FALSE)
TestTone == Asked(TRUE)

\* After the await: a test of the mute button alone.
Unmuted(task) == ~muted

\* After the await: neither muted nor muted and unmuted meanwhile.
StillWanted(task) == ~muted /\ task.epoch = playbackEpoch

\* ... when a frame is dropped unless the context runs.
FrameContinues(task) ==
    /\ task \in deferred /\ deferred' = deferred \ {task}
    /\ scheduled' = IF StillWanted(task) /\ (task.tone \/ context = "running")
                    THEN scheduled \cup {task} ELSE scheduled
    /\ UNCHANGED <<muted, playbackEpoch, context, unlocking, frames>>

FrameEnds(task) ==
    /\ task \in scheduled /\ scheduled' = scheduled \ {task}
    /\ UNCHANGED <<muted, playbackEpoch, context, deferred, unlocking, frames>>

\* toggleRxMute(): what is queued stops with the muting; the click that unmutes
\* also serves as the gesture that lets the context run.
ToggleMute ==
    /\ playbackEpoch < MaxMutings /\ playbackEpoch' = playbackEpoch + 1
    /\ muted' = ~muted
    /\ IF muted' THEN scheduled' = {} /\ UNCHANGED context ELSE UNCHANGED scheduled /\ EnsureAudio
    /\ UNCHANGED <<deferred, unlocking, frames>>

\* A gesture anywhere in the page while the context does not run.
Unlock ==
    /\ ~unlocking /\ context # "running"
    /\ unlocking' = TRUE /\ EnsureAudio
    /\ UNCHANGED <<muted, playbackEpoch, deferred, scheduled, frames>>

UnlockEnds ==
    /\ unlocking /\ unlocking' = FALSE
    /\ UNCHANGED <<muted, playbackEpoch, context, deferred, scheduled, frames>>

\* The browser resumes, suspends or closes the context; a closed one is
\* replaced by resumeAudioIfNeeded() and loses what it had scheduled.
ContextChanges(next) ==
    /\ context \notin {"none", next}
    /\ (context = "closed") = (next = "none")
    /\ context' = next
    /\ scheduled' = IF next = "closed" THEN {} ELSE scheduled
    /\ UNCHANGED <<muted, playbackEpoch, deferred, unlocking, frames>>

SoundNext ==
    \/ FrameArrives \/ TestTone \/ ToggleMute \/ Unlock \/ UnlockEnds
    \/ \E task \in deferred : FrameContinues(task)
    \/ \E task \in scheduled : FrameEnds(task)
    \/ \E next \in {"none", "suspended", "running", "closed"} : ContextChanges(next)

SoundSpec == SoundInit /\ [][SoundNext]_soundVars

-----------------------------------------------------------------------------
\* A muted page is silent, and "unmuting cannot replay old audio"
\* (toggleRxMute): what is scheduled arrived since the last unmuting, however
\* long its task waited for the audio context.
NothingReplayed == \A task \in scheduled : ~muted /\ task.epoch = playbackEpoch
=============================================================================
