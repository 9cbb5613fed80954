----------------------------- MODULE PlayBuffer -----------------------------
(***************************************************************************)
(* How the two sound threads of the client share the ring buffer           *)
(* (NetVoice/Source/VoiceModule.cpp): the play thread saves each frame it  *)
(* plays, the capture thread loads one for each frame it records, as the   *)
(* reference of the echo canceller.  The sound card drives each thread by  *)
(* an event of its own, and nothing makes one wait for the other.  Either  *)
(* thread may be missing: a player that may not speak records nothing      *)
(* (VoiceProxy.cpp:35), a sound device may not open, which Start ignores,  *)
(* and each thread leaves its loop when the device fails.                  *)
(***************************************************************************)
EXTENDS CirBuffer

CONSTANTS
  Frame,      (* SIZE_PER_FRAME                                              *)
  CanSpeak    (* m_CanSpeak: whether Start tries to record                   *)

ASSUME PlayBufferAssumption ==
  /\ Frame \in 1 .. MaxLen
  /\ 0 \in Bytes
  /\ CanSpeak \in BOOLEAN

VARIABLES
  voice,      (* how far Start or Stop of the voice proxy is                 *)
  playing,    (* the play thread runs                                        *)
  capture,    (* where the capture thread is                                 *)
  frameNo,    (* the content of the next frame to play                       *)
  aborted     (* an assert of the ring buffer failed: which one, or "no"     *)

playVars == <<ringVars, voice, playing, capture, frameNo, aborted>>

PlayTypeOK ==
  /\ RingTypeOK
  /\ voice \in {"stopped", "starting", "started", "stopping"}
  /\ playing \in BOOLEAN
  /\ capture \in {"stopped", "first", "check", "load"}
  /\ frameNo \in Bytes
  /\ aborted \in {"no", "save", "load"}

\* What malloc left in the ring is never read, so it can be anything.
PlayInit ==
  /\ mp_buf = [k \in Positions |-> 0]
  /\ m_write = 0
  /\ m_read = 0
  /\ loaded = <<>>
  /\ voice = "stopped"
  /\ playing = FALSE
  /\ capture = "stopped"
  /\ frameNo = 0
  /\ aborted = "no"

-----------------------------------------------------------------------------
Running == aborted = "no"

\* Start of the voice proxy: first the capture thread, for a player that may
\* speak and if the device opens.  The ring keeps what it holds.
StartCaputerMIC ==
  /\ Running
  /\ voice = "stopped"
  /\ voice' = "starting"
  /\ capture' \in IF CanSpeak THEN {"first", "stopped"} ELSE {"stopped"}
  /\ UNCHANGED <<ringVars, playing, frameNo, aborted>>

\* Then the play thread, whatever became of the other.
StartPlayStream ==
  /\ Running
  /\ voice = "starting"
  /\ voice' = "started"
  /\ playing' \in BOOLEAN
  /\ UNCHANGED <<ringVars, capture, frameNo, aborted>>

\* Stop waits for the threads, which leave at the top of their loops.
StopCaptureMIC ==
  /\ Running
  /\ voice = "started"
  /\ capture # "load"
  /\ voice' = "stopping"
  /\ capture' = "stopped"
  /\ UNCHANGED <<ringVars, playing, frameNo, aborted>>

StopPlayStream ==
  /\ Running
  /\ voice = "stopping"
  /\ voice' = "stopped"
  /\ playing' = FALSE
  /\ UNCHANGED <<ringVars, capture, frameNo, aborted>>

\* The breaks of ThreadCaputerMIC: the wait, the position or the lock of the
\* device failed.
CaptureBreaks ==
  /\ Running
  /\ capture \in {"first", "check"}
  /\ capture' = "stopped"
  /\ UNCHANGED <<ringVars, voice, playing, frameNo, aborted>>

\* Those of ThreadPlayStream, all before the frame is saved.
PlayBreaks ==
  /\ Running
  /\ playing
  /\ playing' = FALSE
  /\ UNCHANGED <<ringVars, voice, capture, frameNo, aborted>>

\* Mutant: the frame is saved without the assert, over what is there.
PlayFrame_NoAssert ==
  /\ Running
  /\ playing
  /\ Save([i \in 1 .. Frame |-> frameNo])
  /\ frameNo' = IF frameNo + 1 \in Bytes THEN frameNo + 1 ELSE 0
  /\ UNCHANGED <<aborted, voice, playing, capture>>

\* PLAY_EVENT: one frame is played, and saved under m_PlayBufferLock.
PlayFrame ==
  /\ Running
  /\ playing
  /\ \/ /\ Frame <= Space
        /\ Save([i \in 1 .. Frame |-> frameNo])
        /\ frameNo' = IF frameNo + 1 \in Bytes THEN frameNo + 1 ELSE 0
        /\ UNCHANGED aborted
     \/ /\ Frame > Space
        /\ aborted' = "save"
        /\ UNCHANGED <<ringVars, frameNo>>
  /\ UNCHANGED <<voice, playing, capture>>

\* MIC_EVENT: the first frame is skipped.
SkipFirst ==
  /\ Running
  /\ capture = "first"
  /\ capture' = "check"
  /\ UNCHANGED <<ringVars, voice, playing, frameNo, aborted>>

\* Mutant: any data at all passes for a frame.
CheckData_AnyData ==
  /\ Running
  /\ capture = "check"
  /\ capture' = "load"
  /\ UNCHANGED <<ringVars, voice, playing, frameNo, aborted>>

\* MIC_EVENT: the amount of data is read without the lock.  With less than a
\* frame of it the reference is silence, and an event that finds no whole frame
\* recorded is passed over: neither changes anything here.
CheckData ==
  /\ Running
  /\ capture = "check"
  /\ Data >= Frame
  /\ capture' = "load"
  /\ UNCHANGED <<ringVars, voice, playing, frameNo, aborted>>

\* Mutant: a byte of the frame stays in the ring.
LoadFrame_Short ==
  /\ Running
  /\ capture = "load"
  /\ loaded' = [i \in 1 .. Frame |-> mp_buf[Mask(m_read + i - 1)]]
  /\ m_read' = Mask(m_read + Frame - 1)
  /\ capture' = "check"
  /\ UNCHANGED <<mp_buf, m_write, voice, playing, frameNo, aborted>>

\* The load, under m_PlayBufferLock.
LoadFrame ==
  /\ Running
  /\ capture = "load"
  /\ \/ /\ Frame <= Data
        /\ Load(Frame)
        /\ UNCHANGED aborted
     \/ /\ Frame > Data
        /\ aborted' = "load"
        /\ UNCHANGED ringVars
  /\ capture' = "check"
  /\ UNCHANGED <<voice, playing, frameNo>>

PlayNext == StartCaputerMIC \/ StartPlayStream \/ StopCaptureMIC \/ StopPlayStream
            \/ CaptureBreaks \/ PlayBreaks \/ PlayFrame \/ SkipFirst \/ CheckData
            \/ LoadFrame

PlaySpec == PlayInit /\ [][PlayNext]_playVars

-----------------------------------------------------------------------------
(***************************************************************************)
(* Properties.                                                             *)
(***************************************************************************)
\* assert(len <= util_cbuf_data(buf)), CirBuffer.cpp:110: the check made
\* without the lock is still good when the frame is loaded, because only the
\* capture thread takes data out.
LoadFits == aborted # "load"

\* assert(len <= util_cbuf_space(buf)), CirBuffer.cpp:91: there is always room
\* for the frame just played.  The play thread does not look, so this fails for
\* a player that records nothing and, since nothing ties the pace of recording
\* to that of playing, for one that does.
SaveFits == aborted # "save"

\* The echo canceller is given the frames that were played, whole, in order
\* and each once, also when they wrap round the end of the ring, and whatever
\* session they were played in.
FramesInOrder ==
  [][loaded' # loaded =>
       /\ \A i \in 1 .. Frame : loaded'[i] = loaded'[1]
       /\ loaded # <<>> => \/ loaded'[1] = loaded[1] + 1
                           \/ loaded'[1] = 0 /\ loaded[1] + 1 \notin Bytes]_playVars
=============================================================================
