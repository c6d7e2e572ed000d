---------------------------- MODULE LiveAcoustic ----------------------------
(***************************************************************************)
(* One run of scripts/live_acoustic_windowpilot.py: the wrapper checks its *)
(* arguments and the frozen recording, starts the node process that owns   *)
(* the window and the streaming recognizer that writes to its standard     *)
(* input, waits for both and kills the node process when the recognizer    *)
(* fails.  Three processes and one pipe, with crashes and an interrupt.    *)
(* What the recognizer hears, whether the window is ready and whether the  *)
(* home runtime lets the probe through are choices of the environment.     *)
(***************************************************************************)
EXTENDS Integers, Sequences, FiniteSets

CONSTANTS
  Texts,          \* non-empty normalized hypotheses
  StableRepeats,  \* HypothesisEmitter.stable_repeats
  Commands,       \* command lines to consider, records [given, engine]
  Recordings,     \* contents the WAV file may have
  Usable,         \* those of them that are mono 16-bit PCM with frames
  Swapping,       \* where the wrapper may be while the WAV file is replaced
  MaxChunks,      \* bound: chunks of audio in one run
  MaxFiles        \* bound: manifests written and recordings replaced; only
                  \* in runs with a manifest, others look at the file once

ASSUME RepeatsAssumption == StableRepeats \in Nat /\ StableRepeats >= 2

VARIABLES
  args,      \* the command line of the run
  wav,       \* content of the WAV file
  manifest,  \* the frozen manifest, a sequence of at most one record
  main,      \* where run() of the wrapper is
  asr,       \* the recognizer process
  em,        \* its HypothesisEmitter
  lastText,  \* decode()'s last_text
  audio,     \* the recording the recognizer opened, <<>> before
  said,      \* what was said, one text per acoustic segment that had any
  pipe,      \* the node process's standard input
  writers,   \* processes that hold the pipe's writing end
  node,      \* where the node process is
  guard,     \* its AsrEventSequenceGuard
  heard,     \* texts of the final events it accepted
  ok,        \* no error was raised in it so far
  window,    \* [position, writes, closeouts] of the physical window
  chunks, files

fileVars == <<wav, manifest, files>>
asrVars  == <<asr, em, lastText, audio, said, chunks>>
nodeVars == <<node, guard, heard, ok, window>>
runVars  == <<args, fileVars, main, asrVars, pipe, writers, nodeVars>>

-----------------------------------------------------------------------------
(* The hypothesis protocol (scripts/asr_event_protocol.py).                *)

NoText == "no text"
Kinds  == {"partial", "stable", "final"}

\* validate_asr_event(): what an event must have, on both ends of the pipe.
Valid(e) == e.kind \in Kinds /\ e.text # NoText /\ e.segment >= 1 /\ e.revision >= 1

Emitter(segment) ==
  [segment |-> segment, revision |-> 0, last |-> NoText, same |-> 0, stable |-> NoText]

\* _event(): an event of the emitter's segment and revision.
Event(kind, text, e) ==
  [kind |-> kind, text |-> text, segment |-> e.segment, revision |-> e.revision]

\* A hypothesis that differs from the last one starts a new revision.
Revised(e, text) ==
  IF text = e.last THEN e
  ELSE [segment |-> e.segment, revision |-> e.revision + 1, last |-> text, same |-> 1,
        stable |-> NoText]

\* observe(): the emitter and the events afterwards.
Observe(e, text) ==
  LET again == [e EXCEPT !.same = @ + 1] IN
  IF text = NoText THEN [em |-> e, out |-> <<>>]
  ELSE IF text # e.last
    THEN [em |-> Revised(e, text), out |-> <<Event("partial", text, Revised(e, text))>>]
  ELSE IF again.same >= StableRepeats /\ e.stable # text
    THEN [em |-> [again EXCEPT !.stable = text], out |-> <<Event("stable", text, e)>>]
  ELSE [em |-> again, out |-> <<>>]

\* mutant: a segment that ends keeps its last text.
FinalizeKeepsText(e, text) ==
  LET t == IF text = NoText THEN e.last ELSE text
      f == Revised(e, t)
  IN [em  |-> [Emitter(e.segment + 1) EXCEPT !.last = t],
      out |-> IF t = NoText THEN <<>> ELSE <<Event("final", t, f)>>]

\* finalize() and _reset_segment(): an endpoint without any text says nothing
\* and still takes a segment number.
Finalize(e, text) ==
  LET t == IF text = NoText THEN e.last ELSE text
      f == Revised(e, t)
  IN [em  |-> Emitter(e.segment + 1),
      out |-> IF t = NoText THEN <<>> ELSE <<Event("final", t, f)>>]

\* AsrEventSequenceGuard.accept(), the reader of these events.
Guard0 == [segment |-> 0, revision |-> 0, text |-> NoText, finalized |-> FALSE]
Entered(g, e) == IF g.segment = e.segment THEN g ELSE [Guard0 EXCEPT !.segment = e.segment]
Accepts(g, e) ==
  LET h == Entered(g, e) IN
  /\ Valid(e)
  /\ g.segment \notin {0, e.segment} => g.finalized /\ e.segment = g.segment + 1
  /\ g.segment = e.segment => ~g.finalized
  /\ e.revision >= h.revision
  /\ e.kind = "stable" => e.revision = h.revision /\ h.text \in {NoText, e.text}
  /\ e.kind = "partial" => e.revision > h.revision \/ e.text = h.text
Accepted(g, e) ==
  [Entered(g, e) EXCEPT !.revision = e.revision, !.text = e.text,
                        !.finalized = e.kind = "final"]

-----------------------------------------------------------------------------
(* Frozen recordings (scripts/acoustic_fixture_manifest.py).               *)

SourceKinds == {"human_recording", "local_tts", "official_fixture"}

\* inspect_wav(): raises for anything but mono 16-bit PCM with frames.
Inspects(w) == w \in Usable

\* build_manifest(): a human recording needs a note of its provenance.
CanFreeze(w, kind, note) == Inspects(w) /\ (kind = "human_recording" => note)
BuildManifest(w, kind, note) == [kind |-> kind, note |-> note, sha256 |-> w]

\* mutant: only the format of the recording is compared, not its bytes.
VerifyFormat(w, m, required) ==
  /\ m.kind \in SourceKinds
  /\ required # "" => m.kind = required
  /\ m.kind = "human_recording" => m.note
  /\ Inspects(w)

\* verify_manifest(): valid exactly when no reason against it was found.
VerifyManifest(w, m, required) ==
  /\ m.kind \in SourceKinds
  /\ required # "" => m.kind = required
  /\ m.kind = "human_recording" => m.note
  /\ Inspects(w) /\ m.sha256 = w

-----------------------------------------------------------------------------
(* Command lines.                                                          *)

ApplyNeeds == {"expected_hardware_identity", "receipt", "proof_bundle",
               "contextual_state", "authorization_ledger", "spatialruntime_authorize"}

Given(flag) == flag \in args.given

\* What --apply demands, in parse_args(), in build_commands() and once more in
\* the node process.
ApplyComplete ==
  Given("apply") => ApplyNeeds \subseteq args.given
                    /\ (Given("scene_context") \/ Given("world_snapshot"))
FixtureFlags == (Given("require_human_fixture") => Given("fixture_manifest"))
                /\ (Given("fixture_manifest") => Given("wav"))
SceneFlags == (Given("world_snapshot") <=> Given("world_validation_receipt"))
              /\ ~(Given("scene_context") /\ Given("world_snapshot"))

\* parse_args(): argparse errors end the wrapper before anything happens.
ParseArgs == /\ args.engine \notin {"none", "paraformer_without_decoder"}
             /\ ApplyComplete /\ FixtureFlags

\* The fixture gate of build_commands(), lines 42 to 74.
FixtureGate ==
  Given("fixture_manifest") =>
    /\ manifest # <<>>
    /\ VerifyManifest(wav, manifest[1],
         IF Given("require_human_fixture") THEN "human_recording" ELSE "")

\* build_commands(): SystemExit, ValueError, or the two command lines.
BuildCommands == ApplyComplete /\ FixtureFlags /\ FixtureGate /\ SceneFlags

\* create_recognizer(): the model files that the chosen engine needs.
CreateRecognizer == args.engine \notin {"none", "paraformer_without_decoder"}

-----------------------------------------------------------------------------
RunInit ==
  /\ args \in Commands
  /\ wav \in Recordings /\ manifest = <<>>
  /\ main = "idle" /\ asr = "off" /\ em = Emitter(1) /\ lastText = NoText
  /\ audio = <<>> /\ said = <<>> /\ pipe = <<>> /\ writers = {}
  /\ node = "off" /\ guard = Guard0 /\ heard = <<>> /\ ok = TRUE
  /\ window = [position |-> "shut", writes |-> 0, closeouts |-> 0]
  /\ chunks = 0 /\ files = 0

\* acoustic_fixture_manifest.py create, before the run.
Freeze(kind, note) ==
  /\ main = "idle" /\ files < MaxFiles /\ Given("fixture_manifest")
  /\ CanFreeze(wav, kind, note)
  /\ manifest' = <<BuildManifest(wav, kind, note)>>
  /\ files' = files + 1
  /\ UNCHANGED <<args, wav, main, asrVars, pipe, writers, nodeVars>>

\* Somebody puts another recording under the same name.
Replace(w) ==
  /\ main \in Swapping /\ files < MaxFiles /\ w # wav /\ Given("fixture_manifest")
  /\ wav' = w /\ files' = files + 1
  /\ UNCHANGED <<args, manifest, main, asrVars, pipe, writers, nodeVars>>

-----------------------------------------------------------------------------
(* The wrapper: run().                                                     *)

WrapperOnly == UNCHANGED <<args, fileVars, asrVars, pipe, nodeVars>>

Parse == /\ main = "idle"
         /\ main' = IF ParseArgs THEN "build" ELSE "done"
         /\ WrapperOnly /\ UNCHANGED writers

Build == /\ main = "build"
         /\ main' = IF BuildCommands /\ ~Given("print_commands") THEN "node" ELSE "done"
         /\ WrapperOnly /\ UNCHANGED writers

StartNode == /\ main = "node" /\ main' = "asr"
             /\ node' = "starting" /\ writers' = {"main"}
             /\ UNCHANGED <<args, fileVars, asrVars, pipe, guard, heard, ok, window>>

\* The second Popen: it inherits the writing end of the pipe.
StartAsr == /\ main = "asr" /\ main' = "close"
            /\ asr' = "starting" /\ writers' = writers \cup {"asr"}
            /\ UNCHANGED <<args, fileVars, em, lastText, audio, said, chunks, pipe, nodeVars>>

\* The second Popen raises: only a keyboard interrupt is caught, so the
\* wrapper ends and leaves the node process behind.
AsrNotFound == /\ main = "asr" /\ main' = "done"
               /\ writers' = writers \ {"main"} /\ WrapperOnly

\* mutant: the wrapper keeps its own copy of the writing end.
CloseEndForgotten == /\ main = "close" /\ main' = "wait asr"
                     /\ UNCHANGED writers /\ WrapperOnly

\* node.stdin.close(): without it the node process would never see the end.
CloseEnd == /\ main = "close" /\ main' = "wait asr"
            /\ writers' = writers \ {"main"} /\ WrapperOnly

WaitAsr == /\ main = "wait asr" /\ asr \in {"exited", "failed"}
           /\ main' = IF asr = "failed" THEN "kill" ELSE "wait node"
           /\ WrapperOnly /\ UNCHANGED writers

\* node.terminate() and node.wait(): the node process installs no handler.
Kill == /\ main = "kill" /\ main' = "done"
        /\ node' = IF node = "ended" THEN node ELSE "killed"
        /\ writers' = writers \ {"main"}
        /\ UNCHANGED <<args, fileVars, asrVars, pipe, guard, heard, ok, window>>

WaitNode == /\ main = "wait node" /\ node = "ended"
            /\ main' = "done" /\ WrapperOnly /\ UNCHANGED writers

\* A keyboard interrupt inside the try block; it reaches the recognizer too.
Interrupt ==
  /\ main \in {"asr", "close", "wait asr", "wait node"} /\ main' = "kill"
  /\ asr' = IF asr = "exited" THEN asr ELSE "failed"
  /\ writers' = writers \ {"asr"}
  /\ UNCHANGED <<args, fileVars, em, lastText, audio, said, chunks, pipe, nodeVars>>

Wrapper == \/ Parse \/ Build \/ StartNode \/ StartAsr \/ AsrNotFound
           \/ CloseEnd \/ WaitAsr \/ Kill \/ WaitNode

-----------------------------------------------------------------------------
(* The recognizer process: decode() of scripts/sherpa_streaming_asr.py.    *)

AsrOnly == UNCHANGED <<args, fileVars, main, nodeVars>>

\* A write to a pipe whose reader is gone raises.
Broken == node \in {"ended", "killed"}

AsrFails == /\ asr' = "failed" /\ writers' = writers \ {"asr"}
            /\ UNCHANGED <<em, lastText, audio, said, chunks, pipe>>

\* The models are loaded and the WAV file is opened: a file that is not mono
\* 16-bit PCM ends the process.
OpenAudio ==
  /\ asr = "starting" /\ AsrOnly
  /\ \/ /\ CreateRecognizer /\ Inspects(wav)
        /\ asr' = "decoding" /\ audio' = <<wav>>
        /\ UNCHANGED <<em, lastText, said, chunks, pipe, writers>>
     \/ ~(CreateRecognizer /\ Inspects(wav)) /\ AsrFails

\* One chunk: the hypothesis is observed, an endpoint finalizes the segment
\* and resets the recognizer.
Chunk(text, endpoint) ==
  LET seen == Observe(em, text)
      done == Finalize(seen.em, text)
      last == IF text = NoText THEN lastText ELSE text
      out  == IF endpoint THEN seen.out \o done.out ELSE seen.out
  IN
  /\ asr = "decoding" /\ chunks < MaxChunks /\ AsrOnly
  /\ \/ /\ out = <<>> \/ ~Broken
        /\ em' = IF endpoint THEN done.em ELSE seen.em
        /\ lastText' = IF endpoint THEN NoText ELSE last
        /\ said' = IF endpoint /\ last # NoText THEN Append(said, last) ELSE said
        /\ pipe' = pipe \o out /\ chunks' = chunks + 1
        /\ UNCHANGED <<asr, audio, writers>>
     \/ out # <<>> /\ Broken /\ AsrFails

\* The end of the audio: the tail is decoded and what is left is final.
EndOfAudio(tail) ==
  LET text == IF tail = NoText THEN lastText ELSE tail
      seen == Observe(em, text)
      done == Finalize(seen.em, text)
  IN
  /\ asr = "decoding" /\ AsrOnly
  /\ \/ /\ chunks > 0 /\ (text = NoText \/ ~Broken)
        /\ em' = done.em /\ asr' = "exited"
        /\ said' = IF text = NoText THEN said ELSE Append(said, text)
        /\ pipe' = pipe \o seen.out \o done.out /\ writers' = writers \ {"asr"}
        /\ UNCHANGED <<lastText, audio, chunks>>
     \/ (chunks = 0 \/ (text # NoText /\ Broken)) /\ AsrFails

\* An exception in the decoder, or the process is killed.
AsrCrash == asr \in {"starting", "decoding"} /\ AsrOnly /\ AsrFails

Recognizer == OpenAudio \/ \E t \in Texts \cup {NoText} : EndOfAudio(t)

-----------------------------------------------------------------------------
(* The node process: run_acoustic_windowpilot_e2e.cjs.                     *)

NodeOnly == UNCHANGED <<args, fileVars, main, asrVars, writers>>

\* Whatever ended the try block, the checkpoint client is closed next.
Stop(fine) == ok' = fine /\ node' = "closing"

\* Arguments, readiness of the window, its initial position.
NodeStart(ready) ==
  /\ node = "starting" /\ NodeOnly
  /\ node' = IF ready /\ ApplyComplete /\ SceneFlags THEN "reading" ELSE "ended"
  /\ ok' = (node' = "reading")
  /\ UNCHANGED <<pipe, guard, heard, window>>

\* mutant: a second final of the stream is taken as well.
ReadAll(processed) ==
  /\ node = "reading" /\ pipe # <<>> /\ NodeOnly
  /\ pipe' = Tail(pipe)
  /\ LET e == Head(pipe)
     IN IF Accepts(guard, e) /\ processed
        THEN /\ guard' = Accepted(guard, e)
             /\ heard' = IF e.kind = "final" THEN Append(heard, e.text) ELSE heard
             /\ UNCHANGED <<node, ok>>
        ELSE Stop(FALSE) /\ UNCHANGED <<guard, heard>>
  /\ UNCHANGED window

\* One line: the guard, at most one final with --apply, and the session.
Read(processed) ==
  /\ node = "reading" /\ pipe # <<>> /\ NodeOnly
  /\ pipe' = Tail(pipe)
  /\ LET e == Head(pipe)
         second == Given("apply") /\ e.kind = "final" /\ heard # <<>>
     IN IF Accepts(guard, e) /\ ~second /\ processed
        THEN /\ guard' = Accepted(guard, e)
             /\ heard' = IF e.kind = "final" THEN Append(heard, e.text) ELSE heard
             /\ UNCHANGED <<node, ok>>
        ELSE Stop(FALSE) /\ UNCHANGED <<guard, heard>>
  /\ UNCHANGED window

\* The end of its input: with --apply the one final is executed now.
EndOfInput ==
  /\ node = "reading" /\ pipe = <<>> /\ writers = {} /\ NodeOnly
  /\ IF Given("apply") /\ heard # <<>>
     THEN node' = "acting" /\ UNCHANGED ok
     ELSE Stop(heard # <<>>)
  /\ UNCHANGED <<pipe, guard, heard, window>>

\* The decision proposal is refused, or the probe opens the window.
Act(permitted) ==
  /\ node = "acting" /\ NodeOnly
  /\ node' = "closing"
  /\ IF permitted
     THEN /\ window' = [window EXCEPT !.position = "open", !.writes = @ + 1]
          /\ UNCHANGED ok
     ELSE ok' = FALSE /\ UNCHANGED window
  /\ UNCHANGED <<pipe, guard, heard>>

\* client.close() at the head of the finally block: the input of the checkpoint
\* server is ended and its exit awaited.  A server that exits with anything but
\* 0 makes it throw, out of the finally block and past the closeout.
CloseClient(clean) ==
  /\ node = "closing" /\ NodeOnly
  /\ node' = IF clean /\ Given("apply") THEN "closeout" ELSE "ended"
  /\ ok' = (ok /\ clean)
  /\ UNCHANGED <<pipe, guard, heard, window>>

\* closeout() with --apply: close the window if it is not shut.
Closeout(closes) ==
  /\ node = "closeout" /\ node' = "ended" /\ NodeOnly
  /\ window' = [window EXCEPT !.closeouts = @ + 1,
                              !.position = IF closes THEN "shut" ELSE @]
  /\ ok' = (ok /\ window'.position = "shut")
  /\ UNCHANGED <<pipe, guard, heard>>

NodeStep == \/ EndOfInput
            \/ \E b \in BOOLEAN : NodeStart(b) \/ Read(b) \/ Act(b) \/ CloseClient(b) \/ Closeout(b)

-----------------------------------------------------------------------------
RunNext ==
  \/ \E kind \in SourceKinds, note \in BOOLEAN : Freeze(kind, note)
  \/ \E w \in Recordings : Replace(w)
  \/ Wrapper \/ Interrupt \/ Recognizer \/ AsrCrash
  \/ \E t \in Texts \cup {NoText}, endpoint \in BOOLEAN : Chunk(t, endpoint)
  \/ NodeStep

\* Processes that can go on do, and the audio ends (a file does, and a
\* microphone is switched off).  The checkpoint server of the node process
\* answers what it is asked and exits when its input has ended.
Fairness == WF_runVars(Wrapper) /\ WF_runVars(Recognizer) /\ WF_runVars(NodeStep)

RunSpec == RunInit /\ [][RunNext]_runVars /\ Fairness

-----------------------------------------------------------------------------
(* Properties.                                                             *)

\* Where the final events are, and how many there are up to a place.
FinalAt(events) == {i \in DOMAIN events : events[i].kind = "final"}
UpTo(events, i) == Cardinality({j \in FinalAt(events) : j <= i})

\* However the recognizer revises, falls silent, ends or crashes, what was
\* said in one acoustic segment is final once and with its last words: the
\* finals accepted and those on their way are the utterances, in order.  (A
\* node process that stopped has thrown the rest away.)
OneFinalPerUtterance ==
  node \in {"starting", "reading"} =>
    /\ Len(said) = Len(heard) + Cardinality(FinalAt(pipe))
    /\ \A k \in DOMAIN heard : said[k] = heard[k]
    /\ \A i \in FinalAt(pipe) : said[Len(heard) + UpTo(pipe, i)] = pipe[i].text

\* The window is opened at most once, for the only thing that was said and
\* after all input, and no error on the way out hides that it still is: a node
\* process that ends by itself without an error has closed it again.  (When the
\* checkpoint server fails at its exit the window is left open, with an error.)
ProbeAccountable ==
  window.writes > 0 =>
    /\ window.writes = 1 /\ Len(heard) = 1
    /\ asr \notin {"starting", "decoding"} /\ Len(said) = 1
    /\ node = "ended" /\ ok => window.closeouts = 1 /\ window.position = "shut"

\* What is decoded under a fixture manifest is the recording that was frozen
\* in it, and a human one where that was required.  Nobody replaces the file
\* once it was checked (Swapping).
FixtureHeld ==
  audio # <<>> /\ Given("fixture_manifest") =>
    /\ audio[1] = manifest[1].sha256
    /\ Given("require_human_fixture") => manifest[1].kind = "human_recording"

\* The run ends and leaves no process behind, whichever of them fails first.
RunEnds == <>[](main = "done" /\ node \in {"off", "ended", "killed"})

=============================================================================
