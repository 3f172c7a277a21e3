------------------------------- MODULE Exec --------------------------------
(***************************************************************************)
(* RunInContainer (aci.go): the command-execution stream.  After the       *)
(* backend returns a websocket URI and password, the handler dials, sends  *)
(* the password, starts a goroutine copying the caller's stdin to the      *)
(* socket, and itself copies frames from the socket to the caller's        *)
(* stdout.  Its actors: the handler, the stdin goroutine, the remote       *)
(* terminal (frames, close), and the caller (input, end of input, context  *)
(* cancellation).  Frames and bytes are counted, not kept.                 *)
(***************************************************************************)
EXTENDS Naturals

CONSTANT MaxFrames   \* frames the remote may have queued at once

ASSUME ExecAssumption == MaxFrames \in Nat \ {0}

VARIABLES
    mainPc,    \* the handler: "setup", "dial", "auth", "top", "reading", "copying", "returned"
    inPc,      \* the stdin goroutine: "none" (not started), "top", "reading", "writing", "exited"
    hasIn,     \* attach.Stdin() # nil
    hasOut,    \* attach.Stdout() # nil
    dialed,    \* the websocket was opened
    connClosed,\* c.Close() was called
    frames,    \* frames the remote sent that the handler has not read
    remoteClosed,
    stdinData, \* the caller has typed input not yet read
    stdinEOF,
    ctxDone

vars == <<mainPc, inPc, hasIn, hasOut, dialed, connClosed, frames, remoteClosed,
          stdinData, stdinEOF, ctxDone>>
env == <<frames, remoteClosed, stdinData, stdinEOF, ctxDone>>

Init ==
    /\ mainPc = "setup"
    /\ inPc = "none"
    /\ hasIn \in BOOLEAN
    /\ hasOut \in BOOLEAN
    /\ dialed = FALSE
    /\ connClosed = FALSE
    /\ frames = 0
    /\ remoteClosed = FALSE
    /\ stdinData = FALSE
    /\ stdinEOF = FALSE
    /\ ctxDone = FALSE

(***************************************************************************)
(* The handler.                                                            *)
(***************************************************************************)
\* GetContainerGroupInfo and ExecuteContainerCommand; an error returns.
Setup ==
    /\ mainPc = "setup"
    /\ mainPc' \in {"dial", "returned"}
    /\ UNCHANGED <<inPc, hasIn, hasOut, dialed, connClosed, env>>

\* websocket.DefaultDialer.Dial; an error returns.
Dial ==
    /\ mainPc = "dial"
    /\ \/ mainPc' = "auth" /\ dialed' = TRUE
       \/ mainPc' = "returned" /\ UNCHANGED dialed
    /\ UNCHANGED <<inPc, hasIn, hasOut, connClosed, env>>

\* The password is written; an error returns before "defer c.Close()" is
\* registered.
AuthFail ==
    /\ mainPc = "auth"
    /\ mainPc' = "returned"
    /\ UNCHANGED <<inPc, hasIn, hasOut, dialed, connClosed, env>>

\* On success the close is deferred, the stdin goroutine started if there
\* is a stdin, and without a stdout the handler returns (closing c).
AuthOk ==
    /\ mainPc = "auth"
    /\ inPc' = IF hasIn THEN "top" ELSE "none"
    /\ mainPc' = IF hasOut THEN "top" ELSE "returned"
    /\ connClosed' = ~hasOut
    /\ UNCHANGED <<hasIn, hasOut, dialed, env>>

\* The loop's "select { case <-ctx.Done(): break; default: }": the break
\* leaves the select, not the loop, so either way the loop goes on.
MainTop ==
    /\ mainPc = "top"
    /\ mainPc' = "reading"
    /\ UNCHANGED <<inPc, hasIn, hasOut, dialed, connClosed, env>>

\* c.NextReader blocks until a frame arrives or the connection fails.
MainFrame ==
    /\ mainPc = "reading"
    /\ frames > 0
    /\ frames' = frames - 1
    /\ mainPc' = "copying"
    /\ UNCHANGED <<inPc, hasIn, hasOut, dialed, connClosed, remoteClosed,
                   stdinData, stdinEOF, ctxDone>>

\* Mutant: the read error's break placed inside a select, leaving the loop
\* running.
MainReadErrNoBreak ==
    /\ mainPc = "reading"
    /\ frames = 0
    /\ remoteClosed
    /\ mainPc' = "top"
    /\ UNCHANGED <<inPc, hasIn, hasOut, dialed, connClosed, env>>

\* Mutant: the read error returns on a path that does not close c (an
\* explicit close in place of the deferred one, missed on this path).
MainReadErrNoClose ==
    /\ mainPc = "reading"
    /\ frames = 0
    /\ remoteClosed
    /\ mainPc' = "returned"
    /\ UNCHANGED <<inPc, hasIn, hasOut, dialed, connClosed, env>>

MainReadErr ==
    /\ mainPc = "reading"
    /\ frames = 0
    /\ remoteClosed
    /\ mainPc' = "returned"
    /\ connClosed' = TRUE
    /\ UNCHANGED <<inPc, hasIn, hasOut, dialed, env>>

\* io.Copy to the caller's stdout; it fails once the caller has gone.
MainCopy ==
    /\ mainPc = "copying"
    /\ \/ mainPc' = "top" /\ UNCHANGED connClosed
       \/ ctxDone /\ mainPc' = "returned" /\ connClosed' = TRUE
    /\ UNCHANGED <<inPc, hasIn, hasOut, dialed, env>>

(***************************************************************************)
(* The stdin goroutine.                                                    *)
(***************************************************************************)
InTop ==
    /\ inPc = "top"
    /\ inPc' = IF ctxDone THEN "exited" ELSE "reading"
    /\ UNCHANGED <<mainPc, hasIn, hasOut, dialed, connClosed, env>>

\* in.Read blocks until input or the end of it.
InRead ==
    /\ inPc = "reading"
    /\ \/ stdinData /\ stdinData' = FALSE /\ inPc' = "writing"
       \/ ~stdinData /\ stdinEOF /\ inPc' = "exited" /\ UNCHANGED stdinData
    /\ UNCHANGED <<mainPc, hasIn, hasOut, dialed, connClosed, frames, remoteClosed,
                   stdinEOF, ctxDone>>

\* Mutant: a write on a connection the handler closed is not reported.
InWriteIgnoresClose ==
    /\ inPc = "writing"
    /\ inPc' = IF remoteClosed THEN "exited" ELSE "top"
    /\ UNCHANGED <<mainPc, hasIn, hasOut, dialed, connClosed, env>>

\* c.WriteMessage; it fails on a closed connection.
InWrite ==
    /\ inPc = "writing"
    /\ inPc' = IF connClosed \/ remoteClosed THEN "exited" ELSE "top"
    /\ UNCHANGED <<mainPc, hasIn, hasOut, dialed, connClosed, env>>

(***************************************************************************)
(* The remote terminal and the caller (environment).                       *)
(***************************************************************************)
RemoteSend ==
    /\ ~remoteClosed /\ frames < MaxFrames
    /\ frames' = frames + 1
    /\ UNCHANGED <<mainPc, inPc, hasIn, hasOut, dialed, connClosed, remoteClosed,
                   stdinData, stdinEOF, ctxDone>>

RemoteClose ==
    /\ ~remoteClosed
    /\ remoteClosed' = TRUE
    /\ UNCHANGED <<mainPc, inPc, hasIn, hasOut, dialed, connClosed, frames,
                   stdinData, stdinEOF, ctxDone>>

CallerInput ==
    /\ ~stdinData /\ ~stdinEOF
    /\ stdinData' = TRUE
    /\ UNCHANGED <<mainPc, inPc, hasIn, hasOut, dialed, connClosed, frames,
                   remoteClosed, stdinEOF, ctxDone>>

CallerEOF ==
    /\ ~stdinEOF
    /\ stdinEOF' = TRUE
    /\ UNCHANGED <<mainPc, inPc, hasIn, hasOut, dialed, connClosed, frames,
                   remoteClosed, stdinData, ctxDone>>

Cancel ==
    /\ ~ctxDone
    /\ ctxDone' = TRUE
    /\ UNCHANGED <<mainPc, inPc, hasIn, hasOut, dialed, connClosed, frames,
                   remoteClosed, stdinData, stdinEOF>>

Handler == Setup \/ Dial \/ AuthFail \/ AuthOk \/ MainTop \/ MainFrame \/ MainReadErr \/ MainCopy
Goroutine == InTop \/ InRead \/ InWrite

Next ==
    \/ Handler \/ Goroutine
    \/ RemoteSend \/ RemoteClose \/ CallerInput \/ CallerEOF \/ Cancel

\* The handler and the goroutine run whenever they are not blocked; the
\* remote terminal and the caller owe nothing.
Spec == Init /\ [][Next]_vars /\ WF_vars(Handler) /\ WF_vars(Goroutine)

\* Spec 6: the stream terminates on context cancellation: once the
\* caller's context is cancelled, RunInContainer eventually returns.
ReturnsOnCancel == ctxDone ~> mainPc = "returned"

\* Spec 6: the stream terminates on its end: once the remote terminal has
\* closed the connection, RunInContainer eventually returns (having read
\* every frame the remote sent before closing).
ReturnsOnRemoteClose == remoteClosed ~> mainPc = "returned"

\* The stdin goroutine of RunInContainer does not outlive the handler once
\* the caller's stdin yields: it checks the context only before in.Read
\* and blocks in it, so after the handler has returned (and closed the
\* websocket) the next input or end of input must make it exit, through
\* the failing write or the read error.
StdinGoroutineEnds ==
    (mainPc = "returned" /\ (stdinData \/ stdinEOF)) ~> inPc \in {"none", "exited"}

\* RunInContainer starts the stdin goroutine only after "defer c.Close()"
\* is registered (aci.go:537), so once the handler has returned, by any
\* path, a goroutine still running holds a closed websocket.
OrphanGoroutineSeesClose ==
    mainPc = "returned" /\ inPc \in {"top", "reading", "writing"} => connClosed

\* No input typed into the stdin goroutine reaches the remote terminal after
\* RunInContainer has returned: a c.WriteMessage that succeeds (aci.go:556)
\* happens while the handler is still serving the stream.
NoWriteAfterReturn ==
    [][inPc = "writing" /\ inPc' = "top" => mainPc # "returned"]_vars

=============================================================================
