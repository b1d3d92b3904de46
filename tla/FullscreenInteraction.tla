------------------------ MODULE FullscreenInteraction ------------------------
(***************************************************************************)
(* When the map drawn inside the game may take the mouse and the keyboard   *)
(* away from the game.  The renderer watches three signals: Escape in the   *)
(* game's window procedure, whether the game shows its cursor, and the      *)
(* input mode of the frames pal-overlay publishes.  It asks the overlay for *)
(* a mode with EnterInteractive or Lock, through the pending cell the       *)
(* bridge thread empties, and captures input only in the authorized phase.  *)
(*                                                                         *)
(* hudhook runs before_render and before_wnd_proc one at a time, so each is *)
(* one step.  Ages count ticks; the four time limits keep the code's order. *)
(* The overlay and the settings service behind it apply a request late,     *)
(* never, or change the mode by themselves.                                 *)
(***************************************************************************)
EXTENDS Integers

CONSTANTS
    Retry,          \* MODE_ACTION_RETRY_INTERVAL, in ticks
    HideGrace,      \* CURSOR_HIDE_GRACE
    IntentTimeout,  \* ENTER_INTERACTION_INTENT_TIMEOUT
    AckTimeout,     \* INTERACTION_ACK_TIMEOUT
    MaxOwnChanges,  \* bound: changes the overlay makes without being asked
    MaxEscapes      \* bound: presses of Escape

ASSUME InteractionAssumption ==
    /\ Retry \in Nat /\ HideGrace \in Nat /\ IntentTimeout \in Nat /\ AckTimeout \in Nat
    /\ MaxOwnChanges \in Nat /\ MaxEscapes \in Nat

VARIABLES
    current,   \* the presented frame
    pending,   \* the frame the bridge thread has left for the render thread
    sync,      \* CursorInteractionSync
    auth,      \* InteractionAuthorization
    cells,     \* writer_alive, pending_enter_intent, escape_lock_pending, pending_mode_action
    cursor,    \* what GetCursorInfo would say
    overlay,   \* the overlay: its mode, its map, the mailbox word it has not taken
    hist       \* history and bounds

inputVars == <<current, pending, sync, auth, cells, cursor, overlay, hist>>

None == "none"
Never == -1
Modes == {"locked", "interactive"}
NoImage == [expanded |-> FALSE, mode |-> None]

CapAge == AckTimeout + 1
Older(age) == IF age = Never \/ age = CapAge THEN age ELSE age + 1

NoSync == [hidden |-> Never, target |-> None, sent |-> 0, intent |-> Never]
NoAuth == [phase |-> "idle", age |-> 0, lockSent |-> Never]

InteractionInit ==
    /\ current = NoImage /\ pending = NoImage
    /\ sync = NoSync /\ auth = NoAuth
    /\ cells = [alive |-> FALSE, intent |-> Never, escape |-> FALSE, mode |-> None]
    /\ cursor \in {"hidden", "visible"}
    /\ overlay \in [mode: Modes, expanded: BOOLEAN, mail: {None}]
    /\ hist = [escapes |-> 0, changes |-> 0, asked |-> FALSE, lostSight |-> FALSE]

----------------------------------------------------------------------------
(* CursorInteractionSync *)

\* request_transition: the first time, and again when the last one is old
RequestTransition(s, mode, target, action) ==
    IF mode = target
      THEN [sync |-> [s EXCEPT !.target = None], action |-> None]
      ELSE IF s.target # target \/ s.sent >= Retry
        THEN [sync |-> [s EXCEPT !.target = target, !.sent = 0], action |-> action]
        ELSE [sync |-> s, action |-> None]

\* Mutant: a visible cursor is enough.
SyncLockedOnCursor(s, visible) ==
    IF visible THEN RequestTransition(s, "locked", "interactive", "enter")
               ELSE [sync |-> s, action |-> None]

\* The locked arm of update: entering needs a recent Escape and the cursor.
SyncLocked(s, visible) ==
    LET recent   == s.intent # Never /\ s.intent <= IntentTimeout
        retrying == s.target = "interactive"
        t        == [s EXCEPT !.hidden = Never, !.intent = IF recent THEN @ ELSE Never]
    IN  CASE ~visible ->
               [sync |-> [t EXCEPT !.target = IF retrying THEN None ELSE @], action |-> None]
          [] visible /\ ~retrying /\ ~recent -> [sync |-> t, action |-> None]
          [] OTHER ->
               RequestTransition([t EXCEPT !.intent = IF retrying THEN @ ELSE Never],
                                 "locked", "interactive", "enter")

\* The interactive arm: leaving after the cursor has been hidden for a while
SyncInteractive(s, visible) ==
    LET t == [s EXCEPT !.intent = Never,
                       !.hidden = IF visible THEN Never ELSE IF @ = Never THEN 0 ELSE @]
    IN  IF visible \/ t.hidden < HideGrace
          THEN [sync |-> [t EXCEPT !.target = None], action |-> None]
          ELSE RequestTransition(t, "interactive", "locked", "lock")

\* CursorInteractionSync::update
SyncUpdate(s, frame, visible, escape) ==
    LET t == IF s.target = frame.mode THEN [s EXCEPT !.target = None] ELSE s
    IN  CASE ~frame.expanded -> [sync |-> NoSync, action |-> None]
          [] frame.expanded /\ escape ->
               RequestTransition([t EXCEPT !.hidden = Never, !.intent = Never],
                                 frame.mode, "locked", "lock")
          [] frame.expanded /\ ~escape /\ frame.mode = "locked" -> SyncLocked(t, visible)
          [] OTHER -> SyncInteractive(t, visible)

----------------------------------------------------------------------------
(* InteractionAuthorization *)

\* InteractionAuthorization::update on an expanded frame; lock is RequestLock.
AuthUpdate(a, frame, cursorNow) ==
    LET b == IF a.phase = "awaiting" /\ a.age > AckTimeout
               THEN [a EXCEPT !.phase = "idle"] ELSE a
    IN  CASE frame.mode = "locked" ->
               [auth |-> [b EXCEPT !.lockSent = Never,
                                   !.phase = IF @ = "authorized" THEN "idle" ELSE @],
                lock |-> FALSE]
          [] frame.mode = "interactive" /\ b.phase = "idle" ->
               LET due == b.lockSent = Never \/ b.lockSent >= Retry
               IN  [auth |-> [b EXCEPT !.lockSent = IF due THEN 0 ELSE @], lock |-> due]
          [] frame.mode = "interactive" /\ b.phase = "awaiting" /\ cursorNow # "visible" ->
               [auth |-> b, lock |-> FALSE]
          [] OTHER ->
               [auth |-> [phase |-> "authorized", age |-> 0, lockSent |-> Never],
                lock |-> FALSE]

----------------------------------------------------------------------------
(* The render thread *)

\* reset_cursor_interaction
ResetInteraction ==
    /\ sync' = NoSync /\ auth' = NoAuth
    /\ cells' = [cells EXCEPT !.intent = Never, !.escape = FALSE, !.mode = None]

\* before_render once the newest frame is the presented one
RenderExpanded(frame) ==
    LET known   == cursor # "unknown"
        visible == cursor = "visible"
        noted   == [sync EXCEPT !.intent = IF cells.intent # Never THEN cells.intent ELSE @]
        step    == IF known THEN SyncUpdate(noted, frame, visible, cells.escape)
                            ELSE [sync |-> sync, action |-> None]
        before  == CASE step.action = "enter" -> [phase |-> "awaiting", age |-> 0, lockSent |-> Never]
                     [] step.action = "lock" -> NoAuth
                     [] OTHER -> auth
        after   == AuthUpdate(before, frame, cursor)
        cell    == IF step.action # None THEN step.action
                   ELSE IF known /\ step.sync.target = None THEN None ELSE cells.mode
    IN  /\ sync' = step.sync
        /\ auth' = after.auth
        /\ cells' = [cells EXCEPT
                       !.intent = IF known THEN Never ELSE @,
                       !.mode = IF after.lock THEN "lock" ELSE cell,
                       !.escape = @ /\ ~(known /\ frame.mode = "locked" /\ ~visible)]

BeforeRenderInput ==
    LET frame == IF pending # NoImage THEN pending ELSE current
    IN  /\ IF ~cells.alive
             THEN current' = NoImage /\ UNCHANGED pending /\ ResetInteraction
             ELSE /\ current' = frame /\ pending' = NoImage
                  /\ IF frame # NoImage /\ frame.expanded
                       THEN RenderExpanded(frame) ELSE ResetInteraction
        /\ hist' = [hist EXCEPT !.lostSight =
                      @ \/ (/\ cells.alive /\ auth.phase = "awaiting"
                           /\ frame.mode = "locked" /\ cursor = "hidden")]
        /\ UNCHANGED <<cursor, overlay>>

\* before_wnd_proc on the release of Escape.  The game sees the key as well.
Escape ==
    /\ hist.escapes < MaxEscapes
    /\ cells.alive /\ current # NoImage /\ current.expanded
    /\ IF current.mode = "interactive"
         THEN /\ auth' = NoAuth
              /\ cells' = [cells EXCEPT !.intent = Never, !.escape = TRUE, !.mode = "lock"]
              /\ hist' = [hist EXCEPT !.escapes = @ + 1, !.asked = FALSE]
         ELSE /\ cells' = [cells EXCEPT !.intent = IF cells.escape THEN @ ELSE 0]
              /\ hist' = [hist EXCEPT !.escapes = @ + 1,
                                      !.asked = @ \/ ~cells.escape, !.lostSight = FALSE]
              /\ UNCHANGED auth
    /\ UNCHANGED <<current, pending, sync, cursor, overlay>>

\* message_filter: the input the game does not get
Capturing ==
    /\ cells.alive /\ current.expanded /\ current.mode = "interactive"
    /\ auth.phase = "authorized"

----------------------------------------------------------------------------
(* The bridge thread and the overlay *)

\* One turn of the bridge thread: the mode request goes into the mailbox, the
\* overlay's frame comes back; a stale heartbeat empties the cells.
BridgePoll ==
    /\ \/ /\ cells' = [cells EXCEPT !.alive = TRUE, !.mode = None]
          /\ overlay' = IF cells.mode = None THEN overlay ELSE [overlay EXCEPT !.mail = cells.mode]
          /\ pending' = [expanded |-> overlay.expanded, mode |-> overlay.mode]
          /\ UNCHANGED hist
       \/ /\ hist.changes < MaxOwnChanges
          /\ cells' = [cells EXCEPT !.alive = FALSE, !.mode = None]
          /\ pending' = NoImage
          /\ hist' = [hist EXCEPT !.changes = @ + 1]
          /\ UNCHANGED overlay
    /\ UNCHANGED <<current, sync, auth, cursor>>

\* The overlay takes the word and the settings service accepts the change.
OverlayApplies ==
    /\ overlay.mail # None
    /\ overlay' = [overlay EXCEPT !.mail = None,
                                  !.mode = IF overlay.mail = "lock" THEN "locked" ELSE "interactive"]
    /\ UNCHANGED <<current, pending, sync, auth, cells, cursor, hist>>

\* It refuses the change, or the player changes the overlay by a hotkey or in
\* the desktop application.
OverlayChanges ==
    /\ hist.changes < MaxOwnChanges
    /\ \/ overlay.mail # None /\ overlay' = [overlay EXCEPT !.mail = None]
       \/ overlay' = [overlay EXCEPT !.expanded = ~@]
       \/ overlay' = [overlay EXCEPT !.mode = IF @ = "locked" THEN "interactive" ELSE "locked"]
    /\ hist' = [hist EXCEPT !.changes = @ + 1]
    /\ UNCHANGED <<current, pending, sync, auth, cells, cursor>>

\* The game shows or hides its cursor, or GetCursorInfo fails.
CursorChanges ==
    /\ cursor' \in {"hidden", "visible", "unknown"} \ {cursor}
    /\ UNCHANGED <<current, pending, sync, auth, cells, overlay, hist>>

Tick ==
    /\ sync' = [sync EXCEPT !.hidden = Older(@), !.sent = Older(@), !.intent = Older(@)]
    /\ auth' = [auth EXCEPT !.age = Older(@), !.lockSent = Older(@)]
    /\ cells' = [cells EXCEPT !.intent = Older(@)]
    /\ UNCHANGED <<current, pending, cursor, overlay, hist>>

InteractionNext ==
    \/ BeforeRenderInput \/ Escape \/ BridgePoll \/ OverlayApplies \/ OverlayChanges
    \/ CursorChanges \/ Tick

\* The game renders, time passes, the bridge thread polls and the overlay
\* takes its mail.  A request in the pending cell lasts at least one frame
\* and is made again until it is heard, at moments unrelated to the bridge
\* thread's polls: it is polled for in time again and again.
InteractionFairness ==
    /\ WF_inputVars(BeforeRenderInput) /\ WF_inputVars(Tick)
    /\ WF_inputVars(BridgePoll) /\ SF_inputVars(BridgePoll /\ cells.mode # None /\ cells'.alive)
    /\ WF_inputVars(OverlayApplies)

InteractionSpec == InteractionInit /\ [][InteractionNext]_inputVars /\ InteractionFairness

----------------------------------------------------------------------------
(* Properties *)

\* Input is taken from the game only after the player pressed Escape on the
\* locked map, and never again after an Escape that gave it back: "Requiring
\* both signals prevents the always-visible main-menu cursor from capturing
\* Palworld input" (lib.rs:453).
CaptureNeedsEscape == Capturing => hist.asked

=============================================================================
