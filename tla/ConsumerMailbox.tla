-------------------------- MODULE ConsumerMailbox --------------------------
(***************************************************************************)
(* The way back of the fullscreen bridge: what the player does on the map   *)
(* inside the game (buttons, drags, recentring, a search result) reaches    *)
(* pal-overlay through single words of the shared mapping, and the search   *)
(* catalogue travels the other way under a sequence lock of its own.        *)
(*                                                                         *)
(* Four parties: the render thread fills pending cells, the bridge thread   *)
(* empties them into the mapping every 8 ms, the overlay's loop takes them  *)
(* from there, and the overlay process may end and start again on the same  *)
(* mapping.  Every load and store of the mapping is a step.  A button press *)
(* is known by its number, a catalogue by the process that published it.    *)
(* Drag lengths count half units of the mapping's 1/16 pixel.               *)
(***************************************************************************)
EXTENDS Integers, Sequences, TLAPS

CONSTANTS
    MaxButtons,     \* bound: map buttons pressed
    MaxModes,       \* bound: mode changes the render thread asks for
    MaxDrags,       \* bound: mouse samples of a drag
    DragLengths,    \* the lengths of a sample, in half units
    LaneMax,        \* the largest unit count a pan lane holds (i16::MAX in the code)
    MaxRecenters,   \* bound: presses of the recentre button
    MaxSelections,  \* bound: search results clicked
    MaxHostStarts   \* bound: starts of the overlay process

VARIABLES
    ui,      \* the pending cells of the render loop and what it shows
    words,   \* the words of the mapping
    bridge,  \* the bridge thread
    host,    \* the overlay process
    past     \* history: what was pressed, dragged, taken

mailboxVars == <<ui, words, bridge, host, past>>

NoSelection == [cat |-> 0]

FreshWords ==
    [act |-> 0, actSeq |-> 0, pan |-> 0, recSeq |-> 0, sel |-> NoSelection, selSeq |-> 0,
     cat |-> 0, catSeq |-> 0, heart |-> "zero"]

FreshHost(pc, gen) ==
    [pc |-> pc, gen |-> gen, lastAct |-> 0, lastRec |-> 0, lastSel |-> 0, seen |-> 0]

MailboxInit ==
    /\ ui = [mode |-> 0, act |-> 0, pan |-> 0, recenter |-> FALSE, sel |-> NoSelection,
             alive |-> FALSE, pendingCat |-> 0, cat |-> 0]
    /\ words = FreshWords
    /\ bridge = [pc |-> "poll", act |-> 0, before |-> 0, copy |-> 0, lastCat |-> 0]
    /\ host = FreshHost("down", 0)
    /\ past = [pressed |-> 0, modes |-> 0, drags |-> 0, dragged |-> 0, drained |-> 0,
               discarded |-> 0, submits |-> 0, saturated |-> FALSE, recenters |-> 0,
               selections |-> 0, taken |-> <<>>]

----------------------------------------------------------------------------
(* The render thread.  It draws its controls only while the writer lives. *)

\* draw_bottom_dock and draw_filter_popover: the last button pressed stays.
PressButton ==
    /\ ui.alive /\ past.pressed < MaxButtons
    /\ ui' = [ui EXCEPT !.act = past.pressed + 1]
    /\ past' = [past EXCEPT !.pressed = @ + 1]
    /\ UNCHANGED <<words, bridge, host>>

\* before_render and before_wnd_proc: a change of mode is asked for.  Its
\* number is negative, so that it is told from a button.
AskMode ==
    /\ ui.alive /\ past.modes < MaxModes
    /\ ui' = [ui EXCEPT !.mode = -(past.modes + 1)]
    /\ past' = [past EXCEPT !.modes = @ + 1]
    /\ UNCHANGED <<words, bridge, host>>

\* update_map_drag: the samples add up until the bridge thread takes them.
Drag ==
    /\ ui.alive /\ past.drags < MaxDrags
    /\ \E d \in DragLengths:
         /\ ui' = [ui EXCEPT !.pan = @ + d]
         /\ past' = [past EXCEPT !.drags = @ + 1, !.dragged = @ + d]
    /\ UNCHANGED <<words, bridge, host>>

PressRecenter ==
    /\ ui.alive /\ past.recenters < MaxRecenters
    /\ ui' = [ui EXCEPT !.recenter = TRUE]
    /\ past' = [past EXCEPT !.recenters = @ + 1]
    /\ UNCHANGED <<words, bridge, host>>

\* draw_search_results_popover: a click on a row of the catalogue on screen
ClickResult ==
    /\ ui.alive /\ ui.cat # 0 /\ past.selections < MaxSelections
    /\ ui' = [ui EXCEPT !.sel = [cat |-> ui.cat]]
    /\ past' = [past EXCEPT !.selections = @ + 1]
    /\ UNCHANGED <<words, bridge, host>>

\* The catalogue part of before_render
TakeCatalog ==
    /\ \/ ~ui.alive /\ ui.cat # 0 /\ ui' = [ui EXCEPT !.cat = 0]
       \/ /\ ui.alive /\ ui.pendingCat # 0
          /\ ui' = [ui EXCEPT !.cat = ui.pendingCat, !.pendingCat = 0]
    /\ UNCHANGED <<words, bridge, host, past>>

----------------------------------------------------------------------------
(* The bridge thread, one turn of bridge_reader_loop *)

BridgeAt(pc) == bridge.pc = pc

PollWriter ==
    /\ BridgeAt("poll")
    /\ IF words.heart = "fresh"
         THEN /\ ui' = [ui EXCEPT !.alive = TRUE]
              /\ bridge' = [bridge EXCEPT !.pc = "takeAction"]
              /\ UNCHANGED past
         ELSE /\ ui' = [mode |-> 0, act |-> 0, pan |-> 0, recenter |-> FALSE,
                        sel |-> NoSelection, alive |-> FALSE, pendingCat |-> 0, cat |-> ui.cat]
              /\ bridge' = [bridge EXCEPT !.lastCat = 0]
              /\ past' = [past EXCEPT !.discarded = @ + ui.pan]
    /\ UNCHANGED <<words, host>>

\* take_pending_consumer_action: the mode change first, the button next turn
TakePendingAction ==
    /\ BridgeAt("takeAction")
    /\ LET taken == IF ui.mode # 0 THEN ui.mode ELSE ui.act
       IN  /\ bridge' = [bridge EXCEPT !.pc = IF taken = 0 THEN "pan" ELSE "storeAction",
                                       !.act = taken]
           /\ ui' = IF ui.mode # 0 THEN [ui EXCEPT !.mode = 0] ELSE [ui EXCEPT !.act = 0]
    /\ UNCHANGED <<words, host, past>>

\* submit_action: the word, then its sequence number
SubmitAction ==
    /\ \/ /\ BridgeAt("storeAction")
          /\ words' = [words EXCEPT !.act = bridge.act]
          /\ bridge' = [bridge EXCEPT !.pc = "bumpAction"]
       \/ /\ BridgeAt("bumpAction")
          /\ words' = [words EXCEPT !.actSeq = @ + 1]
          /\ bridge' = [bridge EXCEPT !.pc = "pan"]
    /\ UNCHANGED <<ui, host, past>>

\* encode_pan_delta: rounds to whole units, half away from zero
Quantize(d) == IF d >= 0 THEN (d + 1) \div 2 ELSE -((1 - d) \div 2)

Clamp(n) == IF n > LaneMax THEN LaneMax ELSE IF n < -LaneMax - 1 THEN -LaneMax - 1 ELSE n

\* Mutant: the lane wraps around at its end.
AccumulateWrapping(current, delta) ==
    ((current + delta + LaneMax + 1) % (2 * (LaneMax + 1))) - LaneMax - 1

\* accumulate_packed_pan, one lane
Accumulate(current, delta) == Clamp(current + delta)

\* submit_pan_delta: one atomic update of the lane.  The pending cell is
\* emptied whether or not anything is left of it after rounding.
SubmitPan ==
    /\ BridgeAt("pan")
    /\ LET units == Clamp(Quantize(ui.pan))
       IN  /\ words' = [words EXCEPT !.pan = Accumulate(@, units)]
           /\ past' = [past EXCEPT !.submits = @ + (IF ui.pan = 0 THEN 0 ELSE 1),
                                   !.saturated = @ \/ Clamp(words.pan + units) # words.pan + units
                                                   \/ units # Quantize(ui.pan)]
    /\ ui' = [ui EXCEPT !.pan = 0]
    /\ bridge' = [bridge EXCEPT !.pc = "recenter"]
    /\ UNCHANGED host

SubmitRecenter ==
    /\ BridgeAt("recenter")
    /\ words' = [words EXCEPT !.recSeq = IF ui.recenter THEN @ + 1 ELSE @]
    /\ ui' = [ui EXCEPT !.recenter = FALSE]
    /\ bridge' = [bridge EXCEPT !.pc = "select"]
    /\ UNCHANGED <<host, past>>

\* submit_search_selection: only an index below the catalogue's count.  A
\* mapping without a catalogue has count 0.
SubmitSelection ==
    /\ BridgeAt("select")
    /\ words' = IF ui.sel # NoSelection /\ words.cat # 0
                THEN [words EXCEPT !.sel = ui.sel, !.selSeq = @ + 1] ELSE words
    /\ ui' = [ui EXCEPT !.sel = NoSelection]
    /\ bridge' = [bridge EXCEPT !.pc = "loadCat"]
    /\ UNCHANGED <<host, past>>

\* read_search_catalog
ReadCatalog ==
    /\ \/ /\ BridgeAt("loadCat")
          /\ bridge' = IF words.catSeq = 0 \/ words.catSeq % 2 = 1 \/ words.catSeq = bridge.lastCat
                         THEN [bridge EXCEPT !.pc = "poll"]
                         ELSE [bridge EXCEPT !.pc = "copyCat", !.before = words.catSeq]
          /\ UNCHANGED ui
       \/ /\ BridgeAt("copyCat")
          /\ bridge' = [bridge EXCEPT !.pc = "afterCat", !.copy = words.cat]
          /\ UNCHANGED ui
       \/ /\ BridgeAt("afterCat")
          /\ words.catSeq # bridge.before
          /\ bridge' = [bridge EXCEPT !.pc = "poll"]
          /\ UNCHANGED ui
       \/ /\ BridgeAt("afterCat")
          /\ words.catSeq = bridge.before
          /\ bridge' = [bridge EXCEPT !.pc = "poll", !.lastCat = bridge.before]
          /\ ui' = [ui EXCEPT !.pendingCat = bridge.copy]
    /\ UNCHANGED <<words, host, past>>

BridgeStep ==
    \/ PollWriter \/ TakePendingAction \/ SubmitAction \/ SubmitPan \/ SubmitRecenter
    \/ SubmitSelection \/ ReadCatalog

----------------------------------------------------------------------------
(* The overlay process *)

HostAt(pc) == host.pc = pc

\* A start resets every word of the mapping (initialize_header) and begins
\* with no sequence number seen (OverlayWindowHost::create).
StartHost ==
    /\ HostAt("down") /\ host.gen < MaxHostStarts
    /\ words' = FreshWords
    /\ host' = FreshHost("catBegin", host.gen + 1)
    /\ past' = [past EXCEPT !.discarded = @ + 2 * words.pan]
    /\ UNCHANGED <<ui, bridge>>

\* Any publication or visibility call of the overlay renews its heartbeat.
Beat ==
    /\ ~HostAt("down") /\ words.heart # "fresh"
    /\ words' = [words EXCEPT !.heart = "fresh"]
    /\ UNCHANGED <<ui, bridge, host, past>>

\* publish_search_catalog, once per process, before its loop
PublishCatalog ==
    /\ \/ /\ HostAt("catBegin")
          /\ words' = [words EXCEPT !.catSeq = @ + 1]
          /\ host' = [host EXCEPT !.pc = "catFill"]
       \/ /\ HostAt("catFill")
          /\ words' = [words EXCEPT !.cat = host.gen]
          /\ host' = [host EXCEPT !.pc = "catEnd"]
       \/ /\ HostAt("catEnd")
          /\ words' = [words EXCEPT !.catSeq = @ + 1]
          /\ host' = [host EXCEPT !.pc = "loop"]
    /\ UNCHANGED <<ui, bridge, past>>

\* take_consumer_action: the sequence number, then the word
TakeAction ==
    /\ \/ /\ HostAt("loop")
          /\ host' = IF words.actSeq = 0 \/ words.actSeq = host.lastAct
                       THEN [host EXCEPT !.pc = "navigate"]
                       ELSE [host EXCEPT !.pc = "word", !.seen = words.actSeq]
          /\ UNCHANGED past
       \/ /\ HostAt("word")
          /\ host' = IF words.act # 0
                       THEN [host EXCEPT !.pc = "navigate", !.lastAct = host.seen]
                       ELSE [host EXCEPT !.pc = "navigate"]
          /\ past' = IF words.act # 0
                       THEN [past EXCEPT !.taken = Append(@, words.act)] ELSE past
    /\ UNCHANGED <<ui, words, bridge>>

\* Mutant: the pan lane is read and cleared in two steps.
NavigateInTwoSteps ==
    /\ \/ /\ HostAt("navigate")
          /\ host' = [host EXCEPT !.pc = "drain", !.seen = words.pan]
          /\ UNCHANGED <<words, past>>
       \/ /\ HostAt("drain")
          /\ words' = [words EXCEPT !.pan = 0]
          /\ past' = [past EXCEPT !.drained = @ + 2 * host.seen]
          /\ host' = [host EXCEPT !.pc = "select"]
    /\ UNCHANGED <<ui, bridge>>

\* take_fullscreen_map_navigation: a recentring wins over the drag that waits
\* with it, and drops it.
Navigate ==
    /\ \/ /\ HostAt("navigate")
          /\ IF words.recSeq # 0 /\ words.recSeq # host.lastRec
               THEN host' = [host EXCEPT !.pc = "drop", !.lastRec = words.recSeq]
               ELSE host' = [host EXCEPT !.pc = "drain"]
          /\ UNCHANGED <<words, past>>
       \/ /\ HostAt("drop")
          /\ words' = [words EXCEPT !.pan = 0]
          /\ past' = [past EXCEPT !.discarded = @ + 2 * words.pan]
          /\ host' = [host EXCEPT !.pc = "select"]
       \/ /\ HostAt("drain")
          /\ words' = [words EXCEPT !.pan = 0]
          /\ past' = [past EXCEPT !.drained = @ + 2 * words.pan]
          /\ host' = [host EXCEPT !.pc = "select"]
    /\ UNCHANGED <<ui, bridge>>

\* take_consumer_search_selection: the index is looked up in the catalogue of
\* this process.
TakeSelection ==
    /\ HostAt("select")
    /\ IF words.selSeq # 0 /\ words.selSeq # host.lastSel
         THEN host' = [host EXCEPT !.pc = "loop", !.lastSel = words.selSeq]
         ELSE host' = [host EXCEPT !.pc = "loop"]
    /\ UNCHANGED <<ui, words, bridge, past>>

HostStep == PublishCatalog \/ TakeAction \/ Navigate \/ TakeSelection

HostEnds ==
    /\ ~HostAt("down") /\ host.gen < MaxHostStarts
    /\ host' = [host EXCEPT !.pc = "down"]
    /\ UNCHANGED <<ui, words, bridge, past>>

HostHeartAges ==
    /\ words.heart = "fresh" /\ HostAt("down")
    /\ words' = [words EXCEPT !.heart = "stale"]
    /\ UNCHANGED <<ui, bridge, host, past>>

MailboxNext ==
    \/ PressButton \/ AskMode \/ Drag \/ PressRecenter \/ ClickResult \/ TakeCatalog
    \/ BridgeStep
    \/ StartHost \/ Beat \/ HostStep \/ HostEnds \/ HostHeartAges

\* The threads run, and a running overlay keeps renewing its heartbeat.
MailboxFairness ==
    /\ WF_mailboxVars(TakeCatalog) /\ WF_mailboxVars(BridgeStep) /\ WF_mailboxVars(HostStep)
    /\ WF_mailboxVars(Beat) /\ WF_mailboxVars(StartHost)

MailboxSpec == MailboxInit /\ [][MailboxNext]_mailboxVars /\ MailboxFairness

----------------------------------------------------------------------------
(* Properties *)

Abs(n) == IF n < 0 THEN -n ELSE n

\* Every drag arrives, is still on its way, or was dropped with a recentring
\* or a lost writer, up to half a unit for each submission: "Draining an
\* accumulated delta instead of a latest-only sample prevents slow producer
\* frames from losing part of a drag gesture" (lib.rs:472).
PanAccounted ==
    \/ past.saturated
    \/ Abs(past.dragged - past.drained - past.discarded - 2 * words.pan - ui.pan) <= past.submits

\* A lane at its limit stays there: it never turns a long drag into one the
\* other way.
PanKeepsDirection ==
  (words.pan > 0 /\ host' = host /\ ui.pan >= 0) => words'.pan >= words.pan

\* A button press is not lost to a change of mode that goes first: until the
\* writer is lost or another press replaces it, it waits or is submitted.
ButtonSubmitted ==
  (ui.act # 0 /\ ui'.act = 0 /\ ui'.alive) => bridge'.act = ui.act

----------------------------------------------------------------------------
(* The inductive invariant *)

UiCells ==
    [mode : Int, act : Int, pan : Int, recenter : BOOLEAN, sel : [cat : Int],
     alive : BOOLEAN, pendingCat : Int, cat : Int]

Words ==
    [act : Int, actSeq : Int, pan : Int, recSeq : Int, sel : [cat : Int], selSeq : Int,
     cat : Int, catSeq : Int, heart : {"zero", "fresh", "stale"}]

BridgePlaces ==
    {"poll", "takeAction", "storeAction", "bumpAction", "pan", "recenter", "select",
     "loadCat", "copyCat", "afterCat"}

BridgeStates == [pc : BridgePlaces, act : Int, before : Int, copy : Int, lastCat : Int]

HostPlaces ==
    {"down", "catBegin", "catFill", "catEnd", "loop", "word", "navigate", "drop", "drain",
     "select"}

HostStates ==
    [pc : HostPlaces, gen : Int, lastAct : Int, lastRec : Int, lastSel : Int, seen : Int]

Histories ==
    [pressed : Nat, modes : Int, drags : Int, dragged : Int, drained : Int, discarded : Int,
     submits : Int, saturated : BOOLEAN, recenters : Int, selections : Int, taken : Seq(Int)]

MailboxTypeOK ==
    /\ ui \in UiCells /\ words \in Words /\ bridge \in BridgeStates /\ host \in HostStates
    /\ past \in Histories

\* The lane holds what its width allows.
LaneInRange == -LaneMax - 1 <= words.pan /\ words.pan <= LaneMax

MailboxInv == MailboxTypeOK /\ LaneInRange /\ PanAccounted

\* Drags have a whole number of half units, and a lane has a width.
MailboxAssumption == DragLengths \subseteq Int /\ LaneMax \in Nat

----------------------------------------------------------------------------
(* Proofs, for every set of drag lengths and every width of the lane *)

LEMMA MailboxStarts == ASSUME MailboxAssumption, MailboxInit PROVE MailboxInv
<1> USE DEF MailboxInit, FreshWords, FreshHost, NoSelection
<1>1. <<>> \in Seq(Int)
  OBVIOUS
<1>2. ui \in UiCells /\ words \in Words
  BY DEF UiCells, Words
<1>3. bridge \in BridgeStates /\ host \in HostStates
  BY DEF BridgeStates, HostStates, BridgePlaces, HostPlaces
<1>4. past \in Histories
  BY <1>1 DEF Histories
<1>5. LaneInRange /\ PanAccounted
  BY DEF LaneInRange, PanAccounted, Abs, MailboxAssumption
<1> QED
  BY <1>2, <1>3, <1>4, <1>5 DEF MailboxInv, MailboxTypeOK

\* Rounding loses at most half a unit, and nothing of nothing.
LEMMA QuantizeFacts ==
  ASSUME NEW d \in Int
  PROVE  /\ Quantize(d) \in Int /\ -1 <= d - 2 * Quantize(d) /\ d - 2 * Quantize(d) <= 1
         /\ d = 0 => Quantize(d) = 0
         /\ d >= 0 => Quantize(d) >= 0
<1>1. CASE d >= 0
  <2>1. (d \div 2) \in Int /\ (d = 2 * (d \div 2) \/ d = 2 * (d \div 2) + 1)
    OBVIOUS
  <2>2. PICK k \in Int : d = 2 * k \/ d = 2 * k + 1
    BY <2>1
  <2>3. (d + 1) \div 2 = IF d = 2 * k THEN k ELSE k + 1
    BY <1>1, <2>2
  <2>4. Quantize(d) = IF d = 2 * k THEN k ELSE k + 1
    BY <1>1, <2>3 DEF Quantize
  <2> QED
    BY <1>1, <2>2, <2>4
<1>2. CASE d < 0
  <2>1. (d \div 2) \in Int /\ (d = 2 * (d \div 2) \/ d = 2 * (d \div 2) + 1)
    OBVIOUS
  <2>2. PICK k \in Int : d = 2 * k \/ d = 2 * k + 1
    BY <2>1
  <2>3. (1 - d) \div 2 = -k
    BY <1>2, <2>2
  <2>4. Quantize(d) = k
    BY <1>2, <2>2, <2>3 DEF Quantize
  <2> QED
    BY <1>2, <2>2, <2>4
<1> QED
  BY <1>1, <1>2

\* A clamped count is in the lane's range.
LEMMA ClampFacts ==
  ASSUME MailboxAssumption, NEW n \in Int
  PROVE  /\ Clamp(n) \in Int /\ -LaneMax - 1 <= Clamp(n) /\ Clamp(n) <= LaneMax
         /\ n >= 0 => Clamp(n) >= 0
         /\ n >= 0 => Clamp(n) = n \/ (Clamp(n) = LaneMax /\ LaneMax < n)
  BY DEF Clamp, MailboxAssumption

\* The steps that have nothing to do with drags.
LEMMA PanUntouched ==
  ASSUME MailboxInv, MailboxTypeOK', ui'.pan = ui.pan, words'.pan = words.pan,
         past'.dragged = past.dragged, past'.drained = past.drained,
         past'.discarded = past.discarded, past'.submits = past.submits,
         past'.saturated = past.saturated
  PROVE  MailboxInv'
  BY DEF MailboxInv, LaneInRange, PanAccounted, Abs

----------------------------------------------------------------------------
(* The render thread *)

LEMMA PressButtonKeeps == ASSUME MailboxInv, PressButton PROVE MailboxInv'
<1> USE DEF MailboxInv, MailboxTypeOK, PressButton
<1>1. ui' \in UiCells /\ ui'.pan = ui.pan
  <2> DEFINE number == past.pressed + 1
  <2>1. number \in Int
    BY DEF Histories
  <2>2. ui \in UiCells /\ ui' = [ui EXCEPT !.act = number]
    OBVIOUS
  <2> HIDE DEF number
  <2> QED
    BY <2>1, <2>2 DEF UiCells
<1>2. past' \in Histories
  <2> DEFINE count == past.pressed + 1
  <2>1. count \in Nat /\ past \in Histories /\ past' = [past EXCEPT !.pressed = count]
    BY DEF Histories
  <2> HIDE DEF count
  <2> QED
    BY <2>1 DEF Histories
<1>3. /\ past'.dragged = past.dragged /\ past'.drained = past.drained
      /\ past'.discarded = past.discarded /\ past'.submits = past.submits
      /\ past'.saturated = past.saturated
  BY Zenon DEF Histories
<1> QED
  BY <1>1, <1>2, <1>3, PanUntouched

LEMMA AskModeKeeps == ASSUME MailboxInv, AskMode PROVE MailboxInv'
<1> USE DEF MailboxInv, MailboxTypeOK, AskMode
<1>1. ui' \in UiCells /\ ui'.pan = ui.pan
  <2> DEFINE number == -(past.modes + 1)
  <2>1. number \in Int
    BY DEF Histories
  <2>2. ui \in UiCells /\ ui' = [ui EXCEPT !.mode = number]
    OBVIOUS
  <2> HIDE DEF number
  <2> QED
    BY <2>1, <2>2 DEF UiCells
<1>2. past' \in Histories
  <2> DEFINE count == past.modes + 1
  <2>1. count \in Int /\ past \in Histories /\ past' = [past EXCEPT !.modes = count]
    BY DEF Histories
  <2> HIDE DEF count
  <2> QED
    BY <2>1 DEF Histories
<1>3. /\ past'.dragged = past.dragged /\ past'.drained = past.drained
      /\ past'.discarded = past.discarded /\ past'.submits = past.submits
      /\ past'.saturated = past.saturated
  BY Zenon DEF Histories
<1> QED
  BY <1>1, <1>2, <1>3, PanUntouched

LEMMA DragKeeps == ASSUME MailboxAssumption, MailboxInv, Drag PROVE MailboxInv'
<1> USE DEF MailboxInv, MailboxTypeOK
<1>1. PICK d \in DragLengths :
        /\ ui' = [ui EXCEPT !.pan = @ + d]
        /\ past' = [past EXCEPT !.drags = @ + 1, !.dragged = @ + d]
  BY DEF Drag
<1>2. d \in Int /\ UNCHANGED <<words, bridge, host>>
  BY DEF Drag, MailboxAssumption
<1>3. ui' \in UiCells /\ ui'.pan = ui.pan + d
  BY <1>1, <1>2 DEF UiCells
<1>4. past' \in Histories
  <2> DEFINE count == past.drags + 1
             length == past.dragged + d
  <2>1. count \in Int /\ length \in Int
    BY <1>2 DEF Histories
  <2>2. past \in Histories /\ past' = [past EXCEPT !.drags = count, !.dragged = length]
    BY <1>1
  <2> HIDE DEF count, length
  <2> QED
    BY <2>1, <2>2 DEF Histories
<1>5. /\ past'.dragged = past.dragged + d /\ past'.drained = past.drained
      /\ past'.discarded = past.discarded /\ past'.submits = past.submits
      /\ past'.saturated = past.saturated
  BY <1>1, <1>2, Zenon DEF Histories
<1>6. /\ ui.pan \in Int /\ words.pan \in Int /\ past.dragged \in Int /\ past.drained \in Int
      /\ past.discarded \in Int /\ past.submits \in Int
  BY DEF UiCells, Words, Histories
<1>7. PanAccounted'
  BY <1>2, <1>3, <1>5, <1>6 DEF PanAccounted, Abs
<1> QED
  BY <1>2, <1>3, <1>4, <1>7 DEF LaneInRange

LEMMA PressRecenterKeeps == ASSUME MailboxInv, PressRecenter PROVE MailboxInv'
<1> USE DEF MailboxInv, MailboxTypeOK, PressRecenter
<1>1. ui' \in UiCells /\ ui'.pan = ui.pan
  BY DEF UiCells
<1>2. past' \in Histories
  <2> DEFINE count == past.recenters + 1
  <2>1. count \in Int /\ past \in Histories /\ past' = [past EXCEPT !.recenters = count]
    BY DEF Histories
  <2> HIDE DEF count
  <2> QED
    BY <2>1 DEF Histories
<1>3. /\ past'.dragged = past.dragged /\ past'.drained = past.drained
      /\ past'.discarded = past.discarded /\ past'.submits = past.submits
      /\ past'.saturated = past.saturated
  BY Zenon DEF Histories
<1> QED
  BY <1>1, <1>2, <1>3, PanUntouched

LEMMA ClickResultKeeps == ASSUME MailboxInv, ClickResult PROVE MailboxInv'
<1> USE DEF MailboxInv, MailboxTypeOK, ClickResult
<1>1. ui' \in UiCells /\ ui'.pan = ui.pan
  BY DEF UiCells
<1>2. past' \in Histories
  <2> DEFINE count == past.selections + 1
  <2>1. count \in Int /\ past \in Histories /\ past' = [past EXCEPT !.selections = count]
    BY DEF Histories
  <2> HIDE DEF count
  <2> QED
    BY <2>1 DEF Histories
<1>3. /\ past'.dragged = past.dragged /\ past'.drained = past.drained
      /\ past'.discarded = past.discarded /\ past'.submits = past.submits
      /\ past'.saturated = past.saturated
  BY Zenon DEF Histories
<1> QED
  BY <1>1, <1>2, <1>3, PanUntouched

LEMMA TakeCatalogKeeps == ASSUME MailboxInv, TakeCatalog PROVE MailboxInv'
<1> USE DEF MailboxInv, MailboxTypeOK
<1>1. ui' = [ui EXCEPT !.cat = 0] \/ ui' = [ui EXCEPT !.cat = ui.pendingCat, !.pendingCat = 0]
  BY DEF TakeCatalog
<1>2. ui' \in UiCells /\ ui'.pan = ui.pan
  <2>1. ui \in UiCells
    OBVIOUS
  <2>2. CASE ui' = [ui EXCEPT !.cat = 0]
    BY <2>1, <2>2 DEF UiCells
  <2>3. CASE ui' = [ui EXCEPT !.cat = ui.pendingCat, !.pendingCat = 0]
    <3> DEFINE shown == ui.pendingCat
    <3>1. shown \in Int /\ ui' = [ui EXCEPT !.cat = shown, !.pendingCat = 0]
      BY <2>1, <2>3 DEF UiCells
    <3> HIDE DEF shown
    <3>2. ui' \in UiCells
      <4> DEFINE mid == [ui EXCEPT !.cat = shown]
      <4>1. mid \in UiCells
        BY <2>1, <3>1 DEF UiCells
      <4>2. ui' = [mid EXCEPT !.pendingCat = 0]
        BY <2>1, <3>1 DEF UiCells
      <4> HIDE DEF mid
      <4> QED
        BY <4>1, <4>2 DEF UiCells
    <3>3. ui'.pan = ui.pan
      BY <2>1, <3>1, Zenon DEF UiCells
    <3> QED
      BY <3>2, <3>3
  <2> QED
    BY <1>1, <2>2, <2>3
<1> QED
  BY <1>2, PanUntouched DEF TakeCatalog

----------------------------------------------------------------------------
(* The bridge thread *)

\* The drag that waits in the render loop is dropped with the writer.
LEMMA PollKeeps == ASSUME MailboxInv, PollWriter PROVE MailboxInv'
<1> USE DEF MailboxInv, MailboxTypeOK
<1>1. UNCHANGED <<words, host>>
  BY DEF PollWriter
<1>2. CASE words.heart = "fresh"
  <2>1. /\ ui' = [ui EXCEPT !.alive = TRUE] /\ bridge' = [bridge EXCEPT !.pc = "takeAction"]
        /\ UNCHANGED past
    BY <1>2 DEF PollWriter
  <2>2. ui' \in UiCells /\ ui'.pan = ui.pan
    BY <2>1 DEF UiCells
  <2>3. bridge' \in BridgeStates
    BY <2>1 DEF BridgeStates, BridgePlaces
  <2> QED
    BY <1>1, <2>1, <2>2, <2>3, PanUntouched
<1>3. CASE words.heart # "fresh"
  <2>1. /\ ui' = [mode |-> 0, act |-> 0, pan |-> 0, recenter |-> FALSE, sel |-> NoSelection,
                  alive |-> FALSE, pendingCat |-> 0, cat |-> ui.cat]
        /\ bridge' = [bridge EXCEPT !.lastCat = 0]
        /\ past' = [past EXCEPT !.discarded = @ + ui.pan]
    BY <1>3 DEF PollWriter
  <2>2. ui.cat \in Int /\ NoSelection \in [cat : Int]
    BY DEF UiCells, NoSelection
  <2>3. ui' \in UiCells /\ ui'.pan = 0
    BY <2>1, <2>2 DEF UiCells
  <2>4. bridge' \in BridgeStates
    BY <2>1 DEF BridgeStates
  <2>5. /\ ui.pan \in Int /\ words.pan \in Int /\ past.dragged \in Int /\ past.drained \in Int
        /\ past.discarded \in Int /\ past.submits \in Int
    BY DEF UiCells, Words, Histories
  <2> DEFINE gone == past.discarded + ui.pan
  <2>6. gone \in Int /\ past' = [past EXCEPT !.discarded = gone]
    BY <2>1, <2>5
  <2>7. past \in Histories
    OBVIOUS
  <2> HIDE DEF gone
  <2>8. past' \in Histories
    BY <2>6, <2>7 DEF Histories
  <2>9. /\ past'.dragged = past.dragged /\ past'.drained = past.drained
        /\ past'.discarded = gone /\ past'.submits = past.submits
        /\ past'.saturated = past.saturated
    BY <2>6, <2>7, Zenon DEF Histories
  <2>10. PanAccounted'
    BY <1>1, <2>3, <2>5, <2>9 DEF PanAccounted, Abs, gone
  <2> QED
    BY <1>1, <2>3, <2>4, <2>8, <2>10 DEF LaneInRange
<1> QED
  BY <1>2, <1>3

LEMMA TakePendingActionKeeps == ASSUME MailboxInv, TakePendingAction PROVE MailboxInv'
<1> USE DEF MailboxInv, MailboxTypeOK
<1> DEFINE taken == IF ui.mode # 0 THEN ui.mode ELSE ui.act
           pc == IF taken = 0 THEN "pan" ELSE "storeAction"
<1>1. /\ bridge' = [bridge EXCEPT !.pc = pc, !.act = taken]
      /\ ui' = [ui EXCEPT !.mode = 0] \/ ui' = [ui EXCEPT !.act = 0]
      /\ UNCHANGED <<words, host, past>>
  BY DEF TakePendingAction
<1>2. taken \in Int /\ pc \in BridgePlaces
  BY DEF UiCells, BridgePlaces
<1> HIDE DEF taken, pc
<1>3. bridge' \in BridgeStates
  BY <1>1, <1>2 DEF BridgeStates
<1>4. ui' \in UiCells /\ ui'.pan = ui.pan
  BY <1>1 DEF UiCells
<1> QED
  BY <1>1, <1>3, <1>4, PanUntouched

LEMMA SubmitActionKeeps == ASSUME MailboxInv, SubmitAction PROVE MailboxInv'
<1> USE DEF MailboxInv, MailboxTypeOK
<1> DEFINE act == bridge.act
           number == words.actSeq + 1
<1>1. /\ words' = [words EXCEPT !.act = act] \/ words' = [words EXCEPT !.actSeq = number]
      /\ bridge' = [bridge EXCEPT !.pc = "bumpAction"] \/ bridge' = [bridge EXCEPT !.pc = "pan"]
      /\ UNCHANGED <<ui, host, past>>
  BY DEF SubmitAction
<1>2. act \in Int /\ number \in Int
  BY DEF BridgeStates, Words
<1> HIDE DEF act, number
<1>3. words' \in Words /\ words'.pan = words.pan
  BY <1>1, <1>2 DEF Words
<1>4. bridge' \in BridgeStates
  BY <1>1 DEF BridgeStates, BridgePlaces
<1> QED
  BY <1>1, <1>3, <1>4, PanUntouched

\* Each submission of a drag may lose half a unit to rounding, and is counted;
\* what the lane cannot hold is noted.
LEMMA SubmitPanKeeps == ASSUME MailboxAssumption, MailboxInv, SubmitPan PROVE MailboxInv'
<1> USE DEF MailboxInv, MailboxTypeOK
<1> DEFINE q == Quantize(ui.pan)
           units == Clamp(q)
           lane == Clamp(words.pan + units)
           one == IF ui.pan = 0 THEN 0 ELSE 1
           full == past.saturated \/ lane # words.pan + units \/ units # q
<1>1. /\ ui.pan \in Int /\ words.pan \in Int /\ past.dragged \in Int /\ past.drained \in Int
      /\ past.discarded \in Int /\ past.submits \in Int
  BY DEF UiCells, Words, Histories
<1>2. /\ q \in Int /\ -1 <= ui.pan - 2 * q /\ ui.pan - 2 * q <= 1
      /\ ui.pan = 0 => q = 0
  BY <1>1, QuantizeFacts
<1>3. units \in Int
  BY <1>2, ClampFacts
<1>4. lane \in Int /\ -LaneMax - 1 <= lane /\ lane <= LaneMax
  BY <1>1, <1>3, ClampFacts
<1>5. full \in BOOLEAN
  BY Zenon
<1>6. /\ words' = [words EXCEPT !.pan = lane]
      /\ past' = [past EXCEPT !.submits = @ + one, !.saturated = full]
      /\ ui' = [ui EXCEPT !.pan = 0] /\ bridge' = [bridge EXCEPT !.pc = "recenter"]
      /\ UNCHANGED host
  BY DEF SubmitPan, Accumulate
<1>7. ~full => ~past.saturated /\ lane = words.pan + q
  OBVIOUS
<1>8. one \in Int /\ (ui.pan = 0 => one = 0) /\ (ui.pan # 0 => one = 1)
  OBVIOUS
<1> HIDE DEF q, units, lane, one, full
<1>9. words' \in Words /\ words'.pan = lane
  BY <1>4, <1>6 DEF Words
<1>10. ui' \in UiCells /\ ui'.pan = 0 /\ bridge' \in BridgeStates
  BY <1>6 DEF UiCells, BridgeStates, BridgePlaces
<1> DEFINE count == past.submits + one
<1>11. count \in Int /\ past' = [past EXCEPT !.submits = count, !.saturated = full]
  BY <1>1, <1>6, <1>8
<1>12. past \in Histories
  OBVIOUS
<1> HIDE DEF count
<1>13. past' \in Histories
  BY <1>5, <1>11, <1>12, Zenon DEF Histories
<1>14. /\ past'.dragged = past.dragged /\ past'.drained = past.drained
       /\ past'.discarded = past.discarded /\ past'.submits = count
       /\ past'.saturated = full
  BY <1>11, <1>12, Zenon DEF Histories
<1>15. PanAccounted'
  <2> SUFFICES ASSUME ~full PROVE
        Abs(past.dragged - past.drained - past.discarded - 2 * lane - 0) <= count
    BY <1>9, <1>10, <1>14 DEF PanAccounted
  <2>1. Abs(past.dragged - past.drained - past.discarded - 2 * words.pan - ui.pan) <= past.submits
    BY <1>7 DEF PanAccounted
  <2>2. lane = words.pan + q
    BY <1>7
  <2> QED
    BY <1>1, <1>2, <1>8, <2>1, <2>2 DEF Abs, count
<1> QED
  BY <1>4, <1>6, <1>9, <1>10, <1>13, <1>15 DEF LaneInRange

LEMMA SubmitRecenterKeeps == ASSUME MailboxInv, SubmitRecenter PROVE MailboxInv'
<1> USE DEF MailboxInv, MailboxTypeOK
<1> DEFINE number == IF ui.recenter THEN words.recSeq + 1 ELSE words.recSeq
<1>1. /\ words' = [words EXCEPT !.recSeq = number] /\ ui' = [ui EXCEPT !.recenter = FALSE]
      /\ bridge' = [bridge EXCEPT !.pc = "select"] /\ UNCHANGED <<host, past>>
  BY DEF SubmitRecenter
<1>2. number \in Int
  BY DEF Words
<1> HIDE DEF number
<1>3. words' \in Words /\ words'.pan = words.pan
  BY <1>1, <1>2 DEF Words
<1>4. ui' \in UiCells /\ ui'.pan = ui.pan /\ bridge' \in BridgeStates
  BY <1>1 DEF UiCells, BridgeStates, BridgePlaces
<1> QED
  BY <1>1, <1>3, <1>4, PanUntouched

LEMMA SubmitSelectionKeeps == ASSUME MailboxInv, SubmitSelection PROVE MailboxInv'
<1> USE DEF MailboxInv, MailboxTypeOK
<1> DEFINE picked == ui.sel
           number == words.selSeq + 1
<1>1. /\ words' = [words EXCEPT !.sel = picked, !.selSeq = number] \/ words' = words
      /\ ui' = [ui EXCEPT !.sel = NoSelection] /\ bridge' = [bridge EXCEPT !.pc = "loadCat"]
      /\ UNCHANGED <<host, past>>
  BY DEF SubmitSelection
<1>2. picked \in [cat : Int] /\ number \in Int /\ NoSelection \in [cat : Int]
  BY DEF UiCells, Words, NoSelection
<1> HIDE DEF picked, number
<1>3. words' \in Words /\ words'.pan = words.pan
  BY <1>1, <1>2 DEF Words
<1>4. ui' \in UiCells /\ ui'.pan = ui.pan
  BY <1>1, <1>2 DEF UiCells
<1>5. bridge' \in BridgeStates
  BY <1>1 DEF BridgeStates, BridgePlaces
<1> QED
  BY <1>1, <1>3, <1>4, <1>5, PanUntouched

LEMMA ReadCatalogKeeps == ASSUME MailboxInv, ReadCatalog PROVE MailboxInv'
<1> USE DEF MailboxInv, MailboxTypeOK
<1> DEFINE number == words.catSeq
           cat == words.cat
           seen == bridge.before
           copy == bridge.copy
<1>1. /\ UNCHANGED <<words, host, past>>
      /\ \/ bridge' = [bridge EXCEPT !.pc = "poll"]
         \/ bridge' = [bridge EXCEPT !.pc = "copyCat", !.before = number]
         \/ bridge' = [bridge EXCEPT !.pc = "afterCat", !.copy = cat]
         \/ bridge' = [bridge EXCEPT !.pc = "poll", !.lastCat = seen]
      /\ ui' = ui \/ ui' = [ui EXCEPT !.pendingCat = copy]
  BY DEF ReadCatalog
<1>2. number \in Int /\ cat \in Int /\ seen \in Int /\ copy \in Int
  BY DEF Words, BridgeStates
<1> HIDE DEF number, cat, seen, copy
<1>3. bridge' \in BridgeStates
  BY <1>1, <1>2 DEF BridgeStates, BridgePlaces
<1>4. ui' \in UiCells /\ ui'.pan = ui.pan
  BY <1>1, <1>2 DEF UiCells
<1> QED
  BY <1>1, <1>3, <1>4, PanUntouched

----------------------------------------------------------------------------
(* The overlay process *)

\* What the lane holds is taken, and counted where it went.
LEMMA LaneEmptied ==
  ASSUME MailboxAssumption, MailboxInv, words' \in Words, words'.pan = 0, host' \in HostStates,
         UNCHANGED <<ui, bridge>>,
         \/ past' = [past EXCEPT !.discarded = @ + 2 * words.pan]
         \/ past' = [past EXCEPT !.drained = @ + 2 * words.pan]
  PROVE  MailboxInv'
<1> USE DEF MailboxInv, MailboxTypeOK
<1>1. /\ ui.pan \in Int /\ words.pan \in Int /\ past.dragged \in Int /\ past.drained \in Int
      /\ past.discarded \in Int /\ past.submits \in Int
  BY DEF UiCells, Words, Histories
<1> DEFINE dropped == past.discarded + 2 * words.pan
           arrived == past.drained + 2 * words.pan
<1>2. /\ dropped \in Int /\ arrived \in Int
      /\ past' = [past EXCEPT !.discarded = dropped] \/ past' = [past EXCEPT !.drained = arrived]
  BY <1>1
<1>3. past \in Histories
  OBVIOUS
<1> HIDE DEF dropped, arrived
<1>4. past' \in Histories
  BY <1>2, <1>3 DEF Histories
<1>5. /\ past'.dragged = past.dragged /\ past'.submits = past.submits
      /\ past'.saturated = past.saturated
      /\ \/ past'.discarded = dropped /\ past'.drained = past.drained
         \/ past'.drained = arrived /\ past'.discarded = past.discarded
  <2>1. CASE past' = [past EXCEPT !.discarded = dropped]
    BY <1>3, <2>1, Zenon DEF Histories
  <2>2. CASE past' = [past EXCEPT !.drained = arrived]
    BY <1>3, <2>2, Zenon DEF Histories
  <2> QED
    BY <1>2, <2>1, <2>2
<1>6. PanAccounted'
  BY <1>1, <1>5 DEF PanAccounted, Abs, dropped, arrived
<1>7. LaneInRange'
  BY DEF LaneInRange, MailboxAssumption
<1> QED
  BY <1>4, <1>6, <1>7

LEMMA StartKeeps == ASSUME MailboxAssumption, MailboxInv, StartHost PROVE MailboxInv'
<1>1. words' \in Words /\ words'.pan = 0
  BY DEF StartHost, FreshWords, NoSelection, Words
<1>2. host' \in HostStates
  <2> DEFINE gen == host.gen + 1
  <2>1. gen \in Int /\ host' = FreshHost("catBegin", gen)
    BY DEF StartHost, MailboxInv, MailboxTypeOK, HostStates
  <2> HIDE DEF gen
  <2> QED
    BY <2>1 DEF FreshHost, HostStates, HostPlaces
<1> QED
  BY <1>1, <1>2, LaneEmptied DEF StartHost

LEMMA NavigateKeeps == ASSUME MailboxAssumption, MailboxInv, Navigate PROVE MailboxInv'
<1> DEFINE number == words.recSeq
<1>1. /\ UNCHANGED <<ui, bridge>>
      /\ \/ /\ UNCHANGED <<words, past>>
            /\ \/ host' = [host EXCEPT !.pc = "drop", !.lastRec = number]
               \/ host' = [host EXCEPT !.pc = "drain"]
         \/ /\ words' = [words EXCEPT !.pan = 0] /\ host' = [host EXCEPT !.pc = "select"]
            /\ \/ past' = [past EXCEPT !.discarded = @ + 2 * words.pan]
               \/ past' = [past EXCEPT !.drained = @ + 2 * words.pan]
  BY DEF Navigate
<1>2. number \in Int /\ host \in HostStates /\ words \in Words
  BY DEF Words, MailboxInv, MailboxTypeOK
<1> HIDE DEF number
<1>3. host' \in HostStates
  <2>1. CASE host' = [host EXCEPT !.pc = "drop", !.lastRec = number]
    BY <1>2, <2>1 DEF HostStates, HostPlaces
  <2>2. CASE host' = [host EXCEPT !.pc = "drain"] \/ host' = [host EXCEPT !.pc = "select"]
    BY <1>2, <2>2 DEF HostStates, HostPlaces
  <2> QED
    BY <1>1, <2>1, <2>2
<1>4. CASE UNCHANGED <<words, past>>
  BY <1>1, <1>3, <1>4, PanUntouched DEF MailboxInv, MailboxTypeOK
<1>5. CASE words' = [words EXCEPT !.pan = 0]
  <2>1. words' \in Words /\ words'.pan = 0
    BY <1>2, <1>5 DEF Words
  <2>2. CASE UNCHANGED <<words, past>>
    BY <1>4, <2>2
  <2> QED
    BY <1>1, <1>3, <2>1, <2>2, LaneEmptied
<1> QED
  BY <1>1, <1>4, <1>5

LEMMA BeatKeeps == ASSUME MailboxInv, Beat \/ HostHeartAges PROVE MailboxInv'
<1>1. /\ words' = [words EXCEPT !.heart = "fresh"] \/ words' = [words EXCEPT !.heart = "stale"]
      /\ UNCHANGED <<ui, bridge, host, past>>
  BY DEF Beat, HostHeartAges
<1>2. words' \in Words /\ words'.pan = words.pan
  BY <1>1 DEF MailboxInv, MailboxTypeOK, Words
<1> QED
  BY <1>1, <1>2, PanUntouched DEF MailboxInv, MailboxTypeOK

LEMMA PublishCatalogKeeps == ASSUME MailboxInv, PublishCatalog PROVE MailboxInv'
<1> USE DEF MailboxInv, MailboxTypeOK
<1> DEFINE number == words.catSeq + 1
           gen == host.gen
<1>1. /\ words' = [words EXCEPT !.catSeq = number] \/ words' = [words EXCEPT !.cat = gen]
      /\ \/ host' = [host EXCEPT !.pc = "catFill"] \/ host' = [host EXCEPT !.pc = "catEnd"]
         \/ host' = [host EXCEPT !.pc = "loop"]
      /\ UNCHANGED <<ui, bridge, past>>
  BY DEF PublishCatalog
<1>2. number \in Int /\ gen \in Int
  BY DEF Words, HostStates
<1> HIDE DEF number, gen
<1>3. words' \in Words /\ words'.pan = words.pan
  BY <1>1, <1>2 DEF Words
<1>4. host' \in HostStates
  BY <1>1 DEF HostStates, HostPlaces
<1> QED
  BY <1>1, <1>3, <1>4, PanUntouched

LEMMA TakeActionKeeps == ASSUME MailboxInv, TakeAction PROVE MailboxInv'
<1> USE DEF MailboxInv, MailboxTypeOK
<1> DEFINE number == words.actSeq
           last == host.seen
           log == Append(past.taken, words.act)
<1>1. /\ \/ host' = [host EXCEPT !.pc = "navigate"]
         \/ host' = [host EXCEPT !.pc = "word", !.seen = number]
         \/ host' = [host EXCEPT !.pc = "navigate", !.lastAct = last]
      /\ past' = past \/ past' = [past EXCEPT !.taken = log]
      /\ UNCHANGED <<ui, words, bridge>>
  BY DEF TakeAction
<1>2. number \in Int /\ last \in Int
  BY DEF Words, HostStates
<1>3. log \in Seq(Int)
  <2>1. past.taken \in Seq(Int) /\ words.act \in Int
    BY DEF Words, Histories
  <2> QED
    BY <2>1
<1> HIDE DEF number, last, log
<1>4. host' \in HostStates
  BY <1>1, <1>2 DEF HostStates, HostPlaces
<1>5. past \in Histories
  OBVIOUS
<1>6. past' \in Histories
  BY <1>1, <1>3, <1>5, Zenon DEF Histories
<1>7. /\ past'.dragged = past.dragged /\ past'.drained = past.drained
      /\ past'.discarded = past.discarded /\ past'.submits = past.submits
      /\ past'.saturated = past.saturated
  BY <1>1, <1>5, Zenon DEF Histories
<1> QED
  BY <1>1, <1>4, <1>6, <1>7, PanUntouched

LEMMA HostMovesKeeps == ASSUME MailboxInv, TakeSelection \/ HostEnds PROVE MailboxInv'
<1> USE DEF MailboxInv, MailboxTypeOK
<1> DEFINE number == words.selSeq
<1>1. /\ \/ host' = [host EXCEPT !.pc = "loop", !.lastSel = number]
         \/ host' = [host EXCEPT !.pc = "loop"] \/ host' = [host EXCEPT !.pc = "down"]
      /\ UNCHANGED <<ui, words, bridge, past>>
  BY DEF TakeSelection, HostEnds
<1>2. number \in Int
  BY DEF Words
<1> HIDE DEF number
<1>3. host' \in HostStates
  BY <1>1, <1>2 DEF HostStates, HostPlaces
<1> QED
  BY <1>1, <1>3, PanUntouched

LEMMA MailboxStep == ASSUME MailboxAssumption, MailboxInv, [MailboxNext]_mailboxVars PROVE MailboxInv'
<1>1. CASE UNCHANGED mailboxVars
  BY <1>1, PanUntouched DEF mailboxVars, MailboxInv, MailboxTypeOK
<1>2. CASE BridgeStep
  BY <1>2, PollKeeps, TakePendingActionKeeps, SubmitActionKeeps, SubmitPanKeeps,
     SubmitRecenterKeeps, SubmitSelectionKeeps, ReadCatalogKeeps DEF BridgeStep
<1>3. CASE HostStep
  BY <1>3, PublishCatalogKeeps, TakeActionKeeps, NavigateKeeps, HostMovesKeeps DEF HostStep
<1>4. CASE PressButton \/ AskMode \/ Drag \/ PressRecenter \/ ClickResult \/ TakeCatalog
  BY <1>4, PressButtonKeeps, AskModeKeeps, DragKeeps, PressRecenterKeeps, ClickResultKeeps,
     TakeCatalogKeeps
<1>5. CASE StartHost \/ Beat \/ HostEnds \/ HostHeartAges
  BY <1>5, StartKeeps, BeatKeeps, HostMovesKeeps
<1> QED
  BY <1>1, <1>2, <1>3, <1>4, <1>5 DEF MailboxNext

\* The mailbox's words are what they may be, the lane stays within its width
\* (accumulate_packed_pan), and every drag is accounted for.
THEOREM MailboxInvariant == ASSUME MailboxAssumption PROVE MailboxSpec => []MailboxInv
<1>1. MailboxInit => MailboxInv
  BY MailboxStarts
<1>2. MailboxInv /\ [MailboxNext]_mailboxVars => MailboxInv'
  BY MailboxStep
<1> QED
  BY <1>1, <1>2, PTL DEF MailboxSpec

\* No part of a drag is lost between the render thread, the bridge thread and
\* the overlay's loop, whatever the interleaving and however often the overlay
\* starts again: what has not arrived waits, was dropped for a reason, or is
\* less than half a unit for each submission (submit_pan_delta,
\* take_fullscreen_map_navigation).
THEOREM PanAlwaysAccounted == ASSUME MailboxAssumption PROVE MailboxSpec => []PanAccounted
<1>1. MailboxInv => PanAccounted
  BY DEF MailboxInv
<1> QED
  BY <1>1, MailboxInvariant, PTL

\* A full lane holds its direction: a step of the bridge thread never turns a
\* long drag into one the other way.
THEOREM PanAlwaysKeepsDirection ==
  ASSUME MailboxAssumption PROVE MailboxSpec => [][PanKeepsDirection]_mailboxVars
<1>1. ASSUME MailboxInv, [MailboxNext]_mailboxVars PROVE [PanKeepsDirection]_mailboxVars
  <2> SUFFICES ASSUME words.pan > 0, host' = host, ui.pan >= 0 PROVE words'.pan >= words.pan
    BY DEF PanKeepsDirection
  <2>1. words \in Words /\ ui.pan \in Int /\ words.pan \in Int /\ words.pan <= LaneMax
    BY <1>1 DEF MailboxInv, MailboxTypeOK, UiCells, Words, LaneInRange
  <2>2. CASE SubmitPan
    <3> DEFINE q == Quantize(ui.pan)
               units == Clamp(q)
               lane == Clamp(words.pan + units)
    <3>1. q \in Int /\ q >= 0
      BY <2>1, QuantizeFacts
    <3>2. units \in Int /\ units >= 0
      BY <3>1, ClampFacts
    <3>3. words.pan + units \in Int /\ words.pan + units >= 0
      BY <2>1, <3>2
    <3>4. lane = words.pan + units \/ lane = LaneMax
      BY <3>3, ClampFacts
    <3>5. words'.pan = lane
      BY <2>1, <2>2 DEF SubmitPan, Accumulate, Words
    <3> HIDE DEF q, units, lane
    <3> QED
      BY <2>1, <3>2, <3>4, <3>5 DEF MailboxAssumption
  <2>3. CASE words'.pan = words.pan
    BY <2>1, <2>3
  <2>4. SubmitAction => words'.pan = words.pan
    <3> DEFINE act == bridge.act
               number == words.actSeq + 1
    <3>1. SubmitAction => words' = [words EXCEPT !.act = act] \/ words' = [words EXCEPT !.actSeq = number]
      BY DEF SubmitAction
    <3> HIDE DEF act, number
    <3> QED
      BY <2>1, <3>1 DEF Words
  <2>5. SubmitRecenter => words'.pan = words.pan
    <3> DEFINE number == IF ui.recenter THEN words.recSeq + 1 ELSE words.recSeq
    <3>1. SubmitRecenter => words' = [words EXCEPT !.recSeq = number]
      BY DEF SubmitRecenter
    <3> HIDE DEF number
    <3> QED
      BY <2>1, <3>1 DEF Words
  <2>6. SubmitSelection => words'.pan = words.pan
    <3> DEFINE picked == ui.sel
               number == words.selSeq + 1
    <3>1. SubmitSelection => words' = words \/ words' = [words EXCEPT !.sel = picked, !.selSeq = number]
      BY DEF SubmitSelection
    <3> HIDE DEF picked, number
    <3> QED
      BY <2>1, <3>1 DEF Words
  <2>7. Beat \/ HostHeartAges => words'.pan = words.pan
    BY <2>1 DEF Beat, HostHeartAges, Words
  <2>8. ~StartHost /\ ~Navigate /\ ~PublishCatalog
    <3>1. host \in HostStates
      BY <1>1 DEF MailboxInv, MailboxTypeOK
    <3>2. ~StartHost
      BY <3>1 DEF StartHost, FreshHost, HostStates
    <3>3. ~Navigate
      BY <3>1 DEF Navigate, HostAt, HostStates
    <3>4. ~PublishCatalog
      BY <3>1 DEF PublishCatalog, HostAt, HostStates
    <3> QED
      BY <3>2, <3>3, <3>4
  <2>9. CASE PressButton \/ AskMode \/ Drag \/ PressRecenter \/ ClickResult \/ TakeCatalog
    BY <2>3, <2>9
       DEF PressButton, AskMode, Drag, PressRecenter, ClickResult, TakeCatalog
  <2>10. CASE PollWriter \/ TakePendingAction \/ ReadCatalog \/ TakeAction \/ TakeSelection \/ HostEnds
    BY <2>3, <2>10 DEF PollWriter, TakePendingAction, ReadCatalog, TakeAction, TakeSelection, HostEnds
  <2>11. CASE UNCHANGED mailboxVars
    BY <2>3, <2>11 DEF mailboxVars
  <2> QED
    BY <1>1, <2>2, <2>3, <2>4, <2>5, <2>6, <2>7, <2>8, <2>9, <2>10, <2>11
       DEF MailboxNext, BridgeStep, HostStep
<1> QED
  BY <1>1, MailboxInvariant, PTL DEF MailboxSpec

\* A button press waits, is taken by the bridge thread, or is lost with the
\* writer: a change of mode that goes first does not lose it
\* (take_pending_consumer_action).
THEOREM ButtonAlwaysSubmitted ==
  ASSUME MailboxAssumption PROVE MailboxSpec => [][ButtonSubmitted]_mailboxVars
<1>1. ASSUME MailboxInv, [MailboxNext]_mailboxVars PROVE [ButtonSubmitted]_mailboxVars
  <2> SUFFICES ASSUME ui.act # 0, ui'.act = 0, ui'.alive PROVE bridge'.act = ui.act
    BY DEF ButtonSubmitted
  <2>1. ui \in UiCells /\ bridge \in BridgeStates /\ past.pressed \in Nat
    BY <1>1 DEF MailboxInv, MailboxTypeOK, Histories
  <2>2. ui' # ui
    OBVIOUS
  <2>3. CASE TakePendingAction
    <3>1. ui.mode = 0
      <4> SUFFICES ASSUME ui.mode # 0 PROVE FALSE
        OBVIOUS
      <4>1. ui' = [ui EXCEPT !.mode = 0]
        BY <2>3 DEF TakePendingAction
      <4> QED
        BY <2>1, <4>1 DEF UiCells
    <3> DEFINE taken == ui.act
               pc == IF taken = 0 THEN "pan" ELSE "storeAction"
    <3>2. bridge' = [bridge EXCEPT !.pc = pc, !.act = taken]
      BY <2>3, <3>1 DEF TakePendingAction
    <3> HIDE DEF taken, pc
    <3>3. bridge'.act = taken
      BY <2>1, <3>2 DEF BridgeStates
    <3> QED
      BY <3>3 DEF taken
  <2>4. ~PressButton
    <3> DEFINE number == past.pressed + 1
    <3>1. number # 0
      BY <2>1
    <3>2. PressButton => ui' = [ui EXCEPT !.act = number]
      BY DEF PressButton
    <3> HIDE DEF number
    <3> QED
      BY <2>1, <3>1, <3>2 DEF UiCells
  <2>5. ~AskMode
    <3> DEFINE number == -(past.modes + 1)
    <3>1. AskMode => ui' = [ui EXCEPT !.mode = number]
      BY DEF AskMode
    <3> HIDE DEF number
    <3> QED
      BY <2>1, <3>1 DEF UiCells
  <2>6. ~Drag /\ ~PressRecenter /\ ~ClickResult
    BY <2>1 DEF Drag, PressRecenter, ClickResult, UiCells
  <2>7. ~TakeCatalog
    <3> DEFINE shown == ui.pendingCat
    <3>1. TakeCatalog =>
            ui' = [ui EXCEPT !.cat = 0] \/ ui' = [ui EXCEPT !.cat = shown, !.pendingCat = 0]
      BY DEF TakeCatalog
    <3> HIDE DEF shown
    <3> QED
      BY <2>1, <3>1, Zenon DEF UiCells
  <2>8. ~PollWriter
    BY <2>1 DEF PollWriter, UiCells
  <2>9. ~SubmitPan /\ ~SubmitRecenter /\ ~SubmitSelection
    BY <2>1 DEF SubmitPan, SubmitRecenter, SubmitSelection, UiCells
  <2>10. ~ReadCatalog
    <3> DEFINE copy == bridge.copy
    <3>1. ReadCatalog => ui' = ui \/ ui' = [ui EXCEPT !.pendingCat = copy]
      BY DEF ReadCatalog
    <3> HIDE DEF copy
    <3> QED
      BY <2>1, <2>2, <3>1 DEF UiCells
  <2>11. ~SubmitAction /\ ~HostStep /\ ~StartHost /\ ~Beat /\ ~HostEnds /\ ~HostHeartAges
    BY <2>2 DEF SubmitAction, HostStep, PublishCatalog, TakeAction, Navigate, TakeSelection,
                StartHost, Beat, HostEnds, HostHeartAges
  <2> QED
    BY <1>1, <2>2, <2>3, <2>4, <2>5, <2>6, <2>7, <2>8, <2>9, <2>10, <2>11
       DEF MailboxNext, BridgeStep, mailboxVars
<1> QED
  BY <1>1, MailboxInvariant, PTL DEF MailboxSpec

=============================================================================
