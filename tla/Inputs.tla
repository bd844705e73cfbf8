------------------------------- MODULE Inputs --------------------------------
(* What the client of a desktop session types, points at, copies and pastes:  *)
(* from its web socket (DesktopSession._on_websocket_data), through the       *)
(* stream to the capture process, to the thread of the screen that hands it   *)
(* to the operating system (app_desktop/capture.py), and the clipboard back,  *)
(* in pieces, to the client.                                                  *)
EXTENDS Integers, Sequences, SequencesExt, FiniteSetsExt

CONSTANTS
  Layouts,       \* sequences of monitors, [x, width]: one dimension stands for both
  Texts,         \* texts of a clipboard
  Pieces,        \* in how many pieces of 32 KB each one travels
  None,
  MaxActs        \* bound: what the client and the user of the computer do

VARIABLES
  layout,        \* _monitors_info
  made,          \* requests made by the client, numbered
  typed,         \* the numbers of those of its mouse and keyboard
  toChild,       \* the stream to the capture process
  list,          \* _inputs_list
  late,          \* an append without the lock under way: None, or its request
  lateTo,        \* the list it goes to: "list", "batch" if it was taken, "gone"
  turn,          \* the thread of the screen: "take", "handle", "clip"
  batch,         \* inplst, what is left of it
  granted,       \* _capture_allowed
  done,          \* numbers of the requests handled, in order
  missed,        \* numbers of those dropped while the capture was not allowed
  landed,        \* the click just handled: where it was pointed at, and the pixel it got
  acts,          \* what the client and the user did, counted for the bound
  clip, by,      \* the clipboard of the computer, and who put it there
  fresh,         \* it has changed since it was last read
  mark,          \* _clipboard_hash
  toMain,        \* CLIPBOARD_CHANGED on its way to the agent
  latest,        \* _current_clipboard
  getting,       \* _get_clipboard_data
  ack,           \* _set_clipboard_data
  serving,       \* curclp
  tokens,        \* _set_clipboard_data_tokens
  toClient,      \* the pieces and acknowledgements on the way
  asking,        \* the client: the piece it waits for, or None
  joined,        \* and those it has
  giving         \* what it gives: [text, sent, acked], or None

queues == <<made, typed, toChild, list, late, lateTo>>
screen == <<turn, batch, granted, done, missed, landed>>
board == <<clip, by, fresh, mark, toMain, latest>>
session == <<getting, ack, serving, tokens, toClient, asking, joined, giving>>
vars == <<layout, acts, queues, screen, board, session>>

Init ==
  /\ layout \in Layouts
  /\ made = 0 /\ typed = {} /\ toChild = <<>> /\ list = <<>> /\ late = None /\ lateTo = "list"
  /\ turn = "take" /\ batch = <<>> /\ granted = TRUE
  /\ done = <<>> /\ missed = {} /\ landed = None
  /\ acts = 0
  /\ clip = None /\ by = "user" /\ fresh = FALSE /\ mark = None
  /\ toMain = <<>> /\ latest = None
  /\ getting = None /\ ack = None /\ serving = None /\ tokens = None
  /\ toClient = <<>> /\ asking = None /\ joined = <<>> /\ giving = None

-----------------------------------------------------------------------------
\* Where a point of the picture of all the monitors is: the picture begins at
\* the leftmost monitor, or at 0 if none is to the left of it.
Shift(mons) == -Min({0} \union {mons[i].x : i \in DOMAIN mons})
On(mons, i, x) == x - Shift(mons) >= mons[i].x /\ x - Shift(mons) < mons[i].x + mons[i].width
Target(mons, x) ==
  IF \E i \in DOMAIN mons : On(mons, i, x)
    THEN LET i == Min({j \in DOMAIN mons : On(mons, j, x)})
         IN  [mon |-> i, at |-> x - (Shift(mons) + mons[i].x)]
    ELSE [mon |-> 0, at |-> x]

\* The encoder puts monitor i of the picture of all at its place.
InPicture(mons, i, at) == Shift(mons) + mons[i].x + at

-----------------------------------------------------------------------------
Acts == acts < MaxActs /\ acts' = acts + 1

Request(r) ==
  /\ made' = made + 1
  /\ typed' = IF r.kind = "mouse" THEN typed \union {made + 1} ELSE typed
  /\ toChild' = Append(toChild, r @@ [n |-> made + 1])

\* The client points at a place of the picture of all the monitors.
ClientInput ==
  /\ Acts
  /\ \E x \in 0..Max({InPicture(layout, i, layout[i].width - 1) : i \in DOMAIN layout}) :
       Request([kind |-> "mouse", x |-> x])
  /\ UNCHANGED <<layout, list, late, lateTo, screen, board, session>>

\* Older clients ask for a copy or a paste.
ClientCopies ==
  /\ Acts
  /\ \/ Request([kind |-> "copy"])
     \/ \E t \in Texts : Request([kind |-> "paste", text |-> t])
  /\ UNCHANGED <<layout, list, late, lateTo, screen, board, session>>

\* The client gives a piece of its clipboard, and begins again when it likes.
\* The handler of the web socket joins the pieces and acknowledges each.
Join(t, i, before) ==
  LET joint == Append(before, [text |-> t, i |-> i])
      whole == Len(joint) >= Pieces[t]
  IN  /\ IF whole THEN Request([kind |-> "set", text |-> t, parts |-> joint])
                  ELSE UNCHANGED <<made, typed, toChild>>
      /\ tokens' = IF whole THEN None ELSE joint
      /\ ack' = i
      /\ UNCHANGED <<list, late, lateTo>>

ClientGives(t, i) ==
  /\ Acts
  /\ i = 0 \/ (giving # None /\ giving = [text |-> t, sent |-> i - 1, acked |-> TRUE])
  /\ Join(t, i, IF i = 0 THEN <<>> ELSE tokens)
  /\ giving' = [text |-> t, sent |-> i, acked |-> FALSE]
  /\ UNCHANGED <<layout, screen, board, getting, serving, toClient, asking, joined>>

\* It asks for the clipboard from its first piece, whatever it was waiting for.
ClientAsks ==
  /\ Acts
  /\ asking' = 0 /\ joined' = <<>> /\ getting' = 0
  /\ UNCHANGED <<layout, queues, screen, board, ack, serving, tokens, toClient, giving>>

\* The client takes what comes: the piece it waits for, and it asks for the next
\* one, or the acknowledgement that lets it give one more.
ClientReceives ==
  /\ toClient # <<>> /\ toClient' = Tail(toClient)
  /\ LET f == Head(toClient)
     IN  CASE f.kind = "ack" ->
                /\ giving' = IF giving # None /\ giving.sent = f.i
                               THEN [giving EXCEPT !.acked = TRUE] ELSE giving
                /\ UNCHANGED <<asking, joined, getting>>
           [] f.kind = "empty" -> asking' = None /\ UNCHANGED <<giving, joined, getting>>
           [] f.kind = "piece" /\ f.i = asking ->
                /\ joined' = Append(joined, f)
                /\ asking' = IF f.i = Pieces[f.text] - 1 THEN None ELSE f.i + 1
                /\ getting' = IF f.i = Pieces[f.text] - 1 THEN getting ELSE f.i + 1
                /\ UNCHANGED giving
           [] OTHER -> UNCHANGED <<giving, asking, joined, getting>>
  /\ UNCHANGED <<layout, acts, queues, screen, board, ack, serving, tokens>>

\* _process_clipboard_handler: the text it began to give stays until its last
\* piece; an index past its end makes it take the text there is now.
Serve ==
  /\ ack # None \/ getting # None
  /\ LET text == IF serving = None THEN latest ELSE serving
     IN  IF ack # None
           THEN /\ toClient' = Append(toClient, [kind |-> "ack", i |-> ack])
                /\ ack' = None /\ UNCHANGED <<getting, serving>>
         ELSE IF text = None
           THEN /\ toClient' = Append(toClient, [kind |-> "empty"])
                /\ getting' = None /\ UNCHANGED <<ack, serving>>
         ELSE IF getting <= Pieces[text] - 1
           THEN /\ toClient' = Append(toClient, [kind |-> "piece", text |-> text, i |-> getting])
                /\ serving' = IF getting = Pieces[text] - 1 THEN None ELSE text
                /\ getting' = None /\ UNCHANGED ack
           ELSE serving' = None /\ UNCHANGED <<toClient, getting, ack>>
  /\ UNCHANGED <<layout, acts, queues, screen, board, tokens, asking, joined, giving>>

\* mutant: no append has the lock
ReadRequestUnlocked ==
  /\ toChild # <<>> /\ late = None /\ toChild' = Tail(toChild)
  /\ late' = Head(toChild) /\ lateTo' = "list"
  /\ UNCHANGED <<layout, acts, made, typed, list, screen, board, session>>

-----------------------------------------------------------------------------
\* ProcessCapture.run: inputs are appended under _inputs_lock; a copy, a paste
\* and a clipboard find the list first and append to it later, with no lock.
ReadRequest ==
  /\ toChild # <<>> /\ late = None /\ toChild' = Tail(toChild)
  /\ IF Head(toChild).kind = "mouse"
       THEN list' = Append(list, Head(toChild)) /\ UNCHANGED <<late, lateTo>>
       ELSE late' = Head(toChild) /\ lateTo' = "list" /\ UNCHANGED list
  /\ UNCHANGED <<layout, acts, made, typed, screen, board, session>>

\* What is appended to a list that has been handled, or dropped, is lost.
AppendLate ==
  /\ late # None /\ late' = None /\ lateTo' = "list"
  /\ list' = IF lateTo = "list" THEN Append(list, late) ELSE list
  /\ batch' = IF lateTo = "batch" THEN Append(batch, late) ELSE batch
  /\ UNCHANGED <<layout, acts, made, typed, toChild, turn, granted, done, missed, landed, board, session>>

\* The thread of the screen, at each turn, takes the inputs there are: those that
\* come while the user has not allowed the capture are dropped.  (A turn with
\* nothing to do is left out.)
TakeInputs ==
  /\ turn = "take" /\ (list # <<>> \/ fresh) /\ turn' = "handle"
  /\ \E g \in BOOLEAN :
       /\ granted' = g
       /\ batch' = IF g THEN list ELSE <<>>
       /\ missed' = IF g THEN missed ELSE missed \union {list[i].n : i \in DOMAIN list}
       /\ lateTo' = IF list = <<>> THEN lateTo
                    ELSE IF late = None THEN "list"
                    ELSE IF lateTo = "list" /\ g THEN "batch" ELSE "gone"
  /\ list' = <<>>
  /\ UNCHANGED <<layout, acts, made, typed, toChild, late, done, landed, board, session>>

\* _handle_inputs.  What the client set is marked, so that it is not told of it;
\* a copy has the user's selection copied and the mark forgotten.
Handle ==
  /\ turn = "handle" /\ batch # <<>> /\ batch' = Tail(batch)
  /\ LET r == Head(batch)
     IN  /\ done' = Append(done, r.n)
         /\ landed' = IF r.kind = "mouse" THEN [x |-> r.x, hit |-> Target(layout, r.x)] ELSE None
         /\ mark' = CASE r.kind = "set" -> r.text [] r.kind = "copy" -> None [] OTHER -> mark
         /\ CASE r.kind = "mouse" -> UNCHANGED <<clip, by, fresh>>
              [] r.kind = "copy" -> clip' \in Texts /\ by' = "user" /\ fresh' = TRUE
              [] r.kind = "paste" -> clip' = r.text /\ by' = "paste" /\ fresh' = TRUE
              [] r.kind = "set" -> clip' = r.text /\ by' = "client" /\ fresh' = TRUE
  /\ UNCHANGED <<layout, acts, queues, turn, granted, missed, toMain, latest, session>>

HandleEnds ==
  /\ turn = "handle" /\ batch = <<>> /\ turn' = "clip" /\ landed' = None
  /\ lateTo' = IF lateTo = "batch" THEN "gone" ELSE lateTo
  /\ UNCHANGED <<layout, acts, made, typed, toChild, list, late, batch, granted, done, missed, board, session>>

\* _lib_get_clipboard: a text that has changed, and is not the one marked, is told.
GetClipboard ==
  /\ turn = "clip" /\ turn' = "take"
  /\ fresh' = FALSE
  /\ IF fresh /\ mark # clip
       THEN mark' = clip /\ toMain' = Append(toMain, [text |-> clip, by |-> by])
       ELSE UNCHANGED <<mark, toMain>>
  /\ UNCHANGED <<layout, acts, queues, batch, granted, done, missed, landed, clip, by, latest, session>>

\* Somebody copies a text at the computer.
UserCopies ==
  /\ Acts
  /\ clip' \in Texts /\ by' = "user" /\ fresh' = TRUE
  /\ UNCHANGED <<layout, queues, screen, mark, toMain, latest, session>>

\* CLIPBOARD_CHANGED reaches the agent.
ReceiveClipboard ==
  /\ toMain # <<>> /\ toMain' = Tail(toMain) /\ latest' = Head(toMain).text
  /\ UNCHANGED <<layout, acts, queues, screen, clip, by, fresh, mark, session>>

Next ==
  \/ ClientInput \/ ClientCopies \/ ClientAsks \/ ClientReceives \/ Serve
  \/ \E t \in Texts : \E i \in 0..Pieces[t] - 1 : ClientGives(t, i)
  \/ ReadRequest \/ AppendLate \/ TakeInputs \/ Handle \/ HandleEnds \/ GetClipboard
  \/ UserCopies \/ ReceiveClipboard

Spec == Init /\ [][Next]_vars

-----------------------------------------------------------------------------
Numbers(q) == {q[i].n : i \in DOMAIN q}

\* Inputs are handled once, in the order the client made them, at the pixel of the
\* picture it pointed at, and none made with the mouse or the keyboard is lost but
\* those that came while the capture was not allowed.  (A copy, a paste or a
\* clipboard may be: it is appended without the lock.)
InputsLand ==
  /\ \A i, j \in DOMAIN done : i < j => done[i] < done[j]
  /\ landed # None =>
       \A i \in DOMAIN layout : \A at \in 0..layout[i].width - 1 :
         InPicture(layout, i, at) = landed.x => landed.hit = [mon |-> i, at |-> at]
  /\ typed \subseteq Numbers(toChild \o list \o batch) \union ToSet(done) \union missed

\* The text the client joins, and the one the agent joins for it, are the pieces
\* of one text in their order, although the clipboard changes and either of them
\* begins again between two pieces; and the client is not told, as a change, of
\* the text it set itself.
ClipboardWhole ==
  /\ \A i \in DOMAIN joined : joined[i].text = joined[1].text /\ joined[i].i = i - 1
  /\ \A q \in {toChild, list, batch} : \A k \in DOMAIN q : q[k].kind = "set" =>
       q[k].parts = [i \in 1..Pieces[q[k].text] |-> [text |-> q[k].text, i |-> i - 1]]
  /\ \A i \in DOMAIN toMain : toMain[i].by # "client"
=============================================================================
