----------------------------- MODULE DevClient -----------------------------
(***************************************************************************)
(* dev::Client, the handler of updates in developer mode: the layout of a  *)
(* board is drawn by typing marks into its cells, and lines of chat open   *)
(* and save the files that hold layouts as JSON.                           *)
(*                                                                         *)
(* The board here is what its cells show: the editor types into it and     *)
(* GameContext::update reads the layout of an opened file into it.         *)
(*                                                                         *)
(* A file can be read and written, or neither (Locked).  Left out: one     *)
(* that can be read but not written, which is "saved" all the same, and    *)
(* one that can be written but not read, which ensure_file_exists          *)
(* overwrites with the default layout when it is opened.                   *)
(***************************************************************************)
EXTENDS Naturals, Sequences, SequencesExt, FiniteSetsExt, Functions

CONSTANTS Files,     \* names of files
          NoFile,    \* the empty name
          Rows,      \* a sequence: the rows in the order of their letters
          Width,     \* the columns
          Marks,     \* what a cell may show
          Zero,      \* the mark of the default layout
          Null,      \* a JSON null
          Unset,     \* a cell that was never set
          Other,     \* a JSON value that is no object
          Garbage,   \* what does not parse
          Absent,    \* a file that does not exist, but can
          Locked,    \* one that cannot be read, nor created
          FirstDisk, \* the contents of the files at first
          MaxEdits   \* bound: marks typed

(* What Program assumes of the constants.                                 *)
DevClientConstants ==
  /\ NoFile \notin Files
  /\ Rows \in Seq(Range(Rows))
  /\ Width \in Nat \ {0} /\ MaxEdits \in Nat
  /\ Zero \in Marks /\ {Null, Unset} \cap Marks = {}
  /\ FirstDisk \in [Files -> {Other, Garbage, Absent, Locked}]

VARIABLES file,         \* file_
          data,         \* data_: the layout of it (one without is empty), or Other
          needsUpdate,  \* needs_update_
          chat,         \* chat_
          disk,         \* the contents of the files
          board,        \* what the cells show
          edits,        \* marks typed
          partial,      \* history: the last reading of data was given up
          related       \* history: the file that data came from, or went to

devVars == <<file, data, needsUpdate, chat, disk, board, edits, partial, related>>

Letters == Range(Rows)
Cells   == Letters \X (1..Width)

(* A row is an array: setting an index pads it with nulls.  A row that is  *)
(* not there is an empty one.                                              *)
RowsOf(len) == UNION {[1..n -> Marks \cup {Null}] : n \in len}
Layouts     == [Letters -> RowsOf(0..Width)]
NoLayout    == [r \in Letters |-> <<>>]
Default     == [r \in Letters |-> [c \in 1..Width |-> Zero]]
WithMark(row, c, m) ==
  [i \in 1..Max({Len(row), c}) |->
     IF i = c THEN m ELSE IF i <= Len(row) THEN row[i] ELSE Null]

Parses(content) == content \notin {Garbage, Absent, Locked}

Init ==
  /\ file = NoFile
  /\ data = NoLayout
  /\ needsUpdate = FALSE
  /\ chat = <<>>
  /\ disk = FirstDisk
  /\ board = [cell \in Cells |-> Unset]
  /\ edits = 0
  /\ partial = FALSE
  /\ related = NoFile

-----------------------------------------------------------------------------
(* A mark is typed into a cell: set_tile, then update(GameUpdate).         *)
Edit(r, c, m) ==
  /\ edits < MaxEdits
  /\ edits' = edits + 1
  /\ board' = [board EXCEPT ![<<r, c>>] = m]
  /\ data' = IF data = Other THEN data ELSE [data EXCEPT ![r] = WithMark(@, c, m)]
  /\ UNCHANGED <<file, needsUpdate, chat, disk, partial, related>>

(* update(ChatUpdate) for "open": the file is made if there is none; one   *)
(* that cannot be opened or parsed leaves data_ as it was, but not file_.  *)
Readable == {f \in Files : disk[f] \notin {Locked, Garbage}}

OpenFails(f) ==
  /\ f \notin Readable
  /\ chat' = Append(chat, "could not")
  /\ UNCHANGED <<data, needsUpdate, disk, related>>

(* mutant: needs_update_ is not set.                                       *)
OpenUnseen(f) ==
  /\ f \in Readable
  /\ disk' = IF disk[f] = Absent THEN [disk EXCEPT ![f] = Default] ELSE disk
  /\ data' = disk'[f]
  /\ chat' = Append(chat, "now editing")
  /\ related' = f
  /\ UNCHANGED needsUpdate

OpenReads(f) ==
  /\ f \in Readable
  /\ disk' = IF disk[f] = Absent THEN [disk EXCEPT ![f] = Default] ELSE disk
  /\ data' = disk'[f]
  /\ needsUpdate' = TRUE
  /\ chat' = Append(chat, "now editing")
  /\ related' = f

(* mutant: the first file stays file_.                                     *)
OpenFirst(f) ==
  /\ chat = <<>>
  /\ file' = IF file = NoFile THEN f ELSE file
  /\ OpenFails(f) \/ OpenReads(f)
  /\ UNCHANGED <<board, edits, partial>>

Open(f) ==
  /\ chat = <<>>      \* bound: the lines are read before the next command
  /\ file' = f
  /\ OpenFails(f) \/ OpenReads(f)
  /\ UNCHANGED <<board, edits, partial>>

(* update(ChatUpdate) for "save", which does not ask how the last "open"   *)
(* went, nor whether the file was written.                                 *)
Save ==
  /\ chat = <<>>
  /\ file # NoFile
  /\ disk' = IF disk[file] = Locked THEN disk ELSE [disk EXCEPT ![file] = data]
  /\ related' = IF disk[file] = Locked THEN related ELSE file
  /\ chat' = Append(chat, "saved")
  /\ UNCHANGED <<file, data, needsUpdate, board, edits, partial>>

(* GameContext::update: a line of chat_ first.                             *)
PollChat ==
  /\ chat # <<>>
  /\ chat' = Tail(chat)
  /\ UNCHANGED <<file, data, needsUpdate, disk, board, edits, partial, related>>

(* parse_board_update reads row after row, and gives up at one that holds  *)
(* a null.                                                                 *)
HasNull(row) == Null \in Range(row)
RowsRead ==
  LET bad == {i \in DOMAIN Rows : HasNull(data[Rows[i]])} IN
  {Rows[i] : i \in {j \in DOMAIN Rows : \A k \in bad : j < k}}
BoardUpdate ==
  [cell \in Cells |->
     IF cell[1] \in RowsRead /\ cell[2] <= Len(data[cell[1]])
     THEN data[cell[1]][cell[2]] ELSE board[cell]]

PollJson ==
  /\ chat = <<>>
  /\ needsUpdate
  /\ needsUpdate' = FALSE
  /\ \/ data = Other /\ UNCHANGED <<board, partial>>
     \/ /\ data # Other
        /\ board' = BoardUpdate
        /\ partial' = (RowsRead # Letters)
  /\ UNCHANGED <<file, data, chat, disk, edits, related>>

Next ==
  \/ \E r \in Letters, c \in 1..Width, m \in Marks : Edit(r, c, m)
  \/ \E f \in Files \cup {NoFile} : Open(f)
  \/ Save
  \/ PollChat
  \/ PollJson

Spec == Init /\ [][Next]_devVars

-----------------------------------------------------------------------------
(* Properties.                                                             *)

(* Every variable has its type.                                            *)
TypeOK ==
  /\ file \in Files \cup {NoFile} /\ related \in Files \cup {NoFile}
  /\ data \in Layouts \cup {Other}
  /\ needsUpdate \in BOOLEAN /\ partial \in BOOLEAN
  /\ chat \in Seq({"could not", "now editing", "saved"})
  /\ disk \in [Files -> Layouts \cup {Other, Garbage, Absent, Locked}]
  /\ board \in [Cells -> Marks \cup {Unset}]
  /\ edits \in 0..MaxEdits

(* What will be saved is what the board shows: once an opened file has     *)
(* been read into the board, every mark of the data is on the board,       *)
(* whichever files were opened, in vain or not, and whatever was typed     *)
(* meanwhile (devclient.cpp:27, 61, 96; board.cpp:9).                      *)
BoardShowsData ==
  ~needsUpdate /\ ~partial /\ data # Other =>
    \A r \in Letters : \A c \in DOMAIN data[r] : data[r][c] \in {Null, board[<<r, c>>]}

(* A file that can be read is only overwritten with what was read from it, *)
(* or with what was saved to it before, and then edited: only one that     *)
(* does not parse is lost to an open that failed (devclient.cpp:49, 77).   *)
OnlyOwnFile ==
  [][\A f \in Files :
       Parses(disk[f]) /\ disk'[f] # disk[f] => f = related]_devVars

=============================================================================
