-------------------------- MODULE DevClientProofs --------------------------
(***************************************************************************)
(* Theorems about DevClient for any files, rows and columns: what will be  *)
(* saved is what the board shows, and a file that can be read is only      *)
(* overwritten by its own data.                                            *)
(*                                                                         *)
(* The first is inductive with the types, which say that the data never    *)
(* reaches past the board.  The second needs that file_ is the file the    *)
(* data belongs to, unless it is one that does not parse (Related).        *)
(***************************************************************************)
EXTENDS DevClient, TLAPS

-----------------------------------------------------------------------------
(* Rows and layouts.                                                       *)

(* A row is a sequence that ends within the board.                         *)
LEMMA RowIsSeq ==
  ASSUME DevClientConstants, NEW row \in RowsOf(0..Width)
  PROVE  /\ Len(row) \in 0..Width /\ DOMAIN row = 1..Len(row)
         /\ \A c \in 1..Len(row) : row[c] \in Marks \cup {Null}
<1>1. PICK n \in 0..Width : row \in [1..n -> Marks \cup {Null}]
  BY DEF RowsOf
<1>2. n \in Nat
  BY DEF DevClientConstants
<1>3. row \in Seq(Marks \cup {Null}) /\ Len(row) = n
  BY <1>1, <1>2
<1>4. QED BY <1>1, <1>3

(* A sequence of marks and nulls within the board is a row.                *)
LEMMA SeqIsRow ==
  ASSUME NEW n \in 0..Width, NEW row \in [1..n -> Marks \cup {Null}]
  PROVE  row \in RowsOf(0..Width)
BY DEF RowsOf

(* Setting a mark keeps a row a row; what it had it keeps, and what is new *)
(* is the mark or a null.                                                  *)
LEMMA MarkedRow ==
  ASSUME DevClientConstants, NEW row \in RowsOf(0..Width), NEW c \in 1..Width, NEW m \in Marks
  PROVE  /\ WithMark(row, c, m) \in RowsOf(0..Width)
         /\ \A i \in DOMAIN WithMark(row, c, m) :
              \/ i = c /\ WithMark(row, c, m)[i] = m
              \/ i # c /\ i \in DOMAIN row /\ WithMark(row, c, m)[i] = row[i]
              \/ WithMark(row, c, m)[i] = Null
<1> DEFINE n == Max({Len(row), c})
<1>1. Len(row) \in 0..Width /\ DOMAIN row = 1..Len(row) /\ Width \in Nat
      /\ \A i \in 1..Len(row) : row[i] \in Marks \cup {Null}
  BY RowIsSeq DEF DevClientConstants
<1>2. n \in 0..Width
  <2>1. \E x \in {Len(row), c} : \A y \in {Len(row), c} : x >= y
    BY <1>1
  <2>2. n \in {Len(row), c}
    BY <2>1 DEF Max
  <2>3. QED BY <1>1, <2>2
<1> HIDE DEF n
<1>3. WithMark(row, c, m) =
        [i \in 1..n |-> IF i = c THEN m ELSE IF i <= Len(row) THEN row[i] ELSE Null]
  BY DEF WithMark, n
<1>4. WithMark(row, c, m) \in [1..n -> Marks \cup {Null}]
  BY <1>1, <1>2, <1>3
<1>5. WithMark(row, c, m) \in RowsOf(0..Width)
  BY <1>2, <1>4, SeqIsRow
<1>6. QED BY <1>1, <1>2, <1>3, <1>5

(* The empty layout and the one of a new file are layouts.                 *)
LEMMA LayoutTypes ==
  ASSUME DevClientConstants
  PROVE  NoLayout \in Layouts /\ Default \in Layouts
<1>1. Width \in Nat /\ Zero \in Marks
  BY DEF DevClientConstants
<1>2. <<>> \in [1..0 -> Marks \cup {Null}]
  OBVIOUS
<1>3. <<>> \in RowsOf(0..Width)
  <2>1. 0 \in 0..Width
    BY <1>1
  <2>2. QED BY <1>2, <2>1, SeqIsRow
<1>4. [c \in 1..Width |-> Zero] \in RowsOf(0..Width)
  BY <1>1, SeqIsRow
<1>5. QED BY <1>3, <1>4 DEF NoLayout, Default, Layouts

-----------------------------------------------------------------------------
(* The inductive invariant.                                                *)

(* What save would overwrite is the file that the data belongs to, or one  *)
(* that cannot be read.                                                    *)
Related == file # NoFile /\ Parses(disk[file]) => file = related

Inv == TypeOK /\ BoardShowsData /\ Related

(* The rest of the lines of chat, and a first one.                         *)
LEMMA RestOfLines ==
  ASSUME NEW S, NEW q \in Seq(S), q # <<>> PROVE Tail(q) \in Seq(S)
OBVIOUS

(* A first line of chat.                                                   *)
LEMMA FirstLine ==
  ASSUME NEW S, NEW m \in S
  PROVE  <<>> \in Seq(S) /\ Append(<<>>, m) \in Seq(S)
<1>1. <<>> \in Seq(S)
  OBVIOUS
<1>2. QED BY <1>1

(* The editor starts in the invariant, with no file open.                  *)
LEMMA InitHolds == ASSUME DevClientConstants, Init PROVE Inv
<1>1. TypeOK
  <2>1. data \in Layouts
    BY LayoutTypes DEF Init
  <2>2. edits \in 0..MaxEdits
    BY DEF Init, DevClientConstants
  <2>3. disk \in [Files -> {Other, Garbage, Absent, Locked}]
    BY DEF Init, DevClientConstants
  <2>4. board \in [Cells -> Marks \cup {Unset}]
    BY DEF Init
  <2>5. chat \in Seq({"could not", "now editing", "saved"})
    BY FirstLine DEF Init
  <2>6. disk \in [Files -> Layouts \cup {Other, Garbage, Absent, Locked}]
    BY <2>3
  <2>7. QED BY <2>1, <2>2, <2>4, <2>5, <2>6 DEF Init, TypeOK
<1>2. BoardShowsData
  <2>1. \A r \in Letters : DOMAIN data[r] = {}
    BY DEF Init, NoLayout
  <2>2. QED BY <2>1 DEF BoardShowsData
<1>3. QED BY <1>1, <1>2 DEF Init, Inv, Related

(* A mark is on the board and in the data at once.                         *)
LEMMA EditStep ==
  ASSUME DevClientConstants, Inv, NEW r \in Letters, NEW c \in 1..Width, NEW m \in Marks,
         Edit(r, c, m)
  PROVE  Inv'
<1>1. /\ board \in [Cells -> Marks \cup {Unset}] /\ <<r, c>> \in Cells
      /\ board' = [board EXCEPT ![<<r, c>>] = m]
      /\ edits' \in 0..MaxEdits
      /\ UNCHANGED <<file, needsUpdate, chat, disk, partial, related>>
  <2>1. edits \in 0..MaxEdits /\ MaxEdits \in Nat /\ board \in [Cells -> Marks \cup {Unset}]
    BY DEF Inv, TypeOK, DevClientConstants
  <2>2. <<r, c>> \in Cells
    BY DEF Cells
  <2>3. QED BY <2>1, <2>2 DEF Edit
<1>2. board' \in [Cells -> Marks \cup {Unset}]
  BY <1>1
<1>3. CASE data = Other
  <2>1. data' = data
    BY <1>3 DEF Edit
  <2>2. TypeOK'
    BY <1>1, <1>2, <2>1 DEF Inv, TypeOK
  <2>3. QED BY <1>1, <1>3, <2>1, <2>2 DEF Inv, BoardShowsData, Related
<1>4. CASE data # Other
  <2>1. data \in [Letters -> RowsOf(0..Width)]
    BY <1>4 DEF Inv, TypeOK, Layouts
  <2>2. data' = [data EXCEPT ![r] = WithMark(data[r], c, m)]
    BY <1>4 DEF Edit
  <2>3. WithMark(data[r], c, m) \in RowsOf(0..Width)
    BY <2>1, MarkedRow
  <2>4. data' \in Layouts
    BY <2>1, <2>2, <2>3 DEF Layouts
  <2>5. TypeOK'
    BY <1>1, <1>2, <2>4 DEF Inv, TypeOK
  <2>6. BoardShowsData'
    <3>1. SUFFICES ASSUME ~needsUpdate, ~partial, NEW s \in Letters, NEW i \in DOMAIN data'[s]
                   PROVE  data'[s][i] \in {Null, board'[<<s, i>>]}
      BY <1>1 DEF BoardShowsData
    <3>2. \A j \in DOMAIN data[s] : data[s][j] \in {Null, board[<<s, j>>]}
      BY <1>4, <3>1 DEF Inv, BoardShowsData
    <3>3. i \in 1..Width
      <4>1. data'[s] \in RowsOf(0..Width)
        BY <2>4 DEF Layouts
      <4>2. Len(data'[s]) \in 0..Width /\ DOMAIN data'[s] = 1..Len(data'[s])
        BY <4>1, RowIsSeq
      <4>3. QED BY <4>2 DEF DevClientConstants
    <3>4. <<s, i>> \in Cells
      BY <3>3 DEF Cells
    <3>5. CASE s # r
      <4>1. data'[s] = data[s] /\ board'[<<s, i>>] = board[<<s, i>>]
        BY <1>1, <2>1, <2>2, <3>4, <3>5
      <4>2. QED BY <3>1, <3>2, <4>1
    <3>6. CASE s = r
      <4>1. data'[s] = WithMark(data[r], c, m)
        BY <2>1, <2>2, <3>6
      <4>2. \/ i = c /\ data'[s][i] = m
            \/ i # c /\ i \in DOMAIN data[s] /\ data'[s][i] = data[s][i]
            \/ data'[s][i] = Null
        BY <2>1, <3>1, <3>6, <4>1, MarkedRow
      <4>3. i = c => board'[<<s, i>>] = m
        BY <1>1, <3>4, <3>6
      <4>4. i # c => board'[<<s, i>>] = board[<<s, i>>]
        BY <1>1, <3>4, <3>6
      <4>5. QED BY <3>2, <4>2, <4>3, <4>4
    <3>7. QED BY <3>5, <3>6
  <2>7. QED BY <1>1, <2>5, <2>6 DEF Inv, Related
<1>5. QED BY <1>3, <1>4

(* A file that is opened is read, or made, or cannot be read.              *)
LEMMA OpenStep ==
  ASSUME DevClientConstants, Inv, NEW f \in Files \cup {NoFile}, Open(f)
  PROVE  Inv'
<1>1. /\ file' = f
      /\ UNCHANGED <<board, edits, partial>>
      /\ OpenFails(f) \/ OpenReads(f)
      /\ chat = <<>>
  BY DEF Open
<1>2. CASE OpenFails(f)
  <2>1. /\ chat' = Append(chat, "could not") /\ UNCHANGED <<data, needsUpdate, disk, related>>
        /\ f \notin Readable
    BY <1>2 DEF OpenFails
  <2>2. chat' \in Seq({"could not", "now editing", "saved"})
    BY <1>1, <2>1, FirstLine
  <2>3. TypeOK'
    BY <1>1, <2>1, <2>2 DEF Inv, TypeOK
  <2>4. f = NoFile \/ ~Parses(disk[f])
    BY <2>1 DEF Readable, Parses
  <2>5. QED BY <1>1, <2>1, <2>3, <2>4 DEF Inv, BoardShowsData, Related
<1>3. CASE OpenReads(f)
  <2>1. /\ f \in Files /\ disk[f] \notin {Locked, Garbage}
        /\ disk' = IF disk[f] = Absent THEN [disk EXCEPT ![f] = Default] ELSE disk
        /\ data' = disk'[f]
        /\ needsUpdate' = TRUE
        /\ chat' = Append(chat, "now editing")
        /\ related' = f
    BY <1>3 DEF OpenReads, Readable
  <2>2. disk \in [Files -> Layouts \cup {Other, Garbage, Absent, Locked}]
    BY DEF Inv, TypeOK
  <2>3. /\ disk' \in [Files -> Layouts \cup {Other, Garbage, Absent, Locked}]
        /\ data' \in Layouts \cup {Other}
    BY <2>1, <2>2, LayoutTypes
  <2>4. chat' \in Seq({"could not", "now editing", "saved"})
    BY <1>1, <2>1, FirstLine
  <2>5. TypeOK'
    BY <1>1, <2>1, <2>3, <2>4 DEF Inv, TypeOK
  <2>6. QED BY <1>1, <2>1, <2>5 DEF Inv, BoardShowsData, Related
<1>4. QED BY <1>1, <1>2, <1>3

(* The save writes the data, and at no other time is a file written.       *)
LEMMA SaveStep == ASSUME Inv, Save PROVE Inv'
<1>1. /\ file \in Files
      /\ disk' = IF disk[file] = Locked THEN disk ELSE [disk EXCEPT ![file] = data]
      /\ related' = IF disk[file] = Locked THEN related ELSE file
      /\ chat = <<>> /\ chat' = Append(chat, "saved")
      /\ UNCHANGED <<file, data, needsUpdate, board, edits, partial>>
  BY DEF Save, Inv, TypeOK
<1>2. disk \in [Files -> Layouts \cup {Other, Garbage, Absent, Locked}]
  BY DEF Inv, TypeOK
<1>3. disk' \in [Files -> Layouts \cup {Other, Garbage, Absent, Locked}]
  BY <1>1, <1>2 DEF Inv, TypeOK
<1>4. chat' \in Seq({"could not", "now editing", "saved"})
  BY <1>1, FirstLine
<1>5. TypeOK'
  BY <1>1, <1>3, <1>4 DEF Inv, TypeOK
<1>6. QED BY <1>1, <1>5 DEF Inv, BoardShowsData, Related

(* The poll for chat takes the first line that waits.                      *)
LEMMA PollChatStep == ASSUME Inv, PollChat PROVE Inv'
<1>1. chat' \in Seq({"could not", "now editing", "saved"})
  <2>1. chat \in Seq({"could not", "now editing", "saved"}) /\ chat # <<>> /\ chat' = Tail(chat)
    BY DEF PollChat, Inv, TypeOK
  <2>2. QED BY <2>1, RestOfLines
<1>2. UNCHANGED <<file, data, needsUpdate, disk, board, edits, partial, related>>
  BY DEF PollChat
<1>3. QED BY <1>1, <1>2 DEF Inv, TypeOK, BoardShowsData, Related

(* A row that is read has no nulls.                                        *)
LEMMA RowsReadHaveNoNull ==
  ASSUME DevClientConstants, NEW r \in RowsRead
  PROVE  ~HasNull(data[r])
<1> DEFINE bad == {i \in DOMAIN Rows : HasNull(data[Rows[i]])}
<1>1. PICK i \in DOMAIN Rows : r = Rows[i] /\ \A k \in bad : i < k
  BY DEF RowsRead
<1>2. i \in Nat
  BY DEF DevClientConstants
<1>3. i \notin bad
  BY <1>1, <1>2
<1>4. QED BY <1>1, <1>3

(* The poll for JSON brings the rows it can read to the board.             *)
LEMMA PollJsonStep == ASSUME DevClientConstants, Inv, PollJson PROVE Inv'
<1>1. UNCHANGED <<file, data, chat, disk, edits, related>> /\ needsUpdate' = FALSE
  BY DEF PollJson
<1>2. CASE data = Other /\ UNCHANGED <<board, partial>>
  BY <1>1, <1>2 DEF Inv, TypeOK, BoardShowsData, Related
<1>3. CASE data # Other /\ board' = BoardUpdate /\ partial' = (RowsRead # Letters)
  <2>1. data \in [Letters -> RowsOf(0..Width)] /\ board \in [Cells -> Marks \cup {Unset}]
    BY <1>3 DEF Inv, TypeOK, Layouts
  <2>2. ASSUME NEW r \in Letters
        PROVE  /\ Len(data[r]) \in 0..Width /\ DOMAIN data[r] = 1..Len(data[r])
               /\ \A c \in 1..Len(data[r]) : data[r][c] \in Marks \cup {Null}
    BY <2>1, RowIsSeq
  <2>3. ASSUME NEW cell \in Cells, cell[1] \in RowsRead, cell[2] <= Len(data[cell[1]])
        PROVE  data[cell[1]][cell[2]] \in Marks
    <3>1. cell[1] \in Letters /\ cell[2] \in 1..Width
      BY DEF Cells
    <3>2. cell[2] \in DOMAIN data[cell[1]] /\ data[cell[1]][cell[2]] \in Marks \cup {Null}
      BY <2>2, <2>3, <3>1 DEF DevClientConstants
    <3>3. data[cell[1]][cell[2]] # Null
      BY <2>3, <3>2, RowsReadHaveNoNull DEF HasNull, Range
    <3>4. QED BY <3>2, <3>3
  <2>4. BoardUpdate \in [Cells -> Marks \cup {Unset}]
    BY <2>1, <2>3 DEF BoardUpdate
  <2>5. TypeOK'
    BY <1>1, <1>3, <2>4 DEF Inv, TypeOK
  <2>6. BoardShowsData'
    <3>1. SUFFICES ASSUME RowsRead = Letters, NEW r \in Letters, NEW c \in DOMAIN data[r]
                   PROVE  data[r][c] = board'[<<r, c>>]
      BY <1>1, <1>3 DEF BoardShowsData
    <3>2. <<r, c>> \in Cells /\ c <= Len(data[r])
      BY <2>2, <3>1 DEF Cells, DevClientConstants
    <3>3. QED BY <1>3, <3>1, <3>2 DEF BoardUpdate
  <2>7. QED BY <1>1, <2>5, <2>6 DEF Inv, Related
<1>4. QED BY <1>2, <1>3 DEF PollJson

(* Every step of the editor keeps the invariant.                           *)
LEMMA StepHolds == ASSUME DevClientConstants, Inv, [Next]_devVars PROVE Inv'
<1>1. CASE UNCHANGED devVars
  BY <1>1 DEF devVars, Inv, TypeOK, BoardShowsData, Related
<1>2. CASE Next
  BY <1>2, EditStep, OpenStep, SaveStep, PollChatStep, PollJsonStep DEF Next
<1>3. QED BY <1>1, <1>2

-----------------------------------------------------------------------------
(* The theorems.                                                           *)

(* Every reachable state of the editor satisfies the inductive invariant.  *)
THEOREM Invariance == ASSUME DevClientConstants PROVE Spec => []Inv
<1>1. Init => Inv
  BY InitHolds
<1>2. Inv /\ [Next]_devVars => Inv'
  BY StepHolds
<1>3. QED BY <1>1, <1>2, PTL DEF Spec

(* Every variable keeps its type: no row grows past the board.             *)
THEOREM TypeCorrect == ASSUME DevClientConstants PROVE Spec => []TypeOK
<1>1. Inv => TypeOK
  BY DEF Inv
<1>2. QED BY <1>1, Invariance, PTL

(* What will be saved is what the board shows                              *)
(* (devclient.cpp:27, 61, 96; board.cpp:9).                                *)
THEOREM SavedAsShown == ASSUME DevClientConstants PROVE Spec => []BoardShowsData
<1>1. Inv => BoardShowsData
  BY DEF Inv
<1>2. QED BY <1>1, Invariance, PTL

(* A file that can be read is only overwritten by its own data             *)
(* (devclient.cpp:49, 77).                                                 *)
THEOREM NoOtherOverwritten == ASSUME DevClientConstants PROVE Spec => OnlyOwnFile
<1>1. ASSUME Inv, [Next]_devVars, NEW f \in Files, Parses(disk[f]), disk'[f] # disk[f]
      PROVE  f = related
  <2>1. disk \in [Files -> Layouts \cup {Other, Garbage, Absent, Locked}]
    BY <1>1 DEF Inv, TypeOK
  <2>2. CASE \E g \in Files \cup {NoFile} : Open(g)
    BY <1>1, <2>1, <2>2 DEF Open, OpenFails, OpenReads, Readable, Parses
  <2>3. CASE Save
    BY <1>1, <2>1, <2>3 DEF Save, Inv, Related, TypeOK
  <2>4. CASE UNCHANGED disk
    BY <1>1, <2>4
  <2>5. QED
    BY <1>1, <2>2, <2>3, <2>4 DEF Next, devVars, Edit, PollChat, PollJson
<1>2. Inv /\ [Next]_devVars =>
        [\A f \in Files : Parses(disk[f]) /\ disk'[f] # disk[f] => f = related]_devVars
  BY <1>1
<1>3. QED BY <1>2, Invariance, PTL DEF Spec, OnlyOwnFile
=============================================================================
