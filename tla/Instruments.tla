----------------------------- MODULE Instruments -----------------------------
(***************************************************************************)
(* The DLS collections and instruments of midi_piano: the collection that  *)
(* CDirectMusic2 has loaded, the instrument it has downloaded, and the two *)
(* combo boxes of CViewIoInstructments that select them.                   *)
(*                                                                         *)
(* A handler runs to its end, but OnSelDLSCollect shows a message box when *)
(* a collection does not load, and the box has no owner window: until it   *)
(* is closed the window thread runs the other handlers, another            *)
(* OnSelDLSCollect among them.  boxes is the stack of these; the one on    *)
(* top closes first.  A selection is the index of CB_GETCURSEL plus one, 0 *)
(* for none.                                                               *)
(*                                                                         *)
(* The loader is external: a file may load at one time and not at another. *)
(***************************************************************************)
EXTENDS Integers, Sequences, SequencesExt

CONSTANTS
  DlsFiles,            \* names of files
  MaxItems, MaxBoxes,  \* bounds: entries of the list, boxes shown at once
  InstrumentCount      \* the instruments of each collection

Collections == DlsFiles \cup {"default_dls"}
ASSUME InstrumentBounds ==
  /\ MaxItems \in Nat /\ MaxBoxes \in Nat
  /\ InstrumentCount \in [Collections -> Nat \ {0}]

VARIABLES
  m_vecCollectionDLS,  \* the names CDirectMusic2 keeps
  items, selected,     \* m_GuiCB_DlsCollection
  m_pCollection,       \* the loaded collection
  instrItems,          \* the collection m_GuiCB_Instructments lists
  instrSelected,
  downloaded,          \* the collection and the index of m_pDLSInstrument
  boxes,               \* the names whose error message is on the screen
  broken,              \* an index out of range was used
  overlapped           \* history: a list was used under a box

instrumentVars == <<m_vecCollectionDLS, items, selected, m_pCollection, instrItems,
                    instrSelected, downloaded, boxes, broken, overlapped>>

\* AdjustCollectionIndex (0) and AdjustInstructmentsIndex (0) in
\* CreateMidiPiano, and the panel's OnCreate.
InstrumentInit ==
  /\ m_vecCollectionDLS = <<"default_dls">>
  /\ items = <<"default_dls">> /\ selected = 1
  /\ m_pCollection = "default_dls"
  /\ instrItems = "default_dls" /\ instrSelected = 1
  /\ downloaded = <<"default_dls", 1>>
  /\ boxes = <<>>
  /\ broken = FALSE /\ overlapped = FALSE

\* OnButtonAddDls, after IDOK.
OnButtonAddDls(f) ==
  /\ Len(m_vecCollectionDLS) < MaxItems
  /\ m_vecCollectionDLS' = Append(m_vecCollectionDLS, f)
  /\ items' = Append(items, f)
  /\ UNCHANGED <<selected, m_pCollection, instrItems, instrSelected, downloaded,
                 boxes, broken, overlapped>>

\* Mutant of AdjustCollectionIndex: the default is not loaded after a failure.
AdjustCollectionIndexKeep(id, loads) ==
  LET c == IF id # 1 /\ loads THEN m_vecCollectionDLS[id] ELSE m_pCollection
  IN /\ m_pCollection' = c
     /\ downloaded' = <<c, 1>>

\* AdjustCollectionIndex: the first entry stands for the default collection,
\* which is also loaded when another does not load.  AdjustInstructmentsIndex
\* downloads its first instrument.
AdjustCollectionIndex(id, loads) ==
  LET c == IF id # 1 /\ loads THEN m_vecCollectionDLS[id] ELSE "default_dls"
  IN /\ m_pCollection' = c
     /\ downloaded' = <<c, 1>>

\* OnSelDLSCollect when the collection loads: the instrument list is rebuilt.
OnSelDLSCollect(i) ==
  /\ i \in DOMAIN items
  /\ selected' = i
  /\ AdjustCollectionIndex(i, TRUE)
  /\ instrItems' = m_pCollection' /\ instrSelected' = 1
  /\ overlapped' = (overlapped \/ boxes # <<>>)
  /\ UNCHANGED <<m_vecCollectionDLS, items, boxes, broken>>

\* OnSelDLSCollect when it does not, up to the message box.
OnSelDLSCollectFails(i) ==
  /\ i \in DOMAIN items /\ i # 1
  /\ Len(boxes) < MaxBoxes
  /\ selected' = i
  /\ AdjustCollectionIndex(i, FALSE)
  /\ boxes' = Append(boxes, items[i])
  /\ overlapped' = (overlapped \/ boxes # <<>>)
  /\ UNCHANGED <<m_vecCollectionDLS, items, instrItems, instrSelected, broken>>

\* OnSelDLSCollect after the message box: the selected entry is erased, which
\* leaves no selection; erase (begin () - 1) if there is none.
OnSelDLSCollectEnd ==
  /\ boxes # <<>>
  /\ boxes' = Front(boxes)
  /\ \/ /\ selected # 0
        /\ m_vecCollectionDLS' = RemoveAt(m_vecCollectionDLS, selected)
        /\ items' = RemoveAt(items, selected)
        /\ UNCHANGED broken
     \/ /\ selected = 0
        /\ broken' = TRUE
        /\ UNCHANGED <<m_vecCollectionDLS, items>>
  /\ selected' = 0
  /\ instrItems' = m_pCollection /\ instrSelected' = 1
  /\ UNCHANGED <<m_pCollection, downloaded, overlapped>>

\* OnSelInstrucetments: AdjustInstructmentsIndex asserts that the collection
\* has an instrument of this index.
OnSelInstrucetments(i) ==
  /\ i \in 1..InstrumentCount[instrItems]
  /\ instrSelected' = i
  /\ IF i <= InstrumentCount[m_pCollection]
     THEN downloaded' = <<m_pCollection, i>> /\ UNCHANGED broken
     ELSE broken' = TRUE /\ UNCHANGED downloaded
  /\ overlapped' = (overlapped \/ boxes # <<>>)
  /\ UNCHANGED <<m_vecCollectionDLS, items, selected, m_pCollection, instrItems, boxes>>

\* The handlers that change the list, and those that download an instrument.
ListHandlers ==
  ~broken /\ (OnSelDLSCollectEnd \/ \E f \in DlsFiles : OnButtonAddDls(f))
AdjustHandlers ==
  /\ ~broken
  /\ \/ \E i \in 1..MaxItems : OnSelDLSCollect(i) \/ OnSelDLSCollectFails(i)
     \/ \E i \in 1..InstrumentCount[instrItems] : OnSelInstrucetments(i)

InstrumentNext == ListHandlers \/ AdjustHandlers

InstrumentSpec == InstrumentInit /\ [][InstrumentNext]_instrumentVars

-----------------------------------------------------------------------------
(***************************************************************************)
(* Properties.                                                             *)
(***************************************************************************)

\* As long as no list was used while a message was on the screen: the combo
\* boxes and the lists behind them agree, the loaded collection is the
\* one selected (the default one if none is), the instrument that plays is the
\* one its combo box shows, and no handler ever uses an index out of range.
DlsShown ==
  ~overlapped /\ boxes = <<>> =>
    /\ items = m_vecCollectionDLS /\ items # <<>> /\ items[1] = "default_dls"
    /\ m_pCollection = IF selected = 0 THEN "default_dls" ELSE items[selected]
    /\ instrItems = m_pCollection
    /\ downloaded = <<m_pCollection, instrSelected>>
    /\ ~broken
=============================================================================
