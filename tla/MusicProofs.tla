----------------------------- MODULE MusicProofs -----------------------------
(***************************************************************************)
(* Theorems of Music: whatever effects and controls the user uses, and     *)
(* however the player thread cuts in, the chain is what the boxes say, the *)
(* effects sound as their panels say and the port ends up playing.         *)
(***************************************************************************)
EXTENDS Music, TLAPS

\* The flags and the boxes always agree; the device follows between SetFX and
\* the next switch, and what is not in the chain is never pointed to.
ChainFollows ==
  /\ checked = enable /\ enable \subseteq Used /\ pos \in Used
  /\ \A e \in Used \ enable : object[e] = "NULL"
  /\ ui \in {"idle", "noise", "activate"} =>
       /\ DOMAIN device = enable
       /\ \A e \in enable : object[e] = "live"

\* SoundsAsPanel at every point of a handler.
PanelsSound ==
  /\ DOMAIN param = Used
  /\ \A e \in DOMAIN device :
       IF e \in fresh THEN Accepted(e, param[e]) => device[e] = param[e]
                      ELSE device[e] = DefaultFX(e)

EffectInv == ChainFollows /\ PanelsSound /\ PortEndsActive

LEMMA EffectInvInit == EffectInit => EffectInv
BY DEF EffectInit, EffectInv, ChainFollows, PanelsSound, PortEndsActive

\* The chain, switched and used.
LEMMA ChainStep == ChainFollows /\ [EffectNext]_effectVars => ChainFollows'
<1> SUFFICES ASSUME ChainFollows, [EffectNext]_effectVars
             PROVE  ChainFollows'
  OBVIOUS
<1> USE DEF ChainFollows
<1>1. ASSUME NEW e \in Used, OnSetEnable(e)
      PROVE  ChainFollows'
  <2>1. /\ checked' = enable' /\ enable' \subseteq Used
        /\ object' = Released(enable') /\ ui' = "setfx" /\ pos' = e
    BY <1>1 DEF OnSetEnable, SetEffectEnable
  <2> QED
    BY <2>1 DEF Released
<1>2. ASSUME NEW e \in Used, NEW p, SetEffectDesc(e, p)
      PROVE  DOMAIN device' = DOMAIN device
  BY <1>2 DEF SetEffectDesc
<1>3. ASSUME NEW e \in Used, NEW p, Apply(e, p)
      PROVE  DOMAIN device' = DOMAIN device
  BY <1>2, <1>3 DEF Apply, deviceVars
<1>4. ASSUME NEW e \in Used, NEW s, NEW v, OnSlider(e, s, v)
      PROVE  ChainFollows'
  BY <1>3, <1>4 DEF OnSlider
<1>5. ASSUME NEW e \in Used, NEW f, NEW v, OnSelCombo(e, f, v)
      PROVE  ChainFollows'
  BY <1>3, <1>5 DEF OnSelCombo
<1>6. ASSUME NEW p, OnSelReverbLevel2(p)
      PROVE  ChainFollows'
  BY <1>6 DEF OnSelReverbLevel2
<1>7. CASE EffectPanel
  BY <1>1, <1>4, <1>5, <1>6, <1>7
    DEF EffectPanel, SetReverb_L2Quality, SetReverb_L2Type
<1>8. CASE SetFX
  BY <1>8 DEF SetFX, panelVars
<1>9. CASE SetFXFails
  BY <1>9 DEF SetFXFails, panelVars, deviceVars
<1>10. CASE Activate
  <2>1. DOMAIN device' = DOMAIN device
    BY <1>10, <1>2 DEF Activate, deviceVars
  <2> QED
    BY <1>10, <2>1 DEF Activate, panelVars
<1>11. CASE \/ ClearNoise \/ ClearNoiseEnd \/ Seek \/ PlayerNoise \/ PlayerNoiseEnd
            \/ UNCHANGED effectVars
  BY <1>11 DEF ClearNoise, ClearNoiseEnd, Seek, PlayerNoise, PlayerNoiseEnd,
               panelVars, deviceVars, effectVars
<1> QED
  BY <1>7, <1>8, <1>9, <1>10, <1>11 DEF EffectNext

\* What a panel sends to an effect of the chain.
LEMMA DescSounds ==
  ASSUME PanelsSound, NEW e \in DOMAIN device, NEW p, SetEffectDesc(e, p),
         DOMAIN param' = Used, param'[e] = p,
         \A d \in Used \ {e} : param'[d] = param[d], DOMAIN device \subseteq Used
  PROVE  PanelsSound'
BY DEF PanelsSound, SetEffectDesc

LEMMA SoundStep ==
  ChainFollows /\ PanelsSound /\ [EffectNext]_effectVars => PanelsSound'
<1> SUFFICES ASSUME ChainFollows, PanelsSound, [EffectNext]_effectVars
             PROVE  PanelsSound'
  OBVIOUS
<1>1. ASSUME NEW e \in Used, NEW p, ui = "idle", Apply(e, p), DOMAIN param' = Used,
             param'[e] = p, \A d \in Used \ {e} : param'[d] = param[d]
      PROVE  PanelsSound'
  <2>1. DOMAIN device = checked /\ checked \subseteq Used
    BY <1>1 DEF ChainFollows
  <2>2. CASE e \in checked
    BY <1>1, <2>1, <2>2, DescSounds DEF Apply
  <2>3. CASE e \notin checked
    BY <1>1, <2>1, <2>3 DEF Apply, PanelsSound
  <2> QED
    BY <2>2, <2>3
<1>2. ASSUME NEW e \in Used, NEW s, NEW v, OnSlider(e, s, v)
      PROVE  PanelsSound'
  BY <1>1, <1>2 DEF OnSlider, PanelsSound
<1>3. ASSUME NEW e \in Used, NEW f, NEW v, OnSelCombo(e, f, v)
      PROVE  PanelsSound'
  BY <1>1, <1>3 DEF OnSelCombo, PanelsSound
<1>4. ASSUME NEW p, OnSelReverbLevel2(p)
      PROVE  PanelsSound'
  BY <1>4 DEF OnSelReverbLevel2, PanelsSound, ChainFollows
<1>5. CASE EffectPanel
  <2>1. ASSUME NEW e \in Used, OnSetEnable(e)
        PROVE  PanelsSound'
    BY <2>1 DEF OnSetEnable, SetEffectEnable, PanelsSound
  <2> QED
    BY <1>2, <1>3, <1>4, <1>5, <2>1
      DEF EffectPanel, SetReverb_L2Quality, SetReverb_L2Type
<1>6. CASE SetFX
  BY <1>6 DEF SetFX, panelVars, PanelsSound
<1>7. CASE Activate
  <2>1. param' = param
    BY <1>7 DEF Activate, panelVars
  <2>2. CASE pos \in enable
    BY <1>7, <2>1, <2>2, DescSounds DEF Activate, ChainFollows, PanelsSound
  <2>3. CASE pos \notin enable
    BY <1>7, <2>1, <2>3 DEF Activate, PanelsSound
  <2> QED
    BY <2>2, <2>3
<1>8. CASE \/ SetFXFails \/ ClearNoise \/ ClearNoiseEnd \/ Seek \/ PlayerNoise
           \/ PlayerNoiseEnd \/ UNCHANGED effectVars
  BY <1>8 DEF SetFXFails, ClearNoise, ClearNoiseEnd, Seek, PlayerNoise,
              PlayerNoiseEnd, panelVars, deviceVars, effectVars, PanelsSound
<1> QED
  BY <1>5, <1>6, <1>7, <1>8 DEF EffectNext

\* The port: the last of the two threads to start it wins.
LEMMA PortStep == PortEndsActive /\ [EffectNext]_effectVars => PortEndsActive'
<1> SUFFICES ASSUME PortEndsActive, [EffectNext]_effectVars
             PROVE  PortEndsActive'
  OBVIOUS
<1> USE DEF PortEndsActive
<1>1. CASE EffectPanel
  BY <1>1 DEF EffectPanel, OnSetEnable, SetEffectEnable, OnSlider, OnSelCombo,
              SetReverb_L2Quality, SetReverb_L2Type, OnSelReverbLevel2
<1>2. CASE SetFX \/ SetFXFails \/ Activate \/ ClearNoise \/ ClearNoiseEnd
  BY <1>2 DEF SetFX, SetFXFails, Activate, ClearNoise, ClearNoiseEnd
<1>3. CASE Seek \/ PlayerNoise \/ PlayerNoiseEnd \/ UNCHANGED effectVars
  BY <1>3 DEF Seek, PlayerNoise, PlayerNoiseEnd, effectVars
<1> QED
  BY <1>1, <1>2, <1>3 DEF EffectNext

\* The other component of Music only stops and starts the port.
LEMMA MusicStep == [Next]_vars => [EffectNext]_effectVars
BY DEF Next, vars, AdjustInstructmentsIndex, ChangeList, EffectNext

LEMMA EffectInvariant == Spec => []EffectInv
<1>1. Init => EffectInv
  BY EffectInvInit DEF Init
<1>2. EffectInv /\ [Next]_vars => EffectInv'
  BY MusicStep, ChainStep, SoundStep, PortStep DEF EffectInv
<1> QED
  BY <1>1, <1>2, PTL DEF Spec

\* Between two handlers the boxes, the flags, the objects and the chain of the
\* device agree (SetEffectEnable), for any set of effects.
THEOREM ChainCorrect == Spec => []ChainExact
<1>1. EffectInv => ChainExact
  BY DEF EffectInv, ChainFollows, ChainExact
<1> QED
  BY <1>1, EffectInvariant, PTL

\* An effect whose panel was used since the chain was replaced sounds as its
\* panel says, the others as the device's default, for any controls.
THEOREM SoundCorrect == Spec => []SoundsAsPanel
<1>1. EffectInv => SoundsAsPanel
  BY DEF EffectInv, PanelsSound, SoundsAsPanel
<1> QED
  BY <1>1, EffectInvariant, PTL

\* The port plays whenever neither thread is between its two calls.
THEOREM PortCorrect == Spec => []PortEndsActive
<1>1. EffectInv => PortEndsActive
  BY DEF EffectInv
<1> QED
  BY <1>1, EffectInvariant, PTL

(***************************************************************************)
(* The instruments.                                                        *)
(***************************************************************************)

\* DlsShown between two handlers, and what holds while one message is on the
\* screen: the collection that did not load is selected, the default one loaded.
ListsAgree ==
  /\ m_vecCollectionDLS = items /\ items \in Seq(Collections) /\ Len(items) > 0
  /\ items[1] = "default_dls"
  /\ selected \in 0..Len(items)
  /\ boxes \in Seq(Collections) /\ Len(boxes) <= 1
Loaded == IF selected = 0 THEN "default_dls" ELSE items[selected]
IdleLists ==
  /\ boxes = <<>>
  /\ m_pCollection = Loaded /\ instrItems = m_pCollection
  /\ downloaded = <<m_pCollection, instrSelected>>
BoxShown ==
  /\ boxes # <<>> /\ selected >= 2
  /\ m_pCollection = "default_dls" /\ downloaded = <<"default_dls", 1>>
DlsInv == ~overlapped => ~broken /\ ListsAgree /\ (IdleLists \/ BoxShown)

\* RemoveAt behind the first entry.
LEMMA RemoveAtKeepsFirst ==
  ASSUME NEW s \in Seq(Collections), NEW i \in 2..Len(s)
  PROVE  /\ RemoveAt(s, i) \in Seq(Collections)
         /\ Len(RemoveAt(s, i)) = Len(s) - 1
         /\ RemoveAt(s, i)[1] = s[1]
<1>1. /\ SubSeq(s, 1, i - 1) \in Seq(Collections) /\ Len(SubSeq(s, 1, i - 1)) = i - 1
      /\ SubSeq(s, 1, i - 1)[1] = s[1]
  OBVIOUS
<1>2. /\ SubSeq(s, i + 1, Len(s)) \in Seq(Collections)
      /\ Len(SubSeq(s, i + 1, Len(s))) = Len(s) - i
  OBVIOUS
<1> QED
  BY <1>1, <1>2 DEF RemoveAt

LEMMA DlsInvInit == InstrumentInit => DlsInv
<1> SUFFICES ASSUME InstrumentInit
             PROVE  DlsInv
  OBVIOUS
<1>1. ~broken
  BY DEF InstrumentInit
<1>2. ListsAgree
  BY DEF InstrumentInit, ListsAgree, Collections
<1>3. IdleLists
  BY DEF InstrumentInit, IdleLists, Loaded
<1> QED
  BY <1>1, <1>2, <1>3 DEF DlsInv

LEMMA DlsStep == DlsInv /\ [InstrumentNext]_instrumentVars => DlsInv'
<1> SUFFICES ASSUME DlsInv, [InstrumentNext]_instrumentVars, ~overlapped'
             PROVE  DlsInv'
  BY DEF DlsInv
<1>1. CASE UNCHANGED instrumentVars
  BY <1>1 DEF DlsInv, ListsAgree, IdleLists, BoxShown, Loaded, instrumentVars
<1>2. ASSUME NEW f \in DlsFiles, OnButtonAddDls(f)
      PROVE  DlsInv'
  <2>1. ~overlapped /\ broken' = broken
    BY <1>2 DEF OnButtonAddDls
  <2>2. ~broken' /\ ListsAgree /\ (IdleLists \/ BoxShown)
    BY <2>1 DEF DlsInv
  <2>3. f \in Collections /\ items \in Seq(Collections) /\ items' = Append(items, f)
    BY <1>2, <2>2 DEF OnButtonAddDls, ListsAgree, Collections
  <2>4. /\ items' \in Seq(Collections) /\ Len(items') = Len(items) + 1
        /\ \A i \in 1..Len(items) : items'[i] = items[i]
    BY <2>3
  <2>5. ListsAgree'
    BY <1>2, <2>2, <2>4 DEF OnButtonAddDls, ListsAgree
  <2>6. (IdleLists \/ BoxShown)'
    BY <1>2, <2>2, <2>4 DEF OnButtonAddDls, ListsAgree, IdleLists, BoxShown, Loaded
  <2> QED
    BY <2>2, <2>5, <2>6 DEF DlsInv
<1>3. CASE OnSelDLSCollectEnd
  <2>1. ~overlapped /\ boxes # <<>>
    BY <1>3 DEF OnSelDLSCollectEnd
  <2>2. ~broken /\ ListsAgree /\ BoxShown
    BY <2>1 DEF DlsInv, IdleLists
  <2>3. items \in Seq(Collections) /\ selected \in 2..Len(items)
    BY <2>2 DEF ListsAgree, BoxShown
  <2>4. /\ items' = RemoveAt(items, selected) /\ m_vecCollectionDLS' = items'
        /\ broken' = broken
    BY <1>3, <2>2, <2>3 DEF OnSelDLSCollectEnd, ListsAgree
  <2>5. boxes' = <<>>
    BY <1>3, <2>1, <2>2 DEF OnSelDLSCollectEnd, Front, ListsAgree
  <2>6. items' \in Seq(Collections) /\ Len(items') > 0 /\ items'[1] = "default_dls"
    BY <2>2, <2>3, <2>4, RemoveAtKeepsFirst DEF ListsAgree
  <2>7. ListsAgree'
    BY <1>3, <2>4, <2>5, <2>6 DEF OnSelDLSCollectEnd, ListsAgree
  <2>8. IdleLists'
    BY <1>3, <2>2, <2>5 DEF OnSelDLSCollectEnd, BoxShown, IdleLists, Loaded
  <2> QED
    BY <2>2, <2>4, <2>7, <2>8 DEF DlsInv
\* The handlers that leave a mark when a box is on the screen.
<1>4. ASSUME overlapped' = (overlapped \/ boxes # <<>>)
      PROVE  ~broken /\ ListsAgree /\ IdleLists
  BY <1>4 DEF DlsInv, BoxShown
<1>5. ASSUME NEW i \in 1..MaxItems, OnSelDLSCollect(i)
      PROVE  DlsInv'
  <2>1. ~broken /\ ListsAgree /\ IdleLists /\ broken' = broken
    BY <1>4, <1>5 DEF OnSelDLSCollect
  <2>2. i \in 1..Len(items)
    BY <1>5, <2>1 DEF OnSelDLSCollect, ListsAgree
  <2>3. ListsAgree'
    BY <1>5, <2>1, <2>2 DEF OnSelDLSCollect, ListsAgree
  <2>4. m_pCollection' = items[i] /\ downloaded' = <<m_pCollection', 1>>
    BY <1>5, <2>1 DEF OnSelDLSCollect, AdjustCollectionIndex, ListsAgree
  <2>5. IdleLists'
    BY <1>5, <2>1, <2>2, <2>4 DEF OnSelDLSCollect, IdleLists, Loaded
  <2> QED
    BY <2>1, <2>3, <2>5 DEF DlsInv
<1>6. ASSUME NEW i \in 1..MaxItems, OnSelDLSCollectFails(i)
      PROVE  DlsInv'
  <2>1. ~broken /\ ListsAgree /\ IdleLists /\ broken' = broken
    BY <1>4, <1>6 DEF OnSelDLSCollectFails
  <2>2. i \in 2..Len(items) /\ items[i] \in Collections
    BY <1>6, <2>1 DEF OnSelDLSCollectFails, ListsAgree
  <2>3. boxes' = <<items[i]>>
    BY <1>6, <2>1 DEF OnSelDLSCollectFails, IdleLists
  <2>4. boxes' \in Seq(Collections) /\ Len(boxes') = 1 /\ boxes' # <<>>
    BY <2>2, <2>3
  <2>5. ListsAgree'
    BY <1>6, <2>1, <2>2, <2>4 DEF OnSelDLSCollectFails, ListsAgree
  <2>6. BoxShown'
    BY <1>6, <2>2, <2>4 DEF OnSelDLSCollectFails, AdjustCollectionIndex, BoxShown
  <2> QED
    BY <2>1, <2>5, <2>6 DEF DlsInv
<1>7. ASSUME NEW i, OnSelInstrucetments(i)
      PROVE  DlsInv'
  <2>1. ~broken /\ ListsAgree /\ IdleLists
    BY <1>4, <1>7 DEF OnSelInstrucetments
  <2>2. m_pCollection \in Collections
    BY <2>1 DEF ListsAgree, IdleLists, Loaded, Collections
  <2>3. i \in 1..InstrumentCount[m_pCollection] /\ InstrumentCount[m_pCollection] \in Nat
    BY <1>7, <2>1, <2>2, InstrumentBounds DEF OnSelInstrucetments, IdleLists
  <2>4. i <= InstrumentCount[m_pCollection]
    BY <2>3
  <2>5. downloaded' = <<m_pCollection, i>> /\ broken' = broken
    BY <1>7, <2>4 DEF OnSelInstrucetments
  <2>6. ListsAgree' /\ IdleLists'
    BY <1>7, <2>1, <2>5 DEF OnSelInstrucetments, ListsAgree, IdleLists, Loaded
  <2> QED
    BY <2>1, <2>5, <2>6 DEF DlsInv
<1> QED
  BY <1>1, <1>2, <1>3, <1>5, <1>6, <1>7 DEF InstrumentNext, ListHandlers, AdjustHandlers

\* As long as no list is used under a message box the combo boxes of
\* CViewIoInstructments show what CDirectMusic2 has loaded, for any files.
THEOREM DlsCorrect == Spec => []DlsShown
<1>1. Init => DlsInv
  BY DlsInvInit DEF Init
<1>2. DlsInv /\ [Next]_vars => DlsInv'
  <2>1. [Next]_vars => [InstrumentNext]_instrumentVars
    BY DEF Next, vars, AdjustInstructmentsIndex, ChangeList, InstrumentNext
  <2> QED
    BY <2>1, DlsStep
<1>3. DlsInv => DlsShown
  <2>1. ListsAgree => items # <<>>
    BY DEF ListsAgree
  <2> QED
    BY <2>1 DEF DlsInv, DlsShown, ListsAgree, IdleLists, BoxShown, Loaded
<1> QED
  BY <1>1, <1>2, <1>3, PTL DEF Spec
=============================================================================
