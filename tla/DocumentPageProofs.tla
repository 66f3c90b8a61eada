------------------------- MODULE DocumentPageProofs -------------------------
(***************************************************************************)
(* Theorems about DocumentPage, for any companies, competências, notes and *)
(* any number of loads, calls and dialogs at once.                         *)
(*                                                                         *)
(* What the page shows is of its header because one load of a kind counts  *)
(* (OneLatest) and a search that counts, of the company shown, is of the   *)
(* competência shown (SearchCurrent).  Every step that begins loads keeps  *)
(* both: what follows a set of loads (Follows) has a search that counts    *)
(* wherever the set had one, and only adds searches of the header.  A      *)
(* filter in error sends no search, so nothing may then be loading         *)
(* (FlagsHonest): the edit of the filter waits for that.                   *)
(*                                                                         *)
(* The markers are true because a company with no marker has no call       *)
(* (CallsFit), a dialog about notes names one (DialogsFit), and the notes  *)
(* of an event in flight are kept by the sets the page asks (SendsFit).    *)
(* Whatever is open or in flight was begun by a page with a company        *)
(* (BusyFits), so that an answer always finds one.                         *)
(*                                                                         *)
(* A reset is of the company its dialog asked about where the dialog opens *)
(* at once (AskedInv): no list of companies leaves out the one shown.      *)
(***************************************************************************)
EXTENDS DocumentPage, FiniteSetTheorems, TLAPS

-----------------------------------------------------------------------------
(* The loads.                                                              *)

Has(ls, kind) == \E l \in ls : l.kind = kind /\ l.latest

LoadFits(l, listed) ==
    /\ l \in Load
    /\ l.kind # "companies" => l.cnpj \in Companies
    /\ l.kind = "search" => l.competence \in Competences
    /\ l.kind = "companies" => l.of \subseteq listed /\ FirstCompany \in l.of

\* latestOnly: one load of each kind counts.
OneLatest(ls) ==
    \A l, k \in ls : l.kind = k.kind /\ l.kind # "note" /\ l.latest /\ k.latest => l = k

LoadsFit(ls, listed) == (\A l \in ls : LoadFits(l, listed)) /\ OneLatest(ls)

SameSearch(l, k) ==
    k.kind = "search" /\ k.latest /\ k.cnpj = l.cnpj /\ k.competence = l.competence

\* ls follows old: no search and no load of the pendências that counts is gone
\* without another, and a new search is of company c and competência m.
Follows(ls, old, c, m, listed) ==
    /\ LoadsFit(ls, listed)
    /\ Has(old, "search") => Has(ls, "search")
    /\ Has(old, "pending") => Has(ls, "pending")
    /\ \A l \in ls : l.kind = "search" /\ l.latest =>
          \/ ~listError /\ l.cnpj = c /\ l.competence = m
          \/ \E k \in old : SameSearch(l, k)

LEMMA FollowsItself ==
    ASSUME NEW ls, NEW c, NEW m, NEW listed, LoadsFit(ls, listed)
    PROVE  Follows(ls, ls, c, m, listed)
    BY DEF Follows, SameSearch

LEMMA Demoted ==
    ASSUME NEW x \in Load, NEW y, y = [x EXCEPT !.latest = FALSE]
    PROVE  /\ y \in Load /\ ~y.latest /\ y.kind = x.kind /\ y.cnpj = x.cnpj
           /\ y.competence = x.competence /\ y.of = x.of
    BY DEF Load

LEMMA BegunFollows ==
    ASSUME NEW ls, NEW old, NEW c, NEW m, NEW listed, Follows(ls, old, c, m, listed),
           NEW l, LoadFits(l, listed), l.latest = TRUE,
           l.kind = "search" => ~listError /\ l.cnpj = c /\ l.competence = m
    PROVE  /\ Follows(Begun(ls, l), old, c, m, listed)
           /\ l \in Begun(ls, l)
  <1>1. l \in Begun(ls, l)
    BY DEF Begun
  <1>2. ASSUME NEW y \in Begun(ls, l)
        PROVE  \/ y = l
               \/ /\ y \in ls /\ (y.kind # l.kind \/ y.kind = "note")
                  /\ LoadFits(y, listed)
               \/ ~y.latest /\ LoadFits(y, listed)
    <2>1. CASE y = l
      BY <2>1
    <2>2. CASE y # l
      <3>1. PICK x \in ls :
               y = IF x.kind = l.kind /\ l.kind # "note" THEN [x EXCEPT !.latest = FALSE] ELSE x
        BY <1>2, <2>2 DEF Begun
      <3>2. LoadFits(x, listed)
        BY DEF Follows, LoadsFit
      <3>3. CASE x.kind = l.kind /\ l.kind # "note"
        <4>1. y = [x EXCEPT !.latest = FALSE]
          BY <3>1, <3>3
        <4> QED BY <3>2, <4>1, Demoted DEF LoadFits
      <3>4. CASE ~(x.kind = l.kind /\ l.kind # "note")
        BY <3>1, <3>2, <3>4
      <3> QED BY <3>3, <3>4
    <2> QED BY <2>1, <2>2
  <1>3. \A y \in Begun(ls, l) : LoadFits(y, listed)
    BY <1>2
  <1>4. OneLatest(Begun(ls, l))
    BY <1>2 DEF OneLatest, Follows, LoadsFit
  <1>5. ASSUME NEW kind, Has(ls, kind)
        PROVE  Has(Begun(ls, l), kind)
    <2>1. CASE l.kind = kind
      BY <1>1, <2>1 DEF Has
    <2>2. CASE l.kind # kind
      <3>1. PICK x \in ls : x.kind = kind /\ x.latest
        BY <1>5 DEF Has
      <3>2. x \in Begun(ls, l)
        BY <2>2, <3>1 DEF Begun
      <3> QED BY <3>1, <3>2 DEF Has
    <2> QED BY <2>1, <2>2
  <1>6. \A y \in Begun(ls, l) : y.kind = "search" /\ y.latest =>
          \/ ~listError /\ y.cnpj = c /\ y.competence = m
          \/ \E k \in old : SameSearch(y, k)
    BY <1>2 DEF Follows
  <1> QED BY <1>1, <1>3, <1>4, <1>5, <1>6 DEF Follows, LoadsFit

LEMMA SearchingFollows ==
    ASSUME NEW ls, NEW old, NEW c \in Companies, NEW m \in Competences, NEW listed,
           Follows(ls, old, c, m, listed)
    PROVE  /\ Follows(Searching(ls, c, m), old, c, m, listed)
           /\ ~listError => \A l \in Searching(ls, c, m) :
                               l.kind = "search" /\ l.latest => l.cnpj = c /\ l.competence = m
  <1>1. CASE listError
    BY <1>1 DEF Searching, Searches
  <1>2. CASE ~listError
    <2>1. Searching(ls, c, m) = Begun(ls, NewLoad("search", c, m, {}))
      BY <1>2, CompanyAssumption DEF Searching, Searches, None
    <2>2. PICK l : l = NewLoad("search", c, m, {})
      OBVIOUS
    <2>3. l \in Load /\ l.kind = "search" /\ l.cnpj = c /\ l.competence = m /\ l.latest = TRUE
      <3>1. "search" \in Kinds /\ c \in Companies \cup {None} /\ m \in Competences \cup {None}
            /\ {} \in SUBSET (Companies \cup Notes)
        BY DEF Kinds
      <3> QED BY <2>2, <3>1 DEF NewLoad, Load
    <2>4. LoadFits(l, listed)
      BY <2>3 DEF LoadFits
    <2>5. Follows(Begun(ls, l), old, c, m, listed) /\ l \in Begun(ls, l)
      BY <1>2, <2>3, <2>4, BegunFollows
    <2>6. \A k \in Begun(ls, l) : k.kind = "search" /\ k.latest => k = l
      BY <2>3, <2>5 DEF Follows, LoadsFit, OneLatest
    <2> QED BY <2>1, <2>2, <2>3, <2>5, <2>6
  <1> QED BY <1>1, <1>2

\* A load that is of no search and of one company.
LEMMA OtherFollows ==
    ASSUME NEW ls, NEW old, NEW c \in Companies, NEW m, NEW listed,
           Follows(ls, old, c, m, listed),
           NEW kind \in {"pageStatus", "pending", "note"}, NEW of \in SUBSET Notes
    PROVE  Follows(Begun(ls, NewLoad(kind, c, None, of)), old, c, m, listed)
  <1>1. PICK l : l = NewLoad(kind, c, None, of)
    OBVIOUS
  <1>2. l \in Load /\ l.kind = kind /\ l.cnpj = c /\ l.latest = TRUE
    <2>1. kind \in Kinds /\ c \in Companies \cup {None} /\ None \in Competences \cup {None}
          /\ of \in SUBSET (Companies \cup Notes)
      BY DEF Kinds
    <2> QED BY <1>1, <2>1 DEF NewLoad, Load
  <1>3. LoadFits(l, listed)
    BY <1>2 DEF LoadFits
  <1> QED BY <1>1, <1>2, <1>3, BegunFollows

LEMMA StatusFollows ==
    ASSUME NEW ls, NEW old, NEW c \in Companies, NEW m, NEW listed,
           Follows(ls, old, c, m, listed)
    PROVE  /\ Follows(LoadingStatus(ls, c), old, c, m, listed)
           /\ Follows(LoadingPending(ls, c), old, c, m, listed)
    BY OtherFollows DEF LoadingStatus, LoadingPending

LEMMA CompaniesFollow ==
    ASSUME NEW ls, NEW old, NEW c, NEW m, Follows(ls, old, c, m, backendList),
           NEW listed \in SUBSET Companies, FirstCompany \in listed,
           backendList \subseteq listed
    PROVE  Follows(Begun(ls, NewLoad("companies", None, None, listed)), old, c, m, listed)
  <1>1. Follows(ls, old, c, m, listed)
    BY DEF Follows, LoadsFit, LoadFits
  <1>2. PICK l : l = NewLoad("companies", None, None, listed)
    OBVIOUS
  <1>3. l \in Load /\ l.kind = "companies" /\ l.of = listed /\ l.latest = TRUE
    <2>1. "companies" \in Kinds /\ None \in Companies \cup {None} /\ None \in Competences \cup {None}
          /\ listed \in SUBSET (Companies \cup Notes)
      BY DEF Kinds
    <2> QED BY <1>2, <2>1 DEF NewLoad, Load
  <1>4. LoadFits(l, listed)
    BY <1>3 DEF LoadFits
  <1> QED BY <1>1, <1>2, <1>3, <1>4, BegunFollows

\* What the refresh of a company, and of one note, needs of the workspace.
Listed ==
    /\ session \in Sessions /\ competence \in Competences
    /\ backendList \subseteq Companies /\ FirstCompany \in backendList

LEMMA SourceKnown == Listed => source \in {"nfse", "nfe", "cte"}
    BY SessionAssumption DEF Listed, source

LEMMA RefreshFollows ==
    ASSUME Listed, LoadsFit(loads, backendList), NEW c \in Companies
    PROVE  Follows(Refresh(loads, c), loads, cnpj, competence, backendList)
  <1>1. Follows(loads, loads, cnpj, competence, backendList)
    BY FollowsItself
  <1>2. CASE source = "nfse"
    <2>1. Refresh(loads, c) = RefreshNFSe(loads, c)
      BY <1>2 DEF Refresh
    <2>2. Follows(LoadingCompanies(loads), loads, cnpj, competence, backendList)
      BY <1>1, CompaniesFollow DEF LoadingCompanies, Listed
    <2> QED BY <2>1, <2>2, SearchingFollows DEF RefreshNFSe, IsSelected, Listed
  <1>3. CASE source = "cte"
    <2>1. Refresh(loads, c) = RefreshCTe(loads, c)
      BY <1>3 DEF Refresh
    <2> QED BY <1>1, <2>1, SearchingFollows, StatusFollows DEF RefreshCTe, IsSelected, Listed
  <1>4. CASE source = "nfe"
    <2>1. Refresh(loads, c) = RefreshNFe(loads, c)
      BY <1>4 DEF Refresh
    <2> QED BY <1>1, <2>1, SearchingFollows, StatusFollows DEF RefreshNFe, IsSelected, Listed
  <1> QED BY <1>2, <1>3, <1>4, SourceKnown

LEMMA RefreshNoteFollows ==
    ASSUME Listed, LoadsFit(loads, backendList), NEW c \in Companies, NEW chave \in Notes
    PROVE  Follows(RefreshNote(loads, c, chave), loads, cnpj, competence, backendList)
  <1>1. Follows(loads, loads, cnpj, competence, backendList)
    BY FollowsItself
  <1>2. CASE ~IsSelected(c)
    BY <1>1, <1>2 DEF RefreshNote
  <1>3. CASE IsSelected(c)
    <2>1. Follows(Begun(loads, NewLoad("note", c, None, {chave})), loads, cnpj, competence, backendList)
      <3>1. {chave} \in SUBSET Notes /\ c = cnpj
        BY <1>3 DEF IsSelected
      <3> QED BY <1>1, <3>1, OtherFollows
    <2>2. Follows(Searching(loads, c, competence), loads, cnpj, competence, backendList)
      BY <1>1, <1>3, SearchingFollows DEF IsSelected, Listed
    <2>3. PICK found : found = IF \E r \in rows : r.chave = chave
                               THEN Begun(loads, NewLoad("note", c, None, {chave}))
                               ELSE Searching(loads, c, competence)
      OBVIOUS
    <2>4. Follows(found, loads, cnpj, competence, backendList)
      BY <2>1, <2>2, <2>3
    <2>5. RefreshNote(loads, c, chave) = LoadingPending(LoadingStatus(found, c), c)
      BY <1>3, <2>3 DEF RefreshNote
    <2> QED BY <1>3, <2>4, <2>5, StatusFollows DEF IsSelected
  <1> QED BY <1>2, <1>3

LEMMA OfResetFollows ==
    ASSUME NEW ls, NEW old, NEW c, NEW m, NEW listed, Follows(ls, old, c, m, listed)
    PROVE  Follows(OfReset(ls), old, c, m, listed)
  <1>1. ASSUME NEW y \in OfReset(ls)
        PROVE  \E l \in ls : /\ LoadFits(y, listed) /\ y.kind = l.kind /\ y.latest = l.latest
                             /\ y.cnpj = l.cnpj /\ y.competence = l.competence
                             /\ y = IF l.latest /\ l.kind \in {"search", "pageStatus", "pending"}
                                    THEN [l EXCEPT !.reset = TRUE] ELSE l
    <2>1. PICK l \in ls : y = IF l.latest /\ l.kind \in {"search", "pageStatus", "pending"}
                              THEN [l EXCEPT !.reset = TRUE] ELSE l
      BY DEF OfReset
    <2>2. LoadFits(l, listed) /\ l \in Load
      BY DEF Follows, LoadsFit, LoadFits
    <2>3. CASE l.latest /\ l.kind \in {"search", "pageStatus", "pending"}
      <3>1. y = [l EXCEPT !.reset = TRUE]
        BY <2>1, <2>3
      <3>2. /\ y \in Load /\ y.kind = l.kind /\ y.latest = l.latest /\ y.cnpj = l.cnpj
            /\ y.competence = l.competence /\ y.of = l.of
        BY <2>2, <3>1 DEF Load
      <3> QED BY <2>1, <2>2, <3>2 DEF LoadFits
    <2>4. CASE ~(l.latest /\ l.kind \in {"search", "pageStatus", "pending"})
      BY <2>1, <2>2, <2>4
    <2> QED BY <2>3, <2>4
  <1>2. OneLatest(OfReset(ls))
    <2> SUFFICES ASSUME NEW x \in OfReset(ls), NEW y \in OfReset(ls), x.kind = y.kind,
                        x.kind # "note", x.latest, y.latest
                 PROVE  x = y
      BY DEF OneLatest
    <2>1. PICK l \in ls : /\ x.kind = l.kind /\ x.latest = l.latest
                         /\ x = IF l.latest /\ l.kind \in {"search", "pageStatus", "pending"}
                                THEN [l EXCEPT !.reset = TRUE] ELSE l
      BY <1>1
    <2>2. PICK k \in ls : /\ y.kind = k.kind /\ y.latest = k.latest
                         /\ y = IF k.latest /\ k.kind \in {"search", "pageStatus", "pending"}
                                THEN [k EXCEPT !.reset = TRUE] ELSE k
      BY <1>1
    <2>3. l = k
      BY <2>1, <2>2 DEF Follows, LoadsFit, OneLatest
    <2> QED BY <2>1, <2>2, <2>3
  <1>3. ASSUME NEW l \in ls
        PROVE  \E y \in OfReset(ls) : y.kind = l.kind /\ y.latest = l.latest
    <2>1. l \in Load
      BY DEF Follows, LoadsFit, LoadFits
    <2>2. CASE l.latest /\ l.kind \in {"search", "pageStatus", "pending"}
      <3>1. [l EXCEPT !.reset = TRUE] \in OfReset(ls)
        BY <2>2 DEF OfReset
      <3> QED BY <2>1, <3>1 DEF Load
    <2>3. CASE ~(l.latest /\ l.kind \in {"search", "pageStatus", "pending"})
      BY <2>3 DEF OfReset
    <2> QED BY <2>2, <2>3
  <1>4. \A kind : Has(ls, kind) => Has(OfReset(ls), kind)
    BY <1>3 DEF Has
  <1>5. \A y \in OfReset(ls) : y.kind = "search" /\ y.latest =>
          \/ ~listError /\ y.cnpj = c /\ y.competence = m
          \/ \E k \in old : SameSearch(y, k)
    BY <1>1 DEF Follows, SameSearch
  <1> QED BY <1>1, <1>2, <1>4, <1>5 DEF Follows, LoadsFit

-----------------------------------------------------------------------------
(* What the page shows.                                                    *)

WorkspaceFits ==
    /\ Listed
    /\ companies \subseteq backendList /\ cnpj \in companies \cup {None}
    /\ stored \in Companies \cup {None}
    /\ mounted \in BOOLEAN /\ listError \in BOOLEAN

RowsFit ==
    /\ rows \subseteq Row /\ selected \subseteq rows
    /\ rowsFor \in Key \cup {NoKey}
    /\ \A r \in rows : r.of = rowsFor.cnpj

InfoFits == pageStatus \in Companies \cup {None} /\ pending \in Companies \cup {None}

\* A field in error is of a list that nobody loads.
FlagsHonest ==
    /\ loading \in BOOLEAN /\ (loading <=> Has(loads, "search"))
    /\ pendingLoading \in BOOLEAN /\ (pendingLoading <=> Has(loads, "pending"))
    /\ listError => ~loading

\* A search that counts, of the company shown, is of the competência shown.
SearchCurrent ==
    mounted => \A l \in loads : l.kind = "search" /\ l.latest /\ l.cnpj = cnpj
                  => l.competence = competence

HeaderFits ==
    mounted => /\ rowsFor \in {NoKey, [cnpj |-> cnpj, competence |-> competence]}
               /\ pageStatus \in {None, cnpj}

ShownInv ==
    /\ WorkspaceFits /\ LoadsFit(loads, backendList) /\ RowsFit /\ InfoFits
    /\ FlagsHonest /\ SearchCurrent /\ HeaderFits

shownVars == <<session, workspace, view, loads, list, infoVars>>

LEMMA ShownStays ==
    ASSUME ShownInv, UNCHANGED shownVars
    PROVE  ShownInv'
    BY DEF ShownInv, shownVars, workspace, view, list, infoVars, WorkspaceFits, Listed, RowsFit,
           InfoFits, FlagsHonest, SearchCurrent, HeaderFits

\* The flags of loads that begin.
LEMMA FlagsFollow ==
    ASSUME FlagsHonest, NEW ls, NEW c, NEW m, NEW listed, Follows(ls, loads, c, m, listed),
           loads' = ls, Flags(ls), listError' = listError
    PROVE  FlagsHonest'
  <1>1. /\ loading' = (loading \/ \E l \in ls \ loads : l.kind = "search" /\ l.latest)
        /\ pendingLoading' = (pendingLoading \/ \E l \in ls \ loads : l.kind = "pending" /\ l.latest)
    BY DEF Flags
  <1>2. loading' \in BOOLEAN /\ pendingLoading' \in BOOLEAN
    BY <1>1
  <1>3. loading' <=> Has(ls, "search")
    BY <1>1 DEF FlagsHonest, Follows, Has
  <1>4. pendingLoading' <=> Has(ls, "pending")
    BY <1>1 DEF FlagsHonest, Follows, Has
  <1>5. listError /\ Has(ls, "search") => Has(loads, "search")
    BY DEF Follows, Has, SameSearch
  <1>6. listError => ~loading'
    BY <1>3, <1>5 DEF FlagsHonest
  <1>7. Has(loads, "search")' = Has(ls, "search") /\ Has(loads, "pending")' = Has(ls, "pending")
    BY DEF Has
  <1> QED BY <1>2, <1>3, <1>4, <1>6, <1>7 DEF FlagsHonest

\* Loads begin or end, and the page goes on showing the same.
LEMMA LoadsKeep ==
    ASSUME ShownInv, NEW ls, Follows(ls, loads, cnpj, competence, backendList),
           loads' = ls, Flags(ls), selected' \subseteq rows, WorkspaceFits',
           UNCHANGED <<backendList, cnpj, competence, view, rows, rowsFor, pageStatus, pending>>
    PROVE  ShownInv'
  <1>1. RowsFit' /\ InfoFits' /\ HeaderFits'
    BY DEF ShownInv, view, RowsFit, InfoFits, HeaderFits
  <1>2. LoadsFit(loads, backendList)'
    BY DEF Follows, LoadsFit, OneLatest, LoadFits
  <1>3. FlagsHonest'
    BY FlagsFollow DEF ShownInv, view
  <1>4. SearchCurrent'
    BY DEF ShownInv, SearchCurrent, Follows, SameSearch, view
  <1> QED BY <1>1, <1>2, <1>3, <1>4 DEF ShownInv

\* Loads of the company shown begin: the search, a refresh.
LEMMA BeginKeeps ==
    ASSUME ShownInv, NEW ls, Follows(ls, loads, cnpj, competence, backendList),
           loads' = ls, Flags(ls), selected' \subseteq rows,
           UNCHANGED <<session, workspace, view, rows, rowsFor, pageStatus, pending>>
    PROVE  ShownInv'
  <1>1. WorkspaceFits'
    BY DEF ShownInv, workspace, view, WorkspaceFits, Listed
  <1> QED BY <1>1, LoadsKeep DEF workspace

\* Rows leave the list, or the selection.
LEMMA RowsLeave ==
    ASSUME ShownInv, rows' \subseteq rows, selected' \subseteq rows',
           UNCHANGED <<session, workspace, view, loads, loading, pendingLoading, rowsFor,
                       pageStatus, pending>>
    PROVE  ShownInv'
    BY DEF ShownInv, workspace, view, WorkspaceFits, Listed, RowsFit,
           InfoFits, FlagsHonest, SearchCurrent, HeaderFits

LEMMA LoadsLess ==
    ASSUME NEW ls, NEW listed, LoadsFit(ls, listed), NEW l, NEW c, NEW m
    PROVE  /\ LoadsFit(ls \ {l}, listed)
           /\ l.kind = "companies" => Follows(ls \ {l}, ls, c, m, listed)
  <1>1. LoadsFit(ls \ {l}, listed)
    BY DEF LoadsFit, OneLatest
  <1>2. l.kind = "companies" => \A kind \in {"search", "pending"} : Has(ls, kind) => Has(ls \ {l}, kind)
    BY DEF Has
  <1> QED BY <1>1, <1>2 DEF Follows, SameSearch

\* A load ends, whatever its reply does.
LEMMA EndsKeeps ==
    ASSUME ShownInv, NEW l \in loads, Ends(l), UNCHANGED <<session, workspace, view>>
    PROVE  /\ WorkspaceFits' /\ LoadsFit(loads, backendList)'
           /\ FlagsHonest' /\ SearchCurrent'
  <1>1. WorkspaceFits'
    BY DEF ShownInv, workspace, view, WorkspaceFits, Listed
  <1>2. loads' = loads \ {l} /\ backendList' = backendList
    BY DEF Ends, workspace
  <1>3. LoadsFit(loads, backendList)'
    BY <1>2, LoadsLess DEF ShownInv, LoadsFit, OneLatest, LoadFits
  <1>4. OneLatest(loads)
    BY DEF ShownInv, LoadsFit
  <1>5. Has(loads \ {l}, "search") <=> Has(loads, "search") /\ ~(l.kind = "search" /\ l.latest)
    BY <1>4 DEF Has, OneLatest
  <1>6. Has(loads \ {l}, "pending") <=> Has(loads, "pending") /\ ~(l.kind = "pending" /\ l.latest)
    BY <1>4 DEF Has, OneLatest
  <1>7. /\ loading' = (loading /\ ~(l.kind = "search" /\ l.latest))
        /\ pendingLoading' = (pendingLoading /\ ~(l.kind = "pending" /\ l.latest))
    BY DEF Ends
  <1>8. Has(loads, "search")' = Has(loads \ {l}, "search") /\ Has(loads, "pending")' = Has(loads \ {l}, "pending")
    BY <1>2 DEF Has
  <1>9. FlagsHonest'
    BY <1>5, <1>6, <1>7, <1>8 DEF ShownInv, FlagsHonest, view
  <1>10. SearchCurrent'
    BY <1>2 DEF ShownInv, SearchCurrent, workspace, view
  <1> QED BY <1>1, <1>3, <1>9, <1>10

LEMMA FailsKeeps ==
    ASSUME ShownInv, NEW l \in loads, LoadFails(l)
    PROVE  ShownInv'
  <1>1. Ends(l) /\ UNCHANGED <<session, workspace, view, rows, rowsFor, selected, pageStatus, pending>>
    BY DEF LoadFails
  <1>2. RowsFit' /\ InfoFits' /\ HeaderFits'
    BY <1>1 DEF ShownInv, workspace, view, RowsFit, InfoFits, HeaderFits
  <1> QED BY <1>1, <1>2, EndsKeeps DEF ShownInv

\* The reply of a search that counts is of the header.
LEMMA SearchArrivesKeeps ==
    ASSUME ShownInv, NEW l \in loads, NEW found \in SUBSET Notes, SearchArrives(l, found)
    PROVE  ShownInv'
  <1>1. Ends(l) /\ UNCHANGED <<session, workspace, view, pageStatus, pending>>
    BY DEF SearchArrives
  <1>2. InfoFits'
    BY <1>1 DEF ShownInv, InfoFits
  <1>3. CASE Accepts(l)
    <2>1. /\ l.cnpj \in Companies /\ l.competence \in Competences /\ l.latest
          /\ l.kind = "search" /\ l.cnpj = cnpj
      BY <1>3 DEF SearchArrives, ShownInv, LoadsFit, LoadFits, Accepts, IsSelected
    <2>2. /\ rows' = {[chave |-> k, of |-> l.cnpj] : k \in found}
          /\ selected' = Pruned(rows', selected)
          /\ rowsFor' = [cnpj |-> l.cnpj, competence |-> l.competence]
      BY <1>3 DEF SearchArrives, SetRows
    <2>3. \A r \in rows' : r \in Row /\ r.of = l.cnpj
      BY <2>1, <2>2 DEF Row
    <2>4. RowsFit'
      BY <2>1, <2>2, <2>3 DEF RowsFit, Pruned, Key
    <2>5. mounted => l.competence = competence
      BY <2>1 DEF ShownInv, SearchCurrent
    <2>6. HeaderFits'
      BY <1>1, <2>1, <2>2, <2>5 DEF ShownInv, HeaderFits, workspace, view
    <2> QED BY <1>1, <1>2, <2>4, <2>6, EndsKeeps DEF ShownInv
  <1>4. CASE ~Accepts(l)
    <2>1. UNCHANGED <<rows, rowsFor, selected>>
      BY <1>4 DEF SearchArrives
    <2>2. RowsFit' /\ HeaderFits'
      BY <1>1, <2>1 DEF ShownInv, workspace, view, RowsFit, HeaderFits
    <2> QED BY <1>1, <1>2, <2>2, EndsKeeps DEF ShownInv
  <1> QED BY <1>3, <1>4

LEMMA InfoArrivesKeeps ==
    ASSUME ShownInv, NEW l \in loads, StatusArrives(l) \/ PendingArrives(l)
    PROVE  ShownInv'
  <1>1. /\ Ends(l) /\ UNCHANGED <<session, workspace, view, rows, rowsFor, selected>>
        /\ pageStatus' \in {pageStatus, cnpj} /\ pending' \in {pending, cnpj}
    BY DEF StatusArrives, PendingArrives, Accepts, IsSelected
  <1>2. cnpj \in Companies \cup {None}
    BY DEF ShownInv, WorkspaceFits, Listed
  <1>3. RowsFit' /\ InfoFits' /\ HeaderFits'
    BY <1>1, <1>2 DEF ShownInv, workspace, view, RowsFit, InfoFits, HeaderFits
  <1> QED BY <1>1, <1>3, EndsKeeps DEF ShownInv

LEMMA NoteArrivesKeeps ==
    ASSUME ShownInv, NEW l \in loads, NEW matches \in BOOLEAN, NoteArrives(l, matches)
    PROVE  ShownInv'
  <1>1. Ends(l) /\ UNCHANGED <<session, workspace, view, rowsFor, pageStatus, pending>>
    BY DEF NoteArrives
  <1>2. InfoFits' /\ HeaderFits'
    BY <1>1 DEF ShownInv, workspace, view, InfoFits, HeaderFits
  <1>3. l.cnpj \in Companies
    BY DEF NoteArrives, ShownInv, LoadsFit, LoadFits
  <1>4. RowsFit'
    <2>1. CASE IsSelected(l.cnpj) /\ rowsFor.cnpj = l.cnpj
      <3>1. rows' = Patched(rows, l, matches) /\ selected' = Patched(selected, l, matches)
        BY <2>1 DEF NoteArrives
      <3>2. \A x \in Row : x.chave \in Notes /\ x.of \in Companies
        BY DEF Row
      <3>3. \A k \in Notes : [chave |-> k, of |-> l.cnpj] \in Row /\ [chave |-> k, of |-> l.cnpj].of = l.cnpj
        BY <1>3 DEF Row
      <3>4. \A r \in rows' : r \in Row /\ r.of = rowsFor.cnpj
        BY <2>1, <3>1, <3>2, <3>3 DEF Patched, ShownInv, RowsFit
      <3>5. selected' \subseteq rows'
        BY <3>1 DEF Patched, ShownInv, RowsFit
      <3> QED BY <1>1, <3>4, <3>5 DEF ShownInv, RowsFit
    <2>2. CASE ~(IsSelected(l.cnpj) /\ rowsFor.cnpj = l.cnpj)
      BY <1>1, <2>2 DEF NoteArrives, ShownInv, RowsFit
    <2> QED BY <2>1, <2>2
  <1> QED BY <1>1, <1>2, <1>4, EndsKeeps DEF ShownInv

-----------------------------------------------------------------------------
(* Another company or competência.                                         *)

\* The watchers of a page that is shown.
LEMMA WatchKeeps ==
    ASSUME ShownInv, NEW ls \in SUBSET loads, NEW c \in Companies \cup {None},
           NEW m \in Competences, NEW newCompany \in BOOLEAN,
           Follows(ls, loads, c, m, backendList), Watch(ls, c, m, newCompany),
           newCompany \/ (mounted /\ c = cnpj),
           WorkspaceFits', cnpj' = c, competence' = m, listError' = listError,
           backendList' = backendList
    PROVE  ShownInv'
  <1> DEFINE onCompany == IF newCompany THEN LoadingPending(LoadingStatus(ls, c), c) ELSE ls
             next == IF c = None THEN ls ELSE Searching(onCompany, c, m)
  <1>1. /\ loads' = next /\ Flags(next)
        /\ IF Cleared(c, m)
           THEN rows' = {} /\ selected' = {} /\ rowsFor' = NoKey
           ELSE UNCHANGED <<rows, selected, rowsFor>>
        /\ IF newCompany /\ pageStatus # c
           THEN pageStatus' = None /\ pending' = None
           ELSE UNCHANGED <<pageStatus, pending>>
    BY DEF Watch
  <1>2. Follows(next, loads, c, m, backendList)
    <2>1. CASE c = None
      BY <2>1
    <2>2. CASE c # None
      <3>1. Follows(onCompany, loads, c, m, backendList)
        BY <2>2, StatusFollows
      <3>2. next = Searching(onCompany, c, m)
        BY <2>2
      <3> HIDE DEF onCompany, next
      <3> QED BY <2>2, <3>1, <3>2, SearchingFollows
    <2> QED BY <2>1, <2>2
  <1>3. \A l \in next : l.kind = "search" /\ l.latest /\ l.cnpj = c => l.competence = m
    <2>1. CASE listError
      <3>1. ~Has(loads, "search")
        BY <2>1 DEF ShownInv, FlagsHonest
      <3> HIDE DEF next
      <3> QED BY <1>2, <2>1, <3>1 DEF Follows, Has, SameSearch
    <2>2. CASE c = None
      <3>1. \A l \in next : l.kind = "search" => l.cnpj \in Companies
        <4> HIDE DEF next
        <4> QED BY <1>2 DEF Follows, LoadsFit, LoadFits
      <3> QED BY <2>2, <3>1, CompanyAssumption DEF None
    <2>3. CASE ~listError /\ c # None
      <3>1. Follows(onCompany, loads, c, m, backendList)
        BY <2>3, StatusFollows
      <3>2. next = Searching(onCompany, c, m)
        BY <2>3
      <3> HIDE DEF onCompany, next
      <3> QED BY <2>3, <3>1, <3>2, SearchingFollows
    <2> QED BY <2>1, <2>2, <2>3
  <1> HIDE DEF next
  <1>4. LoadsFit(loads, backendList)'
    BY <1>1, <1>2 DEF Follows, LoadsFit, OneLatest, LoadFits
  <1>5. FlagsHonest'
    BY <1>1, <1>2, FlagsFollow DEF ShownInv
  <1>6. SearchCurrent'
    BY <1>1, <1>3 DEF SearchCurrent
  <1>7. RowsFit' /\ InfoFits'
    <2>1. CASE Cleared(c, m)
      BY <1>1, <2>1 DEF ShownInv, RowsFit, InfoFits
    <2>2. CASE ~Cleared(c, m)
      BY <1>1, <2>2 DEF ShownInv, RowsFit, InfoFits
    <2> QED BY <2>1, <2>2
  <1>8. HeaderFits'
    <2>1. rowsFor' \in {NoKey, [cnpj |-> c, competence |-> m]}
      BY <1>1 DEF Cleared
    <2>2. pageStatus' \in {None, c}
      BY <1>1 DEF ShownInv, HeaderFits
    <2> QED BY <2>1, <2>2 DEF HeaderFits
  <1> QED BY <1>4, <1>5, <1>6, <1>7, <1>8 DEF ShownInv

\* A page that is not shown keeps what it had.
LEMMA RekeyKeeps ==
    ASSUME ShownInv, NEW ls \in SUBSET loads, NEW c \in Companies \cup {None},
           NEW m \in Competences, NEW newCompany \in BOOLEAN,
           Follows(ls, loads, c, m, backendList), Rekey(ls, c, m, newCompany),
           newCompany \/ c = cnpj,
           WorkspaceFits', cnpj' = c, competence' = m, UNCHANGED <<view, backendList>>
    PROVE  ShownInv'
  <1>1. CASE mounted
    BY <1>1, WatchKeeps DEF Rekey, view
  <1>2. CASE ~mounted
    <2>1. loads' = ls /\ UNCHANGED <<list, infoVars>> /\ ~mounted' /\ listError' = listError
      BY <1>2 DEF Rekey, view
    <2>2. RowsFit' /\ InfoFits' /\ HeaderFits' /\ SearchCurrent'
      BY <2>1 DEF ShownInv, list, infoVars, RowsFit, InfoFits, HeaderFits, SearchCurrent
    <2>3. LoadsFit(loads, backendList)'
      BY <2>1 DEF Follows, LoadsFit, OneLatest, LoadFits
    <2>4. FlagsHonest'
      <3>1. Flags(ls)
        BY <2>1 DEF Flags, list, infoVars, ShownInv, FlagsHonest
      <3> QED BY <2>1, <3>1, FlagsFollow DEF ShownInv
    <2> QED BY <2>2, <2>3, <2>4 DEF ShownInv
  <1> QED BY <1>1, <1>2

-----------------------------------------------------------------------------
(* The steps of the workspace, the searches and the refreshes.             *)

LEMMA CompanyListed ==
    ASSUME NEW listed, FirstCompany \in listed
    PROVE  CompanyIn(listed) \in listed
  <1>1. CASE cnpj \in listed
    BY <1>1 DEF CompanyIn
  <1>2. CASE cnpj \notin listed /\ stored \in listed
    BY <1>2 DEF CompanyIn
  <1>3. CASE cnpj \notin listed /\ stored \notin listed
    BY <1>3 DEF CompanyIn
  <1> QED BY <1>1, <1>2, <1>3

LEMMA CompaniesArriveKeeps ==
    ASSUME ShownInv, NEW l \in loads, CompaniesArrive(l)
    PROVE  ShownInv'
  <1> DEFINE others == loads \ {l}
             c == CompanyIn(l.of)
  <1>1. l.kind = "companies" /\ UNCHANGED <<session, backendList, competence, view>>
    BY DEF CompaniesArrive
  <1>2. /\ LoadsFit(loads, backendList) /\ backendList \subseteq Companies
        /\ l.of \subseteq backendList /\ FirstCompany \in l.of
    BY <1>1 DEF ShownInv, LoadsFit, LoadFits, WorkspaceFits, Listed
  <1>3. c \in l.of
    BY <1>2, CompanyListed
  <1>4. \A d, m : Follows(others, loads, d, m, backendList)
    BY <1>1, <1>2, LoadsLess
  <1>5. Flags(others) <=> UNCHANGED <<loading, pendingLoading>>
    BY DEF Flags, ShownInv, FlagsHonest
  <1>6. CASE l.latest
    <2>1. /\ companies' = l.of /\ cnpj' = c /\ stored' = c
          /\ IF c # cnpj THEN Rekey(others, c, competence, TRUE)
                          ELSE loads' = others /\ UNCHANGED <<list, infoVars>>
      BY <1>6 DEF CompaniesArrive
    <2> HIDE DEF others, c
    <2>2. WorkspaceFits'
      BY <1>1, <1>2, <1>3, <2>1 DEF ShownInv, WorkspaceFits, Listed, view
    <2>3. CASE c # cnpj
      <3>1. others \in SUBSET loads /\ c \in Companies \cup {None} /\ competence \in Competences
        BY <1>2, <1>3 DEF others, ShownInv, WorkspaceFits, Listed
      <3>2. Rekey(others, c, competence, TRUE) /\ TRUE \in BOOLEAN
        BY <2>1, <2>3
      <3> QED BY <1>1, <1>4, <2>1, <2>2, <3>1, <3>2, RekeyKeeps
    <2>4. CASE c = cnpj
      <3>1. loads' = others /\ UNCHANGED <<list, infoVars>>
        BY <2>1, <2>4
      <3>2. Flags(others) /\ selected' \subseteq rows
        BY <1>5, <3>1 DEF list, infoVars, ShownInv, RowsFit
      <3> QED BY <1>1, <1>4, <2>1, <2>2, <2>4, <3>1, <3>2, LoadsKeep DEF list, infoVars
    <2> QED BY <2>3, <2>4
  <1>7. CASE ~l.latest
    <2>1. loads' = others /\ UNCHANGED <<companies, cnpj, stored, list, infoVars>>
      BY <1>7 DEF CompaniesArrive
    <2>2. Flags(others) /\ selected' \subseteq rows
      BY <1>5, <2>1 DEF list, infoVars, ShownInv, RowsFit
    <2> HIDE DEF others
    <2> QED BY <1>1, <1>4, <2>1, <2>2, BeginKeeps DEF list, infoVars, workspace
  <1> QED BY <1>6, <1>7

LEMMA NavigatesKeeps ==
    ASSUME ShownInv, Navigates
    PROVE  ShownInv'
  <1>1. \A c, m : Follows(loads, loads, c, m, backendList)
    BY FollowsItself DEF ShownInv
  <1>2. loads \in SUBSET loads /\ TRUE \in BOOLEAN /\ FALSE \in BOOLEAN
    OBVIOUS
  <1>3. competence \in Competences /\ cnpj \in Companies \cup {None}
    BY DEF ShownInv, WorkspaceFits, Listed
  <1>4. ASSUME NEW c \in companies, SelectCompany(c)
        PROVE  ShownInv'
    <2>1. /\ cnpj' = c /\ stored' = c /\ Rekey(loads, c, competence, TRUE)
          /\ UNCHANGED <<session, backendList, companies, competence, view>>
      BY <1>4 DEF SelectCompany
    <2>2. c \in Companies \cup {None}
      BY DEF ShownInv, WorkspaceFits, Listed
    <2>3. WorkspaceFits'
      BY <2>1 DEF ShownInv, WorkspaceFits, Listed, view
    <2> QED BY <1>1, <1>2, <1>3, <2>1, <2>2, <2>3, RekeyKeeps
  <1>5. ASSUME NEW m \in Competences, SelectCompetence(m)
        PROVE  ShownInv'
    <2>1. /\ competence' = m /\ Rekey(loads, cnpj, m, FALSE)
          /\ UNCHANGED <<session, backendList, companies, cnpj, stored, view>>
      BY <1>5 DEF SelectCompetence
    <2>2. WorkspaceFits'
      BY <2>1 DEF ShownInv, WorkspaceFits, Listed, view
    <2> QED BY <1>1, <1>2, <1>3, <2>1, <2>2, RekeyKeeps
  <1>6. ASSUME AddAndReload
        PROVE  ShownInv'
    <2>1. /\ ~mounted /\ backendList' = Companies
          /\ loads' = Begun(loads, NewLoad("companies", None, None, Companies))
          /\ UNCHANGED <<session, companies, cnpj, stored, competence, view, list, infoVars>>
      BY <1>6 DEF AddAndReload
    <2>2. Companies \in SUBSET Companies /\ FirstCompany \in Companies /\ backendList \subseteq Companies
      BY CompanyAssumption DEF ShownInv, WorkspaceFits, Listed
    <2>3. Follows(loads', loads, cnpj, competence, Companies)
      BY <1>1, <2>1, <2>2, CompaniesFollow
    <2>4. LoadsFit(loads, backendList)'
      BY <2>1, <2>3 DEF Follows, LoadsFit, OneLatest, LoadFits
    <2>5. WorkspaceFits' /\ RowsFit' /\ InfoFits' /\ HeaderFits' /\ SearchCurrent'
      BY <2>1, <2>2 DEF ShownInv, WorkspaceFits, Listed, RowsFit, InfoFits, HeaderFits,
                        SearchCurrent, view, list, infoVars
    <2>6. FlagsHonest'
      <3>1. Has(loads', "search") => Has(loads, "search")
        BY <2>1 DEF Has, Begun, NewLoad, ShownInv, LoadsFit, LoadFits, Load
      <3>2. Has(loads', "pending") => Has(loads, "pending")
        BY <2>1 DEF Has, Begun, NewLoad, ShownInv, LoadsFit, LoadFits, Load
      <3>3. Has(loads, "search")' = Has(loads', "search") /\ Has(loads, "pending")' = Has(loads', "pending")
        BY DEF Has
      <3> QED BY <2>1, <2>3, <3>1, <3>2, <3>3
              DEF Follows, ShownInv, FlagsHonest, view, list, infoVars
    <2> QED BY <2>4, <2>5, <2>6 DEF ShownInv
  <1>7. ASSUME Mount
        PROVE  ShownInv'
    <2>1. /\ mounted' = TRUE /\ Watch(loads, cnpj, competence, TRUE)
          /\ UNCHANGED <<session, workspace, listError>>
      BY <1>7 DEF Mount
    <2>2. WorkspaceFits'
      BY <2>1 DEF ShownInv, WorkspaceFits, Listed, workspace
    <2> QED BY <1>1, <1>2, <1>3, <2>1, <2>2, WatchKeeps DEF workspace
  <1>8. ASSUME Unmount
        PROVE  ShownInv'
    BY <1>8 DEF Unmount, ShownInv, WorkspaceFits, Listed, RowsFit, InfoFits, HeaderFits,
                SearchCurrent, FlagsHonest, workspace, list, infoVars
  <1> QED BY <1>4, <1>5, <1>6, <1>7, <1>8 DEF Navigates

LEMMA FilterKeeps ==
    ASSUME ShownInv, EditFilter
    PROVE  ShownInv'
    BY DEF EditFilter, ShownInv, WorkspaceFits, Listed, RowsFit, InfoFits, HeaderFits,
           SearchCurrent, FlagsHonest, workspace, list, infoVars

LEMMA SearchKeeps ==
    ASSUME ShownInv, Search
    PROVE  ShownInv'
  <1>1. /\ loads' = Searching(loads, cnpj, competence) /\ Flags(loads')
        /\ UNCHANGED <<session, workspace, view, rows, rowsFor, selected, pageStatus, pending>>
    BY DEF Search, infoVars
  <1>2. cnpj \in Companies /\ competence \in Competences
    BY DEF Search, AtPage, ShownInv, WorkspaceFits, Listed
  <1>3. Follows(loads, loads, cnpj, competence, backendList)
    BY FollowsItself DEF ShownInv
  <1>4. Follows(Searching(loads, cnpj, competence), loads, cnpj, competence, backendList)
    BY <1>2, <1>3, SearchingFollows
  <1>5. selected' \subseteq rows
    BY <1>1 DEF ShownInv, RowsFit
  <1> QED BY <1>1, <1>4, <1>5, BeginKeeps

LEMMA SelectKeeps ==
    ASSUME ShownInv, NEW sel \in SUBSET rows, Select(sel)
    PROVE  ShownInv'
    BY RowsLeave DEF Select, infoVars

\* The refresh at the end of a call, a ciência or a manifestação.
LEMMA RefreshKeeps ==
    ASSUME ShownInv, NEW c \in Companies, selected' \subseteq rows,
           \/ loads' = Refresh(loads, c)
           \/ loads' = OfReset(Refresh(loads, c))
           \/ \E k \in Notes : loads' = RefreshNote(loads, c, k),
           Flags(loads'), UNCHANGED <<session, workspace, view, rows, rowsFor, pageStatus, pending>>
    PROVE  ShownInv'
  <1>1. Listed /\ LoadsFit(loads, backendList)
    BY DEF ShownInv, WorkspaceFits
  <1>2. Follows(Refresh(loads, c), loads, cnpj, competence, backendList)
    BY <1>1, RefreshFollows
  <1>3. Follows(OfReset(Refresh(loads, c)), loads, cnpj, competence, backendList)
    BY <1>2, OfResetFollows
  <1>4. \A k \in Notes : Follows(RefreshNote(loads, c, k), loads, cnpj, competence, backendList)
    BY <1>1, RefreshNoteFollows
  <1>5. PICK ls : ls = loads' /\ Follows(ls, loads, cnpj, competence, backendList)
    BY <1>2, <1>3, <1>4
  <1> QED BY <1>5, BeginKeeps

LEMMA MarkEndsKeeps ==
    ASSUME ShownInv, NEW failed \in BOOLEAN, NEW onlyUnviewed \in BOOLEAN,
           MarkEnds(failed, onlyUnviewed)
    PROVE  ShownInv'
  <1>1. UNCHANGED <<session, workspace, view, loads, loading, pendingLoading, rowsFor,
                    pageStatus, pending>>
    BY DEF MarkEnds, infoVars
  <1>2. rows' \subseteq rows /\ selected' \subseteq rows'
    BY DEF MarkEnds, ShownInv, RowsFit
  <1> QED BY <1>1, <1>2, RowsLeave

LEMMA ReportResetKeeps ==
    ASSUME ShownInv, ReportReset
    PROVE  ShownInv'
    BY RowsLeave DEF ReportReset, infoVars

-----------------------------------------------------------------------------
(* What the markers say.                                                   *)

\* Who has a call in flight, and of which kinds.
Runs(c, kinds) == \E x \in calls : x.cnpj = c /\ x.kind \in kinds

Syncing == {"pull", "import", "fetch"}

CallsFit ==
    /\ calls \subseteq Call /\ unselect \in BOOLEAN
    /\ cancels \subseteq Companies /\ choosing \subseteq Companies
    /\ cancelling \subseteq cancellable /\ cancellable \subseteq Companies
    /\ resettingCNPJ \in Companies \cup {None}
    /\ activeSyncs \in [Companies -> {0, 1}]
    /\ \A x, y \in calls : x.cnpj = y.cnpj => x = y
    /\ \A c \in Companies : /\ activeSyncs[c] = 1 <=> Runs(c, Syncing)
                            /\ resettingCNPJ = c <=> Runs(c, {"reset"})
                            /\ c \in cancellable <=> Runs(c, {"pull"})

\* A dialog about some notes names one.
DialogFits(d) == d \in Dialog /\ (d.kind \in {"mark", "ciencia", "manifestacao"} => d.chaves # {})

DialogsFit ==
    /\ exporting \in BOOLEAN /\ markingViewed \in Mark \cup {NoMark}
    /\ \A d \in dialogs : DialogFits(d)
    /\ previewing \in Companies \cup {None}

InFlight(s) == IF s.tipo = "ciencia" THEN s.chaves = cienciaInFlight ELSE s.chaves \subseteq manifestacaoInFlight

Apart(s, t) == s.chaves \cap t.chaves = {} /\ ~(s.tipo = "ciencia" /\ t.tipo = "ciencia")

SendsFit ==
    /\ planningCiencia \in Mark \cup {NoMark}
    /\ cienciaInFlight \subseteq Notes /\ manifestacaoInFlight \subseteq Notes
    /\ cienciaInFlight \cap manifestacaoInFlight = {}
    /\ \A s \in sends : s \in Send /\ s.chaves # {} /\ InFlight(s)
    /\ \A s, t \in sends : s # t => Apart(s, t)

\* What only a page with a company and room for it begins.
Occupied ==
    calls # {} \/ dialogs # {} \/ choosing # {} \/ planningCiencia # NoMark \/ previewing # None

BusyFits ==
    /\ IsFiniteSet(calls) /\ IsFiniteSet(dialogs) /\ IsFiniteSet(choosing) /\ IsFiniteSet(sends)
    /\ Occupied => cnpj # None /\ session.busy >= 1

MarkersInv == CallsFit /\ DialogsFit /\ SendsFit /\ BusyFits

LEMMA CallsStay ==
    ASSUME CallsFit, UNCHANGED syncs
    PROVE  CallsFit'
    BY DEF CallsFit, syncs, Runs

LEMMA DialogsStay ==
    ASSUME DialogsFit, UNCHANGED actions
    PROVE  DialogsFit'
    BY DEF DialogsFit, actions

LEMMA SendsStay ==
    ASSUME SendsFit, UNCHANGED events
    PROVE  SendsFit'
    BY DEF SendsFit, events, InFlight

\* Whoever found room may begin something.
LEMMA RoomIsBusy ==
    ASSUME BusyFits, session \in Sessions, Room
    PROVE  session.busy >= 1
  <1>1. session.busy \in Nat
    BY SessionAssumption
  <1>2. /\ Cardinality(calls) \in Nat /\ Cardinality(sends) \in Nat
        /\ Cardinality(dialogs) \in Nat /\ Cardinality(choosing) \in Nat
    BY FS_CardinalityType DEF BusyFits
  <1>3. Cardinality({x \in {planningCiencia, markingViewed} : x # NoMark}) \in Nat
    <2>1. IsFiniteSet({planningCiencia}) /\ IsFiniteSet({markingViewed})
      BY FS_Singleton
    <2>2. IsFiniteSet({planningCiencia} \cup {markingViewed})
      BY <2>1, FS_Union
    <2>3. {x \in {planningCiencia, markingViewed} : x # NoMark}
             \subseteq {planningCiencia} \cup {markingViewed}
      OBVIOUS
    <2>4. IsFiniteSet({x \in {planningCiencia, markingViewed} : x # NoMark})
      BY <2>2, <2>3, FS_Subset
    <2> QED BY <2>4, FS_CardinalityType
  <1>4. (IF exporting THEN 1 ELSE 0) \in Nat /\ (IF previewing = None THEN 0 ELSE 1) \in Nat
    OBVIOUS
  <1>5. Cardinality(calls) + Cardinality(sends) + Cardinality(dialogs) + Cardinality(choosing)
         + Cardinality({x \in {planningCiencia, markingViewed} : x # NoMark})
         + (IF exporting THEN 1 ELSE 0) + (IF previewing = None THEN 0 ELSE 1) < session.busy
    BY DEF Room
  <1> QED BY <1>1, <1>2, <1>3, <1>4, <1>5

\* A set grows by one element at most.
Grows(S, T) == \E x : T \subseteq S \cup {x}

LEMMA GrowsLittle ==
    ASSUME NEW S, NEW T
    PROVE  /\ T \subseteq S => Grows(S, T)
           /\ \A x : T \subseteq S \cup {x} => Grows(S, T)
           /\ IsFiniteSet(S) /\ Grows(S, T) => IsFiniteSet(T)
  <1>1. T \subseteq S => T \subseteq S \cup {0}
    OBVIOUS
  <1>2. ASSUME NEW x, IsFiniteSet(S), T \subseteq S \cup {x}
        PROVE  IsFiniteSet(T)
    BY <1>2, FS_AddElement, FS_Subset
  <1> QED BY <1>1, <1>2 DEF Grows

BusyGrows == Grows(calls, calls') /\ Grows(dialogs, dialogs') /\ Grows(choosing, choosing') /\ Grows(sends, sends')

LEMMA BusyKeeps ==
    ASSUME BusyFits, session \in Sessions, BusyGrows, session' = session,
           cnpj # None => cnpj' # None,
           Occupied' => Occupied \/ (Room /\ cnpj # None)
    PROVE  BusyFits'
  <1>1. IsFiniteSet(calls') /\ IsFiniteSet(dialogs') /\ IsFiniteSet(choosing') /\ IsFiniteSet(sends')
    BY GrowsLittle DEF BusyFits, BusyGrows
  <1>2. Occupied' => cnpj # None /\ session.busy >= 1
    BY RoomIsBusy DEF BusyFits
  <1> QED BY <1>1, <1>2 DEF BusyFits

\* The workspace moves, and what is busy does not.
LEMMA QuietKeeps ==
    ASSUME MarkersInv, session \in Sessions, UNCHANGED <<session, syncs, actions, events>>,
           cnpj # None => cnpj' # None
    PROVE  MarkersInv'
  <1>1. BusyGrows /\ (Occupied' => Occupied)
    BY GrowsLittle DEF BusyGrows, Occupied, syncs, actions, events
  <1> QED BY <1>1, CallsStay, DialogsStay, SendsStay, BusyKeeps DEF MarkersInv

-----------------------------------------------------------------------------
(* Calls start, end and are cancelled.                                     *)

LEMMA NobodyRuns ==
    ASSUME CallsFit, NEW c \in Companies, ~IsSyncing(c), resettingCNPJ # c
    PROVE  activeSyncs[c] = 0 /\ \A x \in calls : x.cnpj # c
  <1>1. activeSyncs[c] = 0
    BY DEF CallsFit, IsSyncing
  <1>2. \A x \in calls : x.kind \in Syncing \/ x.kind = "reset"
    BY DEF CallsFit, Call, Syncing
  <1> QED BY <1>1, <1>2 DEF CallsFit, Runs

LEMMA StartSyncKeeps ==
    ASSUME CallsFit, NEW c \in Companies, NEW kind \in Syncing, ~SyncBusy(c), StartSync(kind, c),
           cancellable' = (IF kind = "pull" THEN cancellable \cup {c} ELSE cancellable),
           choosing' \subseteq choosing, UNCHANGED <<cancelling, resettingCNPJ, cancels, unselect>>
    PROVE  CallsFit' /\ Grows(calls, calls')
  <1>1. activeSyncs[c] = 0 /\ (\A x \in calls : x.cnpj # c) /\ resettingCNPJ # c
    BY NobodyRuns DEF SyncBusy
  <1>2. PICK x : x = [kind |-> kind, cnpj |-> c, asked |-> c]
    OBVIOUS
  <1>3. x \in Call /\ x.kind = kind /\ x.cnpj = c
    BY <1>2 DEF Call, Syncing
  <1>4. calls' = calls \cup {x} /\ activeSyncs' = [activeSyncs EXCEPT ![c] = @ + 1]
    BY <1>2 DEF StartSync
  <1>5. /\ activeSyncs' \in [Companies -> {0, 1}] /\ activeSyncs'[c] = 1
        /\ \A d \in Companies : d # c => activeSyncs'[d] = activeSyncs[d]
    BY <1>1, <1>4 DEF CallsFit
  <1>6. ASSUME NEW d \in Companies
        PROVE  /\ activeSyncs'[d] = 1 <=> Runs(d, Syncing)'
               /\ resettingCNPJ' = d <=> Runs(d, {"reset"})'
               /\ d \in cancellable' <=> Runs(d, {"pull"})'
    <2>1. kind # "reset"
      BY DEF Syncing
    <2>2. CASE d = c
      BY <1>1, <1>3, <1>4, <1>5, <2>1, <2>2 DEF Runs, CallsFit
    <2>3. CASE d # c
      BY <1>3, <1>4, <1>5, <2>3 DEF Runs, CallsFit
    <2> QED BY <2>2, <2>3
  <1>7. \A y, z \in calls' : y.cnpj = z.cnpj => y = z
    BY <1>1, <1>3, <1>4 DEF CallsFit
  <1>8. Grows(calls, calls')
    BY <1>4, GrowsLittle
  <1> QED BY <1>3, <1>4, <1>5, <1>6, <1>7, <1>8 DEF CallsFit

LEMMA StartResetKeeps ==
    ASSUME CallsFit, cnpj \in Companies, NEW asked \in Companies, MayReset(cnpj),
           resettingCNPJ' = cnpj,
           calls' = calls \cup {[kind |-> "reset", cnpj |-> cnpj, asked |-> asked]},
           UNCHANGED <<activeSyncs, cancellable, cancelling, cancels, choosing, unselect>>
    PROVE  CallsFit' /\ Grows(calls, calls')
  <1>1. PICK c \in Companies : c = cnpj
    OBVIOUS
  <1>2. resettingCNPJ = None /\ activeSyncs[c] = 0 /\ \A x \in calls : x.cnpj # c
    BY <1>1, NobodyRuns, CompanyAssumption DEF MayReset, None
  <1>3. PICK x : x = [kind |-> "reset", cnpj |-> c, asked |-> asked]
    OBVIOUS
  <1>4. x \in Call /\ x.kind = "reset" /\ x.cnpj = c
    BY <1>3 DEF Call
  <1>5. calls' = calls \cup {x} /\ resettingCNPJ' = c
    BY <1>1, <1>3
  <1>6. ASSUME NEW d \in Companies
        PROVE  /\ activeSyncs'[d] = 1 <=> Runs(d, Syncing)'
               /\ resettingCNPJ' = d <=> Runs(d, {"reset"})'
               /\ d \in cancellable' <=> Runs(d, {"pull"})'
    <2>1. CASE d = c
      BY <1>2, <1>4, <1>5, <2>1 DEF Runs, CallsFit, Syncing
    <2>2. CASE d # c
      BY <1>2, <1>4, <1>5, <2>2, CompanyAssumption DEF Runs, CallsFit, None
    <2> QED BY <2>1, <2>2
  <1>7. \A y, z \in calls' : y.cnpj = z.cnpj => y = z
    BY <1>2, <1>4, <1>5 DEF CallsFit
  <1>8. Grows(calls, calls')
    BY <1>5, GrowsLittle
  <1> QED BY <1>1, <1>4, <1>5, <1>6, <1>7, <1>8 DEF CallsFit

LEMMA FinishKeeps ==
    ASSUME CallsFit, NEW x \in calls, calls' = calls \ {x}, unselect' \in BOOLEAN,
           IF x.kind = "reset" THEN FinishReset ELSE FinishSync(x), UNCHANGED <<cancels, choosing>>
    PROVE  CallsFit'
  <1>1. PICK c \in Companies : c = x.cnpj
    BY DEF CallsFit, Call
  <1>2. \A y \in calls : y.cnpj = c <=> y = x
    BY <1>1 DEF CallsFit
  <1>3. \A d \in Companies : \A kinds : Runs(d, kinds)' <=> (d # c /\ Runs(d, kinds))
    BY <1>1, <1>2 DEF Runs
  <1>4. CASE x.kind = "reset"
    <2>1. resettingCNPJ' = None /\ UNCHANGED <<activeSyncs, cancellable, cancelling>>
      BY <1>4 DEF FinishReset
    <2>2. /\ resettingCNPJ = c /\ ~Runs(c, Syncing) /\ ~Runs(c, {"pull"})
      BY <1>1, <1>2, <1>4 DEF CallsFit, Runs, Syncing
    <2> QED BY <1>3, <2>1, <2>2, CompanyAssumption DEF CallsFit, None
  <1>5. CASE x.kind # "reset"
    <2>1. /\ activeSyncs' = [activeSyncs EXCEPT ![c] = @ - 1]
          /\ cancellable' = IF x.kind = "pull" THEN cancellable \ {c} ELSE cancellable
          /\ cancelling' = IF x.kind = "pull" THEN cancelling \ {c} ELSE cancelling
          /\ resettingCNPJ' = resettingCNPJ
      BY <1>1, <1>5 DEF FinishSync
    <2>2. x.kind \in Syncing
      BY <1>5 DEF CallsFit, Call, Syncing
    <2>3. /\ activeSyncs[c] = 1 /\ resettingCNPJ # c
          /\ c \in cancellable <=> x.kind = "pull"
      BY <1>1, <1>2, <1>5, <2>2 DEF CallsFit, Runs
    <2>4. /\ activeSyncs' \in [Companies -> {0, 1}] /\ activeSyncs'[c] = 0
          /\ \A d \in Companies : d # c => activeSyncs'[d] = activeSyncs[d]
      BY <2>1, <2>3 DEF CallsFit
    <2> QED BY <1>3, <2>1, <2>3, <2>4 DEF CallsFit
  <1> QED BY <1>4, <1>5

-----------------------------------------------------------------------------
(* Dialogs open and close; marks, exports and plans.                       *)

LEMMA OpenKeeps ==
    ASSUME DialogsFit, NEW d, DialogFits(d), Open(d), previewing' \in Companies \cup {None},
           UNCHANGED <<exporting, markingViewed>>
    PROVE  DialogsFit' /\ Grows(dialogs, dialogs')
  <1>1. Grows(dialogs, dialogs')
    BY GrowsLittle DEF Open
  <1> QED BY <1>1 DEF DialogsFit, Open

LEMMA DialogOfFits ==
    ASSUME cnpj \in Companies, NEW kind \in DialogKinds, NEW chaves \in SUBSET Notes,
           chaves # {} \/ kind \in {"fetch", "reset", "export"}
    PROVE  DialogFits(DialogOf(kind, chaves))
  <1>1. PICK d : d = DialogOf(kind, chaves)
    OBVIOUS
  <1>2. d \in Dialog /\ d.kind = kind /\ d.chaves = chaves
    BY <1>1 DEF DialogOf, Dialog
  <1> QED BY <1>1, <1>2 DEF DialogFits

LEMMA CloseKeeps ==
    ASSUME DialogsFit, NEW d \in dialogs, Close(d),
           exporting' \in BOOLEAN, markingViewed' \in Mark \cup {NoMark}, previewing' = previewing
    PROVE  DialogsFit' /\ Grows(dialogs, dialogs')
  <1>1. Grows(dialogs, dialogs')
    BY GrowsLittle DEF Close
  <1> QED BY <1>1 DEF DialogsFit, Close

\* A mark and a plan are of the company shown.
LEMMA MarkFits ==
    ASSUME NEW c \in Companies, NEW chaves \in SUBSET Notes, chaves # {}
    PROVE  [cnpj |-> c, chaves |-> chaves] \in Mark
    BY DEF Mark

-----------------------------------------------------------------------------
(* The events of the notas.                                                *)

LEMMA CienciaStarts ==
    ASSUME SendsFit, NEW c \in Companies, NEW chaves \in SUBSET Notes, chaves # {}, MayRegister(chaves),
           cienciaInFlight' = chaves,
           sends' = sends \cup {[tipo |-> "ciencia", cnpj |-> c, chaves |-> chaves]},
           UNCHANGED <<planningCiencia, manifestacaoInFlight>>
    PROVE  SendsFit' /\ Grows(sends, sends')
  <1>1. PICK n : n = [tipo |-> "ciencia", cnpj |-> c, chaves |-> chaves]
    OBVIOUS
  <1>2. n \in Send /\ n.tipo = "ciencia" /\ n.chaves = chaves
    BY <1>1 DEF Send
  <1>3. sends' = sends \cup {n}
    BY <1>1
  <1>4. cienciaInFlight = {} /\ chaves \cap manifestacaoInFlight = {}
    BY DEF MayRegister, IsChaveBusy
  <1>5. \A s \in sends : s.tipo # "ciencia" /\ s.chaves \subseteq manifestacaoInFlight
    BY <1>4 DEF SendsFit, InFlight
  <1>6. \A s \in sends' : s \in Send /\ s.chaves # {} /\ InFlight(s)'
    BY <1>2, <1>3, <1>5 DEF SendsFit, InFlight
  <1>7. \A s, t \in sends' : s # t => Apart(s, t)
    BY <1>2, <1>3, <1>4, <1>5 DEF SendsFit, Apart
  <1>8. Grows(sends, sends')
    BY <1>3, GrowsLittle
  <1> QED BY <1>4, <1>6, <1>7, <1>8 DEF SendsFit

LEMMA ManifestacaoStarts ==
    ASSUME SendsFit, NEW c \in Companies, NEW chaves \in SUBSET Notes, chaves # {},
           \A k \in chaves : ~IsChaveBusy(k),
           manifestacaoInFlight' = manifestacaoInFlight \cup chaves,
           sends' = sends \cup {[tipo |-> "conclusiva", cnpj |-> c, chaves |-> chaves]},
           UNCHANGED <<planningCiencia, cienciaInFlight>>
    PROVE  SendsFit' /\ Grows(sends, sends')
  <1>1. PICK n : n = [tipo |-> "conclusiva", cnpj |-> c, chaves |-> chaves]
    OBVIOUS
  <1>2. n \in Send /\ n.tipo = "conclusiva" /\ n.chaves = chaves
    BY <1>1 DEF Send
  <1>3. sends' = sends \cup {n}
    BY <1>1
  <1>4. chaves \cap cienciaInFlight = {} /\ chaves \cap manifestacaoInFlight = {}
    BY DEF IsChaveBusy
  <1>5. \A s \in sends : s.chaves \cap chaves = {}
    BY <1>4 DEF SendsFit, InFlight
  <1>6. \A s \in sends' : s \in Send /\ s.chaves # {} /\ InFlight(s)'
    BY <1>2, <1>3 DEF SendsFit, InFlight
  <1>7. \A s, t \in sends' : s # t => Apart(s, t)
    BY <1>2, <1>3, <1>5 DEF SendsFit, Apart
  <1>8. Grows(sends, sends')
    BY <1>3, GrowsLittle
  <1> QED BY <1>4, <1>6, <1>7, <1>8 DEF SendsFit

LEMMA SendsEnd ==
    ASSUME SendsFit, NEW s \in sends, NEW failed \in BOOLEAN,
           CienciaEnds(s, failed) \/ ManifestacaoEnds(s, failed)
    PROVE  SendsFit' /\ Grows(sends, sends')
  <1>1. sends' = sends \ {s} /\ planningCiencia' = planningCiencia
    BY DEF CienciaEnds, ManifestacaoEnds
  <1>2. \A t \in sends' : t \in sends /\ Apart(s, t)
    BY <1>1 DEF SendsFit
  <1>3. CASE CienciaEnds(s, failed)
    <2>1. s.tipo = "ciencia" /\ cienciaInFlight' = {} /\ manifestacaoInFlight' = manifestacaoInFlight
      BY <1>3 DEF CienciaEnds
    <2>2. \A t \in sends' : InFlight(t)'
      BY <1>2, <2>1 DEF SendsFit, InFlight, Apart
    <2> QED BY <1>1, <2>1, <2>2, GrowsLittle DEF SendsFit
  <1>4. CASE ManifestacaoEnds(s, failed)
    <2>1. /\ manifestacaoInFlight' = manifestacaoInFlight \ s.chaves
          /\ cienciaInFlight' = cienciaInFlight
      BY <1>4 DEF ManifestacaoEnds
    <2>2. \A t \in sends' : InFlight(t)'
      BY <1>2, <2>1 DEF SendsFit, InFlight, Apart
    <2> QED BY <1>1, <2>1, <2>2, GrowsLittle DEF SendsFit
  <1> QED BY <1>3, <1>4

-----------------------------------------------------------------------------
(* Every step keeps what the markers say.                                  *)

\* What a step of one group leaves alone.
LEMMA SyncsMove ==
    ASSUME MarkersInv, session \in Sessions, CallsFit', BusyGrows,
           UNCHANGED <<session, cnpj, actions, events>>,
           Occupied' => Occupied \/ (Room /\ cnpj # None)
    PROVE  MarkersInv'
    BY BusyKeeps, DialogsStay, SendsStay DEF MarkersInv

LEMMA DialogsMove ==
    ASSUME MarkersInv, session \in Sessions, DialogsFit', Grows(dialogs, dialogs'),
           UNCHANGED <<session, cnpj, syncs, events>>,
           Occupied' => Occupied \/ (Room /\ cnpj # None)
    PROVE  MarkersInv'
  <1>1. BusyGrows
    BY GrowsLittle DEF BusyGrows, syncs, events
  <1> QED BY <1>1, BusyKeeps, CallsStay, SendsStay DEF MarkersInv

\* A dialog is answered, by what the backend is asked.
LEMMA AnswerKeeps ==
    ASSUME MarkersInv, ShownInv, NEW d \in dialogs, Close(d),
           UNCHANGED <<session, cnpj, exporting, markingViewed, previewing>>,
           \/ UNCHANGED <<syncs, events>>
           \/ CallsFit' /\ Grows(calls, calls') /\ choosing' = choosing /\ UNCHANGED events
           \/ SendsFit' /\ Grows(sends, sends') /\ UNCHANGED syncs
    PROVE  MarkersInv'
  <1>1. DialogsFit' /\ Grows(dialogs, dialogs')
    <2>1. exporting' \in BOOLEAN /\ markingViewed' \in Mark \cup {NoMark}
      BY DEF MarkersInv, DialogsFit
    <2> QED BY <2>1, CloseKeeps DEF MarkersInv
  <1>2. CallsFit' /\ SendsFit'
    BY CallsStay, SendsStay DEF MarkersInv
  <1>3. BusyGrows
    BY <1>1, GrowsLittle DEF BusyGrows, syncs, events
  <1>4. Occupied /\ session \in Sessions
    BY DEF Occupied, ShownInv, WorkspaceFits, Listed
  <1> QED BY <1>1, <1>2, <1>3, <1>4, BusyKeeps DEF MarkersInv

\* The page has a company while something of it is open or in flight.
LEMMA CompanyShown ==
    ASSUME ShownInv, BusyFits, Occupied \/ AtPage
    PROVE  cnpj \in Companies /\ cnpj # None
    BY DEF ShownInv, WorkspaceFits, Listed, BusyFits, AtPage

LEMMA NavigatesMarkers ==
    ASSUME ShownInv, MarkersInv,
           \/ Navigates \/ EditFilter \/ Search \/ \E sel \in SUBSET rows : Select(sel)
           \/ \E l \in loads :
                \/ CompaniesArrive(l) \/ StatusArrives(l) \/ PendingArrives(l) \/ LoadFails(l)
                \/ \E found \in SUBSET Notes : SearchArrives(l, found)
                \/ \E matches \in BOOLEAN : NoteArrives(l, matches)
    PROVE  MarkersInv'
  <1>1. UNCHANGED <<session, syncs, actions, events>>
    BY DEF Navigates, EditFilter, Search, Select, CompaniesArrive, StatusArrives, PendingArrives,
           LoadFails, SearchArrives, NoteArrives, SelectCompany, SelectCompetence, AddAndReload,
           Mount, Unmount
  <1>2. session \in Sessions
    BY DEF ShownInv, WorkspaceFits, Listed
  <1>3. cnpj # None => cnpj' # None
    <2>1. ASSUME NEW l \in loads, CompaniesArrive(l)
          PROVE  cnpj' = cnpj \/ cnpj' # None
      <3>1. LoadFits(l, backendList) /\ l.kind = "companies" /\ backendList \subseteq Companies
        BY <2>1 DEF ShownInv, LoadsFit, CompaniesArrive, WorkspaceFits, Listed
      <3>2. CompanyIn(l.of) \in Companies
        BY <3>1, CompanyListed DEF LoadFits
      <3>3. cnpj' = cnpj \/ cnpj' = CompanyIn(l.of)
        BY <2>1 DEF CompaniesArrive
      <3> QED BY <3>2, <3>3, CompanyAssumption DEF None
    <2>2. ASSUME NEW c \in companies, SelectCompany(c)
          PROVE  cnpj' # None
      BY <2>2, CompanyAssumption DEF SelectCompany, None, ShownInv, WorkspaceFits, Listed
    <2>3. ASSUME \/ (\E m \in Competences : SelectCompetence(m)) \/ AddAndReload \/ Mount \/ Unmount
                 \/ EditFilter \/ Search \/ \E sel \in SUBSET rows : Select(sel)
                 \/ \E l \in loads :
                      \/ StatusArrives(l) \/ PendingArrives(l) \/ LoadFails(l)
                      \/ \E found \in SUBSET Notes : SearchArrives(l, found)
                      \/ \E matches \in BOOLEAN : NoteArrives(l, matches)
          PROVE  cnpj' = cnpj
      BY <2>3 DEF EditFilter, Search, Select, StatusArrives, PendingArrives, LoadFails,
                  SearchArrives, NoteArrives, SelectCompetence, AddAndReload, Mount, Unmount, workspace
    <2> QED BY <2>1, <2>2, <2>3 DEF Navigates
  <1> QED BY <1>1, <1>2, <1>3, QuietKeeps

LEMMA SyncsMarkers ==
    ASSUME ShownInv, MarkersInv,
           \/ SyncNFSe \/ SyncNFe \/ SyncCTe \/ CancelSync \/ ChooseFiles \/ ReportReset
           \/ \E c \in choosing, files \in BOOLEAN : ImportXML(c, files)
           \/ \E x \in calls, failed \in BOOLEAN : CallEnds(x, failed)
           \/ \E c \in cancels, failed \in BOOLEAN : CancelReplies(c, failed)
    PROVE  MarkersInv'
  <1>1. session \in Sessions /\ UNCHANGED <<session, cnpj, actions, events>>
    BY DEF ShownInv, WorkspaceFits, Listed, SyncNFSe, SyncNFe, SyncCTe, StartPull, CancelSync,
           ChooseFiles, ReportReset, ImportXML, CallEnds, CancelReplies, workspace
  <1>2. UNCHANGED <<dialogs, sends, planningCiencia, previewing>> /\ CallsFit /\ BusyFits
    BY <1>1 DEF actions, events, MarkersInv
  <1>3. ASSUME SyncNFSe \/ SyncNFe \/ SyncCTe
        PROVE  MarkersInv'
    <2>1. AtPage /\ Room /\ StartPull(cnpj)
      BY <1>3 DEF SyncNFSe, SyncNFe, SyncCTe
    <2>2. PICK c \in Companies : c = cnpj
      BY <1>2, <2>1, CompanyShown
    <2>3. /\ ~SyncBusy(c) /\ StartSync("pull", c) /\ "pull" \in Syncing
          /\ cancellable' = IF "pull" = "pull" THEN cancellable \cup {c} ELSE cancellable
          /\ UNCHANGED <<cancelling, resettingCNPJ, cancels, choosing, unselect>>
      BY <2>1, <2>2 DEF StartPull, Syncing
    <2>4. CallsFit' /\ Grows(calls, calls')
      <3>1. choosing' \subseteq choosing
        BY <2>3
      <3> QED BY <1>2, <2>3, <3>1, StartSyncKeeps
    <2>5. BusyGrows
      BY <1>2, <2>3, <2>4, GrowsLittle DEF BusyGrows
    <2> QED BY <1>1, <2>1, <2>4, <2>5, SyncsMove DEF AtPage
  <1>4. ASSUME NEW c \in choosing, NEW files \in BOOLEAN, ImportXML(c, files)
        PROVE  MarkersInv'
    <2>1. /\ choosing' = choosing \ {c} /\ c \in Companies
          /\ UNCHANGED <<cancellable, cancelling, resettingCNPJ, cancels, unselect>>
      BY <1>2, <1>4 DEF ImportXML, CallsFit
    <2>2. CallsFit' /\ Grows(calls, calls')
      <3>1. CASE files /\ ~SyncBusy(c)
        <4>1. StartSync("import", c) /\ "import" \in Syncing /\ choosing' \subseteq choosing
          BY <1>4, <2>1, <3>1 DEF ImportXML, Syncing
        <4>2. cancellable' = IF "import" = "pull" THEN cancellable \cup {c} ELSE cancellable
          BY <2>1
        <4> QED BY <1>2, <2>1, <3>1, <4>1, <4>2, StartSyncKeeps
      <3>2. CASE ~(files /\ ~SyncBusy(c))
        BY <1>2, <1>4, <2>1, <3>2, GrowsLittle DEF ImportXML, CallsFit, Runs
      <3> QED BY <3>1, <3>2
    <2>3. BusyGrows /\ Occupied
      BY <1>2, <2>1, <2>2, GrowsLittle DEF BusyGrows, Occupied
    <2> QED BY <1>1, <2>2, <2>3, SyncsMove
  <1>5. ASSUME NEW x \in calls, NEW failed \in BOOLEAN, CallEnds(x, failed)
        PROVE  MarkersInv'
    <2>1. /\ calls' = calls \ {x} /\ unselect' \in BOOLEAN /\ UNCHANGED <<cancels, choosing>>
          /\ IF x.kind = "reset" THEN FinishReset ELSE FinishSync(x)
      BY <1>2, <1>5 DEF CallEnds, CallsFit
    <2>2. CallsFit'
      BY <1>2, <2>1, FinishKeeps
    <2>3. BusyGrows /\ Occupied
      BY <1>2, <2>1, GrowsLittle DEF BusyGrows, Occupied
    <2> QED BY <1>1, <2>2, <2>3, SyncsMove
  <1>6. ASSUME \/ CancelSync \/ ReportReset
               \/ \E c \in cancels, failed \in BOOLEAN : CancelReplies(c, failed)
        PROVE  MarkersInv'
    <2>1. /\ UNCHANGED <<activeSyncs, cancellable, resettingCNPJ, choosing, calls>>
          /\ cancelling' \subseteq cancellable /\ cancels' \subseteq Companies /\ unselect' \in BOOLEAN
      BY <1>2, <1>6 DEF CancelSync, ReportReset, CancelReplies, CallsFit
    <2>2. CallsFit'
      BY <1>2, <2>1 DEF CallsFit, Runs
    <2>3. BusyGrows /\ (Occupied' => Occupied)
      BY <1>2, <2>1, GrowsLittle DEF BusyGrows, Occupied
    <2> QED BY <1>1, <2>2, <2>3, SyncsMove
  <1>7. ASSUME ChooseFiles
        PROVE  MarkersInv'
    <2>1. /\ UNCHANGED <<activeSyncs, cancellable, cancelling, resettingCNPJ, cancels, calls, unselect>>
          /\ choosing' = choosing \cup {cnpj} /\ AtPage /\ Room
      BY <1>7 DEF ChooseFiles
    <2>2. CallsFit'
      BY <1>2, <2>1, CompanyShown DEF CallsFit, Runs
    <2>3. BusyGrows
      BY <1>2, <2>1, GrowsLittle DEF BusyGrows
    <2> QED BY <1>1, <2>1, <2>2, <2>3, SyncsMove DEF AtPage
  <1> QED BY <1>3, <1>4, <1>5, <1>6, <1>7

LEMMA DialogsMarkers ==
    ASSUME ShownInv, MarkersInv,
           \/ OpenFetch \/ ConfirmReset \/ PreviewReset \/ OpenExport \/ ExportXML \/ ExportEnds
           \/ \E failed \in BOOLEAN : PreviewArrives(failed)
           \/ \E chaves \in SUBSET Notes : ConfirmMarkViewed(chaves)
           \/ \E failed, onlyUnviewed \in BOOLEAN : MarkEnds(failed, onlyUnviewed)
           \/ \E k \in Notes : OpenManifestacao(k)
    PROVE  MarkersInv'
  <1>1. session \in Sessions /\ UNCHANGED <<session, cnpj, syncs, events>>
    BY DEF ShownInv, WorkspaceFits, Listed, OpenFetch, ConfirmReset, PreviewReset, OpenExport,
           ExportXML, ExportEnds, PreviewArrives, ConfirmMarkViewed, MarkEnds, OpenManifestacao, workspace
  <1>2. DialogsFit /\ BusyFits
    BY DEF MarkersInv
  <1>3. previewing \in Companies \cup {None} /\ exporting \in BOOLEAN /\ markingViewed \in Mark \cup {NoMark}
    BY <1>2 DEF DialogsFit
  <1>4. ASSUME OpenFetch \/ ConfirmReset \/ OpenExport \/ \E k \in Notes : OpenManifestacao(k)
        PROVE  MarkersInv'
    <2>1. AtPage /\ Room /\ UNCHANGED <<exporting, markingViewed, previewing>>
      BY <1>4 DEF OpenFetch, ConfirmReset, OpenExport, OpenManifestacao
    <2>2. cnpj \in Companies /\ cnpj # None
      BY <1>2, <2>1, CompanyShown
    <2>3. ScopeChaves \in SUBSET Notes
      BY DEF ScopeChaves, ShownInv, RowsFit, Row
    <2>4. \A kind \in DialogKinds, chaves \in SUBSET Notes :
             chaves # {} \/ kind \in {"fetch", "reset", "export"} => DialogFits(DialogOf(kind, chaves))
      BY <2>2, DialogOfFits
    <2>5. /\ {"fetch", "reset", "export", "manifestacao"} \subseteq DialogKinds
          /\ {} \in SUBSET Notes /\ \A k \in Notes : {k} \in SUBSET Notes /\ {k} # {}
      BY DEF DialogKinds
    <2>6. PICK d : DialogFits(d) /\ Open(d)
      <3>1. CASE OpenFetch
        BY <2>4, <2>5, <3>1 DEF OpenFetch
      <3>2. CASE ConfirmReset
        BY <2>4, <2>5, <3>2 DEF ConfirmReset
      <3>3. CASE OpenExport
        BY <2>3, <2>4, <2>5, <3>3 DEF OpenExport
      <3>4. ASSUME NEW k \in Notes, OpenManifestacao(k)
            PROVE  DialogFits(DialogOf("manifestacao", {k})) /\ Open(DialogOf("manifestacao", {k}))
        BY <2>4, <2>5, <3>4 DEF OpenManifestacao
      <3> QED BY <1>4, <3>1, <3>2, <3>3, <3>4
    <2>7. DialogsFit' /\ Grows(dialogs, dialogs')
      BY <1>2, <1>3, <2>1, <2>6, OpenKeeps
    <2> QED BY <1>1, <2>1, <2>2, <2>7, DialogsMove
  <1>5. ASSUME PreviewReset
        PROVE  MarkersInv'
    <2>1. AtPage /\ Room /\ previewing' = cnpj /\ UNCHANGED <<exporting, markingViewed, dialogs>>
      BY <1>5 DEF PreviewReset
    <2>2. DialogsFit' /\ Grows(dialogs, dialogs') /\ cnpj # None
      BY <1>2, <2>1, CompanyShown, GrowsLittle DEF DialogsFit
    <2> QED BY <1>1, <2>1, <2>2, DialogsMove
  <1>6. ASSUME NEW failed \in BOOLEAN, PreviewArrives(failed)
        PROVE  MarkersInv'
    <2>1. Occupied /\ previewing \in Companies /\ previewing' = None /\ UNCHANGED <<exporting, markingViewed>>
      BY <1>3, <1>6 DEF PreviewArrives, Occupied
    <2>2. DialogsFit' /\ Grows(dialogs, dialogs')
      <3>1. CASE failed
        BY <1>2, <1>6, <2>1, <3>1, GrowsLittle DEF PreviewArrives, DialogsFit
      <3>2. CASE ~failed
        <4>1. PICK d : d = [kind |-> "reset", asked |-> previewing, chaves |-> {}]
          OBVIOUS
        <4>2. DialogFits(d)
          BY <2>1, <4>1 DEF DialogFits, Dialog, DialogKinds
        <4>3. Open(d)
          BY <1>6, <3>2, <4>1 DEF PreviewArrives
        <4> QED BY <1>2, <2>1, <4>2, <4>3, OpenKeeps
      <3> QED BY <3>1, <3>2
    <2> QED BY <1>1, <2>1, <2>2, DialogsMove
  <1>7. ASSUME NEW chaves \in SUBSET Notes, ConfirmMarkViewed(chaves)
        PROVE  MarkersInv'
    <2>1. AtPage /\ Room /\ chaves # {} /\ UNCHANGED <<exporting, previewing>>
      BY <1>7 DEF ConfirmMarkViewed
    <2>2. cnpj \in Companies /\ cnpj # None
      BY <1>2, <2>1, CompanyShown
    <2>3. DialogsFit' /\ Grows(dialogs, dialogs')
      <3>1. CASE selected # {}
        <4>1. MarkViewed(chaves) /\ UNCHANGED dialogs
          BY <1>7, <3>1 DEF ConfirmMarkViewed
        <4>2. [cnpj |-> cnpj, chaves |-> chaves] \in Mark
          BY <2>1, <2>2, MarkFits
        <4> QED BY <1>2, <2>1, <4>1, <4>2, GrowsLittle DEF DialogsFit, MarkViewed
      <3>2. CASE selected = {}
        <4>1. Open(DialogOf("mark", chaves)) /\ UNCHANGED markingViewed
          BY <1>7, <3>2 DEF ConfirmMarkViewed
        <4>2. "mark" \in DialogKinds
          BY DEF DialogKinds
        <4>3. DialogFits(DialogOf("mark", chaves))
          BY <2>1, <2>2, <4>2, DialogOfFits
        <4> QED BY <1>2, <1>3, <2>1, <4>1, <4>3, OpenKeeps
      <3> QED BY <3>1, <3>2
    <2> QED BY <1>1, <2>1, <2>2, <2>3, DialogsMove
  <1>8. ASSUME \/ ExportXML \/ ExportEnds
               \/ \E failed, onlyUnviewed \in BOOLEAN : MarkEnds(failed, onlyUnviewed)
        PROVE  MarkersInv'
    <2>1. /\ UNCHANGED <<dialogs, previewing>>
          /\ exporting' \in BOOLEAN /\ markingViewed' \in Mark \cup {NoMark}
      BY <1>3, <1>8 DEF ExportXML, ExportEnds, MarkEnds
    <2>2. DialogsFit' /\ Grows(dialogs, dialogs')
      BY <1>2, <2>1, GrowsLittle DEF DialogsFit
    <2>3. Occupied' => Occupied
      BY <1>1, <2>1 DEF Occupied, syncs, events
    <2> QED BY <1>1, <2>2, <2>3, DialogsMove
  <1> QED BY <1>4, <1>5, <1>6, <1>7, <1>8

LEMMA SendsMarkers ==
    ASSUME ShownInv, MarkersInv,
           \/ \E chaves \in SUBSET Notes : AskPlanCiencia(chaves)
           \/ \E eligible \in SUBSET Notes : PlanArrives(eligible)
           \/ \E s \in sends, failed \in BOOLEAN : CienciaEnds(s, failed) \/ ManifestacaoEnds(s, failed)
    PROVE  MarkersInv'
  <1>1. session \in Sessions /\ UNCHANGED <<session, cnpj, syncs>> /\ CallsFit'
    BY CallsStay DEF ShownInv, WorkspaceFits, Listed, AskPlanCiencia, PlanArrives, CienciaEnds,
           ManifestacaoEnds, workspace, MarkersInv
  <1>2. DialogsFit /\ SendsFit /\ BusyFits
    BY DEF MarkersInv
  <1>3. ASSUME NEW chaves \in SUBSET Notes, AskPlanCiencia(chaves)
        PROVE  MarkersInv'
    <2>1. /\ AtPage /\ Room /\ chaves # {}
          /\ planningCiencia' = [cnpj |-> cnpj, chaves |-> chaves]
          /\ UNCHANGED <<actions, cienciaInFlight, manifestacaoInFlight, sends>>
      BY <1>3 DEF AskPlanCiencia
    <2>2. cnpj \in Companies /\ cnpj # None
      BY <1>2, <2>1, CompanyShown
    <2>3. planningCiencia' \in Mark
      BY <2>1, <2>2, MarkFits
    <2>4. DialogsFit' /\ SendsFit'
      BY <1>2, <2>1, <2>3, DialogsStay DEF SendsFit, InFlight
    <2>5. BusyGrows
      BY <1>1, <2>1, GrowsLittle DEF BusyGrows, syncs, actions
    <2> QED BY <1>1, <1>2, <2>1, <2>2, <2>4, <2>5, BusyKeeps DEF MarkersInv
  <1>4. ASSUME NEW eligible \in SUBSET Notes, PlanArrives(eligible)
        PROVE  MarkersInv'
    <2>1. /\ planningCiencia \in Mark /\ planningCiencia' = NoMark
          /\ UNCHANGED <<exporting, markingViewed, previewing, cienciaInFlight, manifestacaoInFlight, sends>>
      BY <1>2, <1>4 DEF PlanArrives, SendsFit
    <2>2. Occupied
      BY <1>4 DEF PlanArrives, Occupied
    <2>3. SendsFit'
      BY <1>2, <2>1 DEF SendsFit, InFlight
    <2>4. DialogsFit' /\ Grows(dialogs, dialogs')
      <3>1. CASE eligible = {}
        BY <1>2, <1>4, <2>1, <3>1, GrowsLittle DEF PlanArrives, DialogsFit
      <3>2. CASE eligible # {}
        <4>1. PICK d : d = [kind |-> "ciencia", asked |-> planningCiencia.cnpj, chaves |-> eligible]
          OBVIOUS
        <4>2. planningCiencia.cnpj \in Companies
          BY <2>1 DEF Mark
        <4>3. DialogFits(d)
          BY <3>2, <4>1, <4>2 DEF DialogFits, Dialog, DialogKinds
        <4>4. Open(d)
          BY <1>4, <3>2, <4>1 DEF PlanArrives
        <4>5. previewing' \in Companies \cup {None}
          BY <1>2, <2>1 DEF DialogsFit
        <4> QED BY <1>2, <2>1, <4>3, <4>4, <4>5, OpenKeeps
      <3> QED BY <3>1, <3>2
    <2>5. BusyGrows
      BY <1>1, <2>1, <2>4, GrowsLittle DEF BusyGrows, syncs
    <2> QED BY <1>1, <1>2, <2>2, <2>3, <2>4, <2>5, BusyKeeps DEF MarkersInv
  <1>5. ASSUME NEW s \in sends, NEW failed \in BOOLEAN,
               CienciaEnds(s, failed) \/ ManifestacaoEnds(s, failed)
        PROVE  MarkersInv'
    <2>1. SendsFit' /\ Grows(sends, sends')
      BY <1>2, <1>5, SendsEnd
    <2>2. UNCHANGED <<actions, planningCiencia>>
      BY <1>5 DEF CienciaEnds, ManifestacaoEnds
    <2>3. DialogsFit'
      BY <1>2, <2>2, DialogsStay
    <2>4. BusyGrows /\ (Occupied' => Occupied)
      BY <1>1, <2>1, <2>2, GrowsLittle DEF BusyGrows, Occupied, syncs, actions
    <2> QED BY <1>1, <1>2, <2>1, <2>3, <2>4, BusyKeeps DEF MarkersInv
  <1> QED BY <1>3, <1>4, <1>5

LEMMA AnswersMarkers ==
    ASSUME ShownInv, MarkersInv, NEW d \in dialogs,
           \/ FetchByChave(d) \/ ResetFromNFSe(d) \/ ResetFromNFe(d) \/ ResetFromCTe(d)
           \/ MarkConfirmed(d) \/ Export(d) \/ RegisterCiencia(d) \/ RegisterManifestacao(d)
           \/ Dismiss(d)
    PROVE  MarkersInv'
  <1>1. Close(d) /\ session \in Sessions /\ UNCHANGED <<session, cnpj>>
    BY DEF ShownInv, WorkspaceFits, Listed, FetchByChave, ResetFromNFSe, ResetFromNFe, ResetFromCTe,
           StartReset, MarkConfirmed, Export, RegisterCiencia, RegisterManifestacao, Dismiss, workspace
  <1>2. CallsFit /\ DialogsFit /\ SendsFit /\ BusyFits /\ Occupied
    BY DEF MarkersInv, Occupied
  <1>3. PICK c \in Companies : c = cnpj /\ c # None
    BY <1>2, CompanyShown
  <1>4. DialogFits(d) /\ d.asked \in Companies /\ d.chaves \in SUBSET Notes
    BY <1>2 DEF DialogsFit, DialogFits, Dialog
  <1>5. ASSUME FetchByChave(d)
        PROVE  MarkersInv'
    <2>1. UNCHANGED <<cancellable, cancelling, resettingCNPJ, cancels, choosing, unselect,
                      exporting, markingViewed, previewing, events>>
      BY <1>5 DEF FetchByChave
    <2>2. CallsFit' /\ Grows(calls, calls')
      <3>1. CASE SyncBusy(c)
        BY <1>2, <1>3, <1>5, <2>1, <3>1, GrowsLittle DEF FetchByChave, CallsFit, Runs
      <3>2. CASE ~SyncBusy(c)
        <4>1. StartSync("fetch", c) /\ "fetch" \in Syncing /\ choosing' \subseteq choosing
          BY <1>3, <1>5, <2>1, <3>2 DEF FetchByChave, Syncing
        <4>2. cancellable' = IF "fetch" = "pull" THEN cancellable \cup {c} ELSE cancellable
          BY <2>1
        <4> QED BY <1>2, <2>1, <3>2, <4>1, <4>2, StartSyncKeeps
      <3> QED BY <3>1, <3>2
    <2> QED BY <1>1, <2>1, <2>2, AnswerKeeps
  <1>6. ASSUME ResetFromNFSe(d) \/ ResetFromNFe(d) \/ ResetFromCTe(d)
        PROVE  MarkersInv'
    <2>1. /\ StartReset(d)
          /\ UNCHANGED <<activeSyncs, cancellable, cancelling, cancels, choosing, unselect,
                         exporting, markingViewed, previewing, events>>
      BY <1>6 DEF ResetFromNFSe, ResetFromNFe, ResetFromCTe, StartReset
    <2>2. CallsFit' /\ Grows(calls, calls')
      <3>1. CASE MayReset(cnpj)
        <4>1. /\ resettingCNPJ' = cnpj
              /\ calls' = calls \cup {[kind |-> "reset", cnpj |-> cnpj, asked |-> d.asked]}
          BY <2>1, <3>1 DEF StartReset
        <4> QED BY <1>2, <1>3, <1>4, <2>1, <3>1, <4>1, StartResetKeeps
      <3>2. CASE ~MayReset(cnpj)
        BY <1>2, <2>1, <3>2, GrowsLittle DEF StartReset, CallsFit, Runs
      <3> QED BY <3>1, <3>2
    <2> QED BY <1>1, <2>1, <2>2, AnswerKeeps
  <1>7. ASSUME MarkConfirmed(d) \/ Export(d)
        PROVE  MarkersInv'
    <2>1. UNCHANGED <<syncs, previewing, events>>
      BY <1>7 DEF MarkConfirmed, Export
    <2>2. exporting' \in BOOLEAN /\ markingViewed' \in Mark \cup {NoMark}
      <3>1. MarkConfirmed(d) => [cnpj |-> cnpj, chaves |-> d.chaves] \in Mark
        BY <1>3, <1>4, MarkFits DEF MarkConfirmed, DialogFits
      <3> QED BY <1>2, <1>7, <3>1 DEF MarkConfirmed, MarkViewed, Export, DialogsFit
    <2>3. DialogsFit' /\ Grows(dialogs, dialogs')
      BY <1>1, <1>2, <2>1, <2>2, CloseKeeps
    <2> QED BY <1>1, <1>2, <2>1, <2>3, DialogsMove
  <1>8. ASSUME RegisterCiencia(d)
        PROVE  MarkersInv'
    <2>1. /\ d.kind = "ciencia"
          /\ IF MayRegister(d.chaves)
             THEN /\ cienciaInFlight' = d.chaves
                  /\ sends' = sends \cup {[tipo |-> "ciencia", cnpj |-> c, chaves |-> d.chaves]}
             ELSE UNCHANGED <<cienciaInFlight, sends>>
          /\ UNCHANGED <<syncs, exporting, markingViewed, previewing, planningCiencia, manifestacaoInFlight>>
      BY <1>3, <1>8 DEF RegisterCiencia
    <2>2. SendsFit' /\ Grows(sends, sends')
      <3>1. CASE MayRegister(d.chaves)
        <4>1. d.chaves # {}
          BY <1>4, <2>1 DEF DialogFits
        <4> QED BY <1>2, <1>4, <2>1, <3>1, <4>1, CienciaStarts
      <3>2. CASE ~MayRegister(d.chaves)
        BY <1>2, <2>1, <3>2, GrowsLittle DEF SendsFit, InFlight
      <3> QED BY <3>1, <3>2
    <2> QED BY <1>1, <2>1, <2>2, AnswerKeeps
  <1>9. ASSUME RegisterManifestacao(d)
        PROVE  MarkersInv'
    <2>1. /\ d.kind = "manifestacao"
          /\ IF \A k \in d.chaves : ~IsChaveBusy(k)
             THEN /\ manifestacaoInFlight' = manifestacaoInFlight \cup d.chaves
                  /\ sends' = sends \cup {[tipo |-> "conclusiva", cnpj |-> c, chaves |-> d.chaves]}
             ELSE UNCHANGED <<manifestacaoInFlight, sends>>
          /\ UNCHANGED <<syncs, exporting, markingViewed, previewing, planningCiencia, cienciaInFlight>>
      BY <1>3, <1>9 DEF RegisterManifestacao
    <2>2. SendsFit' /\ Grows(sends, sends')
      <3>1. CASE \A k \in d.chaves : ~IsChaveBusy(k)
        <4>1. d.chaves # {}
          BY <1>4, <2>1 DEF DialogFits
        <4> QED BY <1>2, <1>4, <2>1, <3>1, <4>1, ManifestacaoStarts
      <3>2. CASE ~(\A k \in d.chaves : ~IsChaveBusy(k))
        BY <1>2, <2>1, <3>2, GrowsLittle DEF SendsFit, InFlight
      <3> QED BY <3>1, <3>2
    <2> QED BY <1>1, <2>1, <2>2, AnswerKeeps
  <1>10. ASSUME Dismiss(d)
         PROVE  MarkersInv'
    BY <1>1, <1>10, AnswerKeeps DEF Dismiss
  <1> QED BY <1>5, <1>6, <1>7, <1>8, <1>9, <1>10

LEMMA MarkersKept ==
    ASSUME ShownInv, MarkersInv, PageNext
    PROVE  MarkersInv'
  <1>1. Replies => MarkersInv'
    BY NavigatesMarkers, SyncsMarkers, DialogsMarkers, SendsMarkers DEF Replies
  <1>2. Navigates => MarkersInv'
    BY NavigatesMarkers
  <1>3. Asks => MarkersInv'
    BY NavigatesMarkers, SyncsMarkers, DialogsMarkers, SendsMarkers DEF Asks
  <1>4. Answers => MarkersInv'
    BY SyncsMarkers, AnswersMarkers DEF Answers
  <1> QED BY <1>1, <1>2, <1>3, <1>4 DEF PageNext

-----------------------------------------------------------------------------
(* Every step keeps what the page shows.                                   *)

LEMMA CallEndsShown ==
    ASSUME ShownInv, CallsFit, NEW x \in calls, NEW failed \in BOOLEAN, CallEnds(x, failed)
    PROVE  ShownInv'
  <1>1. x.cnpj \in Companies
    BY DEF CallsFit, Call
  <1>2. /\ UNCHANGED <<session, workspace, view, rows, rowsFor, pageStatus, pending>>
        /\ Flags(loads') /\ selected' = selected
    BY DEF CallEnds
  <1>3. loads' = Refresh(loads, x.cnpj) \/ loads' = OfReset(Refresh(loads, x.cnpj))
    BY DEF CallEnds
  <1>4. selected' \subseteq rows
    BY <1>2 DEF ShownInv, RowsFit
  <1> QED BY <1>1, <1>2, <1>3, <1>4, RefreshKeeps

LEMMA CienciaEndsShown ==
    ASSUME ShownInv, SendsFit, NEW s \in sends, NEW failed \in BOOLEAN, CienciaEnds(s, failed)
    PROVE  ShownInv'
  <1>1. UNCHANGED <<session, workspace, view>>
    BY DEF CienciaEnds
  <1>2. CASE failed
    BY <1>1, <1>2, ShownStays DEF CienciaEnds, shownVars
  <1>3. CASE ~failed
    <2>1. /\ loads' = Refresh(loads, s.cnpj) /\ Flags(loads') /\ selected' = {}
          /\ UNCHANGED <<rows, rowsFor, pageStatus, pending>>
      BY <1>3 DEF CienciaEnds
    <2>2. s.cnpj \in Companies /\ selected' \subseteq rows
      BY <2>1 DEF SendsFit, Send
    <2> QED BY <1>1, <2>1, <2>2, RefreshKeeps
  <1> QED BY <1>2, <1>3

LEMMA ManifestacaoEndsShown ==
    ASSUME ShownInv, SendsFit, NEW s \in sends, NEW failed \in BOOLEAN, ManifestacaoEnds(s, failed)
    PROVE  ShownInv'
  <1>1. UNCHANGED <<session, workspace, view>>
    BY DEF ManifestacaoEnds
  <1>2. CASE failed
    BY <1>1, <1>2, ShownStays DEF ManifestacaoEnds, shownVars
  <1>3. CASE ~failed
    <2> DEFINE k == CHOOSE k \in s.chaves : TRUE
    <2>1. /\ loads' = RefreshNote(loads, s.cnpj, k) /\ Flags(loads')
          /\ UNCHANGED <<rows, rowsFor, selected, pageStatus, pending>>
      BY <1>3 DEF ManifestacaoEnds
    <2>2. s \in Send /\ s.chaves # {}
      BY DEF SendsFit
    <2>3. k \in s.chaves
      BY <2>2
    <2> HIDE DEF k
    <2>4. s.cnpj \in Companies /\ k \in Notes
      BY <2>2, <2>3 DEF Send
    <2>5. selected' \subseteq rows
      BY <2>1 DEF ShownInv, RowsFit
    <2> QED BY <1>1, <2>1, <2>4, <2>5, RefreshKeeps
  <1> QED BY <1>2, <1>3

LEMMA ShownKept ==
    ASSUME ShownInv, MarkersInv, PageNext
    PROVE  ShownInv'
  <1>1. ASSUME Replies
        PROVE  ShownInv'
    <2>1. ASSUME NEW l \in loads,
                 \/ CompaniesArrive(l) \/ StatusArrives(l) \/ PendingArrives(l) \/ LoadFails(l)
                 \/ \E found \in SUBSET Notes : SearchArrives(l, found)
                 \/ \E matches \in BOOLEAN : NoteArrives(l, matches)
          PROVE  ShownInv'
      BY <2>1, CompaniesArriveKeeps, InfoArrivesKeeps, FailsKeeps, SearchArrivesKeeps, NoteArrivesKeeps
    <2>2. ASSUME NEW x \in calls, NEW failed \in BOOLEAN, CallEnds(x, failed)
          PROVE  ShownInv'
      BY <2>2, CallEndsShown DEF MarkersInv
    <2>3. ASSUME \/ \E c \in cancels, failed \in BOOLEAN : CancelReplies(c, failed)
                 \/ \E failed \in BOOLEAN : PreviewArrives(failed)
                 \/ \E eligible \in SUBSET Notes : PlanArrives(eligible)
                 \/ ExportEnds
          PROVE  ShownInv'
      <3>1. UNCHANGED shownVars
        BY <2>3 DEF CancelReplies, PreviewArrives, PlanArrives, ExportEnds, shownVars
      <3> QED BY <3>1, ShownStays
    <2>4. ASSUME NEW failed \in BOOLEAN, NEW onlyUnviewed \in BOOLEAN, MarkEnds(failed, onlyUnviewed)
          PROVE  ShownInv'
      BY <2>4, MarkEndsKeeps
    <2>5. ASSUME NEW s \in sends, NEW failed \in BOOLEAN,
                 CienciaEnds(s, failed) \/ ManifestacaoEnds(s, failed)
          PROVE  ShownInv'
      BY <2>5, CienciaEndsShown, ManifestacaoEndsShown DEF MarkersInv
    <2> QED BY <1>1, <2>1, <2>2, <2>3, <2>4, <2>5, ReportResetKeeps DEF Replies
  <1>2. ASSUME Asks
        PROVE  ShownInv'
    <2>1. ASSUME \/ OpenExport \/ ExportXML \/ \E chaves \in SUBSET Notes : ConfirmMarkViewed(chaves)
                 \/ SyncNFSe \/ SyncNFe \/ SyncCTe \/ CancelSync
                 \/ ChooseFiles \/ OpenFetch \/ ConfirmReset \/ PreviewReset
                 \/ \E chaves \in SUBSET Notes : AskPlanCiencia(chaves)
                 \/ \E k \in Notes : OpenManifestacao(k)
          PROVE  ShownInv'
      <3>1. UNCHANGED shownVars
        BY <2>1 DEF OpenExport, ExportXML, ConfirmMarkViewed, SyncNFSe, SyncNFe, SyncCTe, StartPull,
                    CancelSync, ChooseFiles, OpenFetch, ConfirmReset, PreviewReset, AskPlanCiencia,
                    OpenManifestacao, shownVars
      <3> QED BY <3>1, ShownStays
    <2> QED BY <1>2, <2>1, FilterKeeps, SearchKeeps, SelectKeeps DEF Asks
  <1>3. ASSUME Answers
        PROVE  UNCHANGED shownVars
    BY <1>3 DEF Answers, ImportXML, FetchByChave, ResetFromNFSe, ResetFromNFe, ResetFromCTe,
                StartReset, MarkConfirmed, Export, RegisterCiencia, RegisterManifestacao, Dismiss,
                shownVars
  <1> QED BY <1>1, <1>2, <1>3, NavigatesKeeps, ShownStays DEF PageNext

-----------------------------------------------------------------------------

LEMMA PageInitHolds == PageInit => ShownInv /\ MarkersInv
  <1> SUFFICES ASSUME PageInit
               PROVE  ShownInv /\ MarkersInv
    OBVIOUS
  <1>1. /\ session \in Sessions /\ backendList \subseteq Companies /\ FirstCompany \in backendList
        /\ competence \in Competences /\ companies = {} /\ cnpj = None
        /\ stored \in Companies \cup {None} /\ mounted = FALSE /\ listError = FALSE
    BY CompanyAssumption DEF PageInit
  <1>2. PICK l : l = NewLoad("companies", None, None, backendList)
    OBVIOUS
  <1>3. loads = {l} /\ l \in Load /\ l.kind = "companies" /\ l.of = backendList
    <2>1. "companies" \in Kinds /\ None \in Companies \cup {None} /\ None \in Competences \cup {None}
          /\ backendList \in SUBSET (Companies \cup Notes)
      BY <1>1 DEF Kinds
    <2> QED BY <1>2, <2>1 DEF PageInit, NewLoad, Load
  <1>4. LoadsFit(loads, backendList)
    BY <1>1, <1>3 DEF LoadsFit, LoadFits, OneLatest
  <1>5. ~Has(loads, "search") /\ ~Has(loads, "pending")
    BY <1>3 DEF Has
  <1>6. WorkspaceFits /\ InfoFits /\ FlagsHonest /\ SearchCurrent /\ HeaderFits
    BY <1>1, <1>5 DEF PageInit, WorkspaceFits, Listed, InfoFits, FlagsHonest, SearchCurrent, HeaderFits
  <1>7. RowsFit
    BY DEF PageInit, RowsFit
  <1>8. CallsFit
    <2>1. \A c, kinds : ~Runs(c, kinds)
      BY DEF PageInit, Runs
    <2>2. activeSyncs = [c \in Companies |-> 0]
      BY DEF PageInit
    <2>3. activeSyncs \in [Companies -> {0, 1}] /\ \A c \in Companies : activeSyncs[c] # 1
      BY <2>2
    <2>4. /\ calls = {} /\ unselect = FALSE /\ cancels = {} /\ choosing = {}
          /\ cancelling = {} /\ cancellable = {} /\ resettingCNPJ = None
      BY DEF PageInit
    <2> QED BY <2>1, <2>3, <2>4, CompanyAssumption DEF CallsFit, None
  <1>9. DialogsFit /\ SendsFit
    BY DEF PageInit, DialogsFit, SendsFit
  <1>10. BusyFits
    BY FS_EmptySet DEF PageInit, BusyFits, Occupied
  <1> QED BY <1>4, <1>6, <1>7, <1>8, <1>9, <1>10 DEF ShownInv, MarkersInv

LEMMA PageStepKeeps == ShownInv /\ MarkersInv /\ [PageNext]_pageVars => ShownInv' /\ MarkersInv'
  <1> SUFFICES ASSUME ShownInv, MarkersInv, [PageNext]_pageVars
               PROVE  ShownInv' /\ MarkersInv'
    OBVIOUS
  <1>1. CASE PageNext
    BY <1>1, ShownKept, MarkersKept
  <1>2. CASE UNCHANGED pageVars
    <2>1. UNCHANGED shownVars /\ UNCHANGED <<session, syncs, actions, events>> /\ cnpj' = cnpj
      BY <1>2 DEF pageVars, shownVars, workspace
    <2>2. session \in Sessions
      BY DEF ShownInv, WorkspaceFits, Listed
    <2> QED BY <2>1, <2>2, ShownStays, QuietKeeps
  <1> QED BY <1>1, <1>2

\* The invariant of the page: what it shows, and what its markers say.
LEMMA PageInvHolds == PageSpec => [](ShownInv /\ MarkersInv)
  BY PageInitHolds, PageStepKeeps, PTL DEF PageSpec

LEMMA InvGivesTypes ==
    ASSUME ShownInv, MarkersInv
    PROVE  PageTypeOK
  <1>1. activeSyncs \in [Companies -> 0 .. session.busy]
    <2>1. session.busy \in Nat
      BY SessionAssumption DEF ShownInv, WorkspaceFits, Listed
    <2>2. ASSUME NEW c \in Companies
          PROVE  activeSyncs[c] \in 0 .. session.busy
      <3>1. activeSyncs[c] \in {0, 1} /\ (activeSyncs[c] = 1 => calls # {})
        BY DEF MarkersInv, CallsFit, Runs
      <3>2. calls # {} => session.busy >= 1
        BY DEF MarkersInv, BusyFits, Occupied
      <3> QED BY <2>1, <3>1, <3>2
    <2> QED BY <2>2 DEF MarkersInv, CallsFit
  <1>2. loads \subseteq Load
    BY DEF ShownInv, LoadsFit, LoadFits
  <1>3. /\ session \in Sessions
        /\ backendList \subseteq Companies /\ companies \subseteq backendList
        /\ cnpj \in companies \cup {None} /\ stored \in Companies \cup {None}
        /\ competence \in Competences /\ mounted \in BOOLEAN /\ listError \in BOOLEAN
        /\ rows \subseteq Row /\ selected \subseteq rows
        /\ rowsFor \in Key \cup {NoKey} /\ loading \in BOOLEAN
        /\ pageStatus \in Companies \cup {None} /\ pending \in Companies \cup {None}
        /\ pendingLoading \in BOOLEAN
    BY DEF ShownInv, WorkspaceFits, Listed, RowsFit, InfoFits, FlagsHonest
  <1>4. /\ cancelling \subseteq Companies /\ cancellable \subseteq Companies
        /\ resettingCNPJ \in Companies \cup {None}
        /\ cancels \subseteq Companies /\ choosing \subseteq Companies
        /\ calls \subseteq Call /\ unselect \in BOOLEAN
    BY DEF MarkersInv, CallsFit
  <1>5. /\ exporting \in BOOLEAN /\ markingViewed \in Mark \cup {NoMark}
        /\ dialogs \subseteq Dialog /\ previewing \in Companies \cup {None}
    BY DEF MarkersInv, DialogsFit, DialogFits
  <1>6. /\ planningCiencia \in Mark \cup {NoMark}
        /\ cienciaInFlight \in SUBSET Notes /\ manifestacaoInFlight \in SUBSET Notes
        /\ sends \subseteq Send
    BY DEF MarkersInv, SendsFit
  <1> QED BY <1>1, <1>2, <1>3, <1>4, <1>5, <1>6 DEF PageTypeOK

LEMMA EqualTruths ==
    ASSUME NEW p \in BOOLEAN, NEW q \in BOOLEAN, p <=> q
    PROVE  p = q
    OBVIOUS

LEMMA InvGivesMarkers ==
    ASSUME ShownInv, MarkersInv
    PROVE  MarkersHonest
  <1>1. ASSUME NEW c \in Companies, NEW own, own = {x \in calls : x.cnpj = c}
        PROVE  /\ Cardinality(own) <= 1
               /\ activeSyncs[c] = Cardinality({x \in own : x.kind # "reset"})
               /\ (resettingCNPJ = c) = (\E x \in own : x.kind = "reset")
               /\ (c \in cancellable) = (\E x \in own : x.kind = "pull")
    <2>1. /\ activeSyncs[c] \in {0, 1}
          /\ activeSyncs[c] = 1 <=> Runs(c, Syncing)
          /\ resettingCNPJ = c <=> Runs(c, {"reset"})
          /\ c \in cancellable <=> Runs(c, {"pull"})
      BY DEF MarkersInv, CallsFit
    <2>2. Cardinality({}) = 0
      BY FS_EmptySet
    <2>3. /\ (resettingCNPJ = c) = (\E x \in own : x.kind = "reset")
          /\ (c \in cancellable) = (\E x \in own : x.kind = "pull")
      <3>1. /\ Runs(c, {"reset"}) <=> \E x \in own : x.kind = "reset"
            /\ Runs(c, {"pull"}) <=> \E x \in own : x.kind = "pull"
        BY <1>1 DEF Runs
      <3>2. (resettingCNPJ = c) = (\E x \in own : x.kind = "reset")
        BY ONLY <2>1, <3>1, Zenon
      <3>3. (c \in cancellable) = (\E x \in own : x.kind = "pull")
        <4>1. c \in cancellable <=> \E x \in own : x.kind = "pull"
          BY <2>1, <3>1
        <4>2. (c \in cancellable) \in BOOLEAN /\ (\E x \in own : x.kind = "pull") \in BOOLEAN
          OBVIOUS
        <4> QED BY <4>1, <4>2, EqualTruths
      <3> QED BY <3>2, <3>3, Zenon
    <2>4. ASSUME own = {}
          PROVE  /\ Cardinality(own) <= 1
                 /\ activeSyncs[c] = Cardinality({x \in own : x.kind # "reset"})
      <3>1. {x \in own : x.kind # "reset"} = {}
        BY <2>4
      <3>2. activeSyncs[c] = 0
        BY <1>1, <2>1, <2>4 DEF Runs
      <3>3. Cardinality(own) <= 1
        BY <2>2, <2>4
      <3>4. Cardinality({x \in own : x.kind # "reset"}) = 0
        BY ONLY <2>2, <3>1, Zenon
      <3>5. activeSyncs[c] = Cardinality({x \in own : x.kind # "reset"})
        BY ONLY <3>2, <3>4, Zenon
      <3> QED BY <3>3, <3>5
    <2>5. ASSUME NEW x \in own
          PROVE  /\ Cardinality(own) <= 1
                 /\ activeSyncs[c] = Cardinality({y \in own : y.kind # "reset"})
      <3>1. own = {x} /\ x \in calls /\ x.cnpj = c
        BY <1>1, <2>5 DEF MarkersInv, CallsFit
      <3>2. Cardinality({x}) = 1
        BY FS_Singleton
      <3>3. x.kind \in Syncing <=> x.kind # "reset"
        BY <3>1 DEF MarkersInv, CallsFit, Call, Syncing
      <3>4. Runs(c, Syncing) <=> x.kind \in Syncing
        BY <1>1, <3>1 DEF Runs
      <3>5. CASE x.kind = "reset"
        <4>1. {y \in own : y.kind # "reset"} = {}
          BY <3>1, <3>5
        <4> QED BY <2>1, <2>2, <3>1, <3>2, <3>3, <3>4, <3>5, <4>1
      <3>6. CASE x.kind # "reset"
        <4>1. {y \in own : y.kind # "reset"} = {x}
          BY <3>1, <3>6
        <4> QED BY <2>1, <3>1, <3>2, <3>3, <3>4, <3>6, <4>1
      <3> QED BY <3>5, <3>6
    <2> QED BY <2>3, <2>4, <2>5
  <1>2. cancelling \subseteq cancellable
    BY DEF MarkersInv, CallsFit
  <1>3. /\ loading = (\E l \in loads : l.kind = "search" /\ l.latest)
        /\ pendingLoading = (\E l \in loads : l.kind = "pending" /\ l.latest)
    BY DEF ShownInv, FlagsHonest, Has
  <1>4. \A s, t \in sends : s # t =>
          s.chaves \cap t.chaves = {} /\ {s.tipo, t.tipo} # {"ciencia"}
    BY DEF MarkersInv, SendsFit, Apart
  <1> QED BY <1>1, <1>2, <1>3, <1>4 DEF MarkersHonest

\* Every variable of a page stays in its set, whatever the user and the backend
\* do: no marker of syncs goes below zero or above the calls in flight.
THEOREM PageTypes == PageSpec => []PageTypeOK
  BY PageInvHolds, InvGivesTypes, PTL

\* What a page shows is always of the company and competência of its header,
\* for any number of companies, competências and loads, whose replies come in
\* any order (useWorkspaceList, useDocumentLoaders).
THEOREM PageShowsHeader == PageSpec => []ShownOfHeader
  <1>1. ShownInv => ShownOfHeader
    BY DEF ShownInv, HeaderFits, RowsFit, ShownOfHeader
  <1> QED BY <1>1, PageInvHolds, PTL

\* The markers of a page tell what runs: one call of a company at most, marked
\* while it runs; the list busy exactly while a search that counts runs; and no
\* nota with two events in flight (companySync, useNFeManifestacao).
THEOREM PageMarkersHonest == PageSpec => []MarkersHonest
  BY PageInvHolds, InvGivesMarkers, PTL

-----------------------------------------------------------------------------
(* The reset of an NFS-e or NF-e page.  Its dialog opens for the company   *)
(* shown and is modal, so that only a list of companies could choose       *)
(* another one, and such a list never leaves out the company shown         *)
(* (ListsGrow).                                                            *)

\* The list of companies that counts leaves out none of the ones shown.
ListsGrow == \A l \in loads : l.kind = "companies" /\ l.latest => companies \subseteq l.of

\* The lists of companies of ls that count are of old, or bring listed.
ListsFrom(ls, old, listed) ==
    /\ ls \subseteq Load
    /\ \A l \in ls : l.kind = "companies" /\ l.latest =>
          \/ l.of = listed
          \/ \E k \in old : k.kind = "companies" /\ k.latest /\ k.of = l.of

LEMMA BegunLists ==
    ASSUME NEW ls, NEW old, NEW listed, ListsFrom(ls, old, listed),
           NEW l \in Load, l.kind = "companies" => l.of = listed
    PROVE  ListsFrom(Begun(ls, l), old, listed)
  <1> SUFFICES ASSUME NEW y \in Begun(ls, l)
               PROVE  /\ y \in Load
                      /\ y.kind = "companies" /\ y.latest =>
                            \/ y.of = listed
                            \/ \E k \in old : k.kind = "companies" /\ k.latest /\ k.of = y.of
    BY DEF ListsFrom
  <1>1. CASE y = l
    BY <1>1
  <1>2. CASE y # l
    <2>1. PICK x \in ls :
             y = IF x.kind = l.kind /\ l.kind # "note" THEN [x EXCEPT !.latest = FALSE] ELSE x
      BY <1>2 DEF Begun
    <2>2. x \in Load
      BY DEF ListsFrom
    <2>3. CASE x.kind = l.kind /\ l.kind # "note"
      <3>1. y = [x EXCEPT !.latest = FALSE]
        BY <2>1, <2>3
      <3> QED BY <2>2, <3>1, Demoted
    <2>4. CASE ~(x.kind = l.kind /\ l.kind # "note")
      BY <2>1, <2>2, <2>4 DEF ListsFrom
    <2> QED BY <2>3, <2>4
  <1> QED BY <1>1, <1>2

LEMMA NewLoadFits ==
    ASSUME NEW kind \in Kinds, NEW c \in Companies \cup {None}, NEW m \in Competences \cup {None},
           NEW of \in SUBSET (Companies \cup Notes)
    PROVE  /\ NewLoad(kind, c, m, of) \in Load
           /\ NewLoad(kind, c, m, of).kind = kind /\ NewLoad(kind, c, m, of).of = of
    BY DEF NewLoad, Load

LEMMA SearchingLists ==
    ASSUME NEW ls, NEW old, NEW listed, ListsFrom(ls, old, listed),
           NEW c \in Companies \cup {None}, NEW m \in Competences
    PROVE  ListsFrom(Searching(ls, c, m), old, listed)
  <1>1. "search" \in Kinds /\ {} \in SUBSET (Companies \cup Notes) /\ m \in Competences \cup {None}
    BY DEF Kinds
  <1>2. NewLoad("search", c, m, {}) \in Load /\ NewLoad("search", c, m, {}).kind = "search"
    BY <1>1, NewLoadFits
  <1> QED BY <1>2, BegunLists DEF Searching

LEMMA OtherLists ==
    ASSUME NEW ls, NEW old, NEW listed, ListsFrom(ls, old, listed),
           NEW c \in Companies \cup {None}, NEW kind \in {"pageStatus", "pending", "note"},
           NEW of \in SUBSET Notes
    PROVE  ListsFrom(Begun(ls, NewLoad(kind, c, None, of)), old, listed)
  <1>1. kind \in Kinds /\ of \in SUBSET (Companies \cup Notes) /\ None \in Competences \cup {None}
    BY DEF Kinds
  <1>2. NewLoad(kind, c, None, of) \in Load /\ NewLoad(kind, c, None, of).kind = kind
    BY <1>1, NewLoadFits
  <1> QED BY <1>2, BegunLists

LEMMA StatusLists ==
    ASSUME NEW ls, NEW old, NEW listed, ListsFrom(ls, old, listed), NEW c \in Companies \cup {None}
    PROVE  ListsFrom(LoadingStatus(ls, c), old, listed) /\ ListsFrom(LoadingPending(ls, c), old, listed)
    BY OtherLists DEF LoadingStatus, LoadingPending

LEMMA CompaniesLists ==
    ASSUME NEW ls, NEW old, NEW listed \in SUBSET Companies, ListsFrom(ls, old, listed)
    PROVE  ListsFrom(Begun(ls, NewLoad("companies", None, None, listed)), old, listed)
  <1>1. /\ "companies" \in Kinds /\ None \in Companies \cup {None} /\ None \in Competences \cup {None}
        /\ listed \in SUBSET (Companies \cup Notes)
    BY DEF Kinds
  <1>2. /\ NewLoad("companies", None, None, listed) \in Load
        /\ NewLoad("companies", None, None, listed).of = listed
    BY <1>1, NewLoadFits
  <1> QED BY <1>2, BegunLists

LEMMA RekeyLists ==
    ASSUME NEW ls \in SUBSET Load, NEW c \in Companies \cup {None}, NEW m \in Competences,
           NEW newCompany, Watch(ls, c, m, newCompany) \/ Rekey(ls, c, m, newCompany)
    PROVE  ListsFrom(loads', ls, backendList)
  <1>1. ListsFrom(ls, ls, backendList)
    BY DEF ListsFrom
  <1>2. ASSUME Watch(ls, c, m, newCompany)
        PROVE  ListsFrom(loads', ls, backendList)
    <2> DEFINE onCompany == IF newCompany THEN LoadingPending(LoadingStatus(ls, c), c) ELSE ls
    <2>1. ListsFrom(onCompany, ls, backendList)
      BY <1>1, StatusLists
    <2>2. loads' = IF c = None THEN ls ELSE Searching(onCompany, c, m)
      BY <1>2 DEF Watch
    <2> HIDE DEF onCompany
    <2> QED BY <1>1, <2>1, <2>2, SearchingLists
  <1> QED BY <1>1, <1>2 DEF Rekey

LEMMA RefreshLists ==
    ASSUME ShownInv, NEW c \in Companies
    PROVE  ListsFrom(Refresh(loads, c), loads, backendList)
  <1>1. /\ ListsFrom(loads, loads, backendList) /\ c \in Companies \cup {None}
        /\ competence \in Competences /\ backendList \in SUBSET Companies
    BY DEF ListsFrom, ShownInv, LoadsFit, LoadFits, WorkspaceFits, Listed
  <1>2. CASE source = "nfse"
    <2>1. Refresh(loads, c) = RefreshNFSe(loads, c)
      BY <1>2 DEF Refresh
    <2>2. ListsFrom(LoadingCompanies(loads), loads, backendList)
      BY <1>1, CompaniesLists DEF LoadingCompanies
    <2> QED BY <1>1, <2>1, <2>2, SearchingLists DEF RefreshNFSe
  <1>3. CASE source = "cte"
    <2>1. Refresh(loads, c) = RefreshCTe(loads, c)
      BY <1>3 DEF Refresh
    <2> QED BY <1>1, <2>1, SearchingLists, StatusLists DEF RefreshCTe
  <1>4. CASE source = "nfe"
    <2>1. Refresh(loads, c) = RefreshNFe(loads, c)
      BY <1>4 DEF Refresh
    <2> QED BY <1>1, <2>1, SearchingLists, StatusLists DEF RefreshNFe
  <1> QED BY <1>2, <1>3, <1>4, SourceKnown DEF ShownInv, WorkspaceFits

LEMMA OfResetLists ==
    ASSUME NEW ls, NEW old, NEW listed, ListsFrom(ls, old, listed)
    PROVE  ListsFrom(OfReset(ls), old, listed)
  <1> SUFFICES ASSUME NEW y \in OfReset(ls)
               PROVE  \E l \in ls : /\ l \in Load /\ y \in Load
                                    /\ y.kind = l.kind /\ y.latest = l.latest /\ y.of = l.of
    BY DEF ListsFrom
  <1>1. PICK l \in ls : y = IF l.latest /\ l.kind \in {"search", "pageStatus", "pending"}
                            THEN [l EXCEPT !.reset = TRUE] ELSE l
    BY DEF OfReset
  <1>2. l \in Load
    BY DEF ListsFrom
  <1>3. CASE l.latest /\ l.kind \in {"search", "pageStatus", "pending"}
    <2>1. y = [l EXCEPT !.reset = TRUE]
      BY <1>1, <1>3
    <2>2. y \in Load /\ y.kind = l.kind /\ y.latest = l.latest /\ y.of = l.of
      BY <1>2, <2>1 DEF Load
    <2> QED BY <1>2, <2>2
  <1>4. CASE ~(l.latest /\ l.kind \in {"search", "pageStatus", "pending"})
    BY <1>1, <1>2, <1>4
  <1> QED BY <1>3, <1>4

LEMMA RefreshNoteLists ==
    ASSUME ShownInv, NEW c \in Companies, NEW chave \in Notes
    PROVE  ListsFrom(RefreshNote(loads, c, chave), loads, backendList)
  <1>1. /\ ListsFrom(loads, loads, backendList) /\ c \in Companies \cup {None}
        /\ competence \in Competences /\ {chave} \in SUBSET Notes
    BY DEF ListsFrom, ShownInv, LoadsFit, LoadFits, WorkspaceFits, Listed
  <1>2. /\ ListsFrom(Begun(loads, NewLoad("note", c, None, {chave})), loads, backendList)
        /\ ListsFrom(Searching(loads, c, competence), loads, backendList)
    BY <1>1, OtherLists, SearchingLists
  <1>3. PICK found : /\ found = IF \E r \in rows : r.chave = chave
                                THEN Begun(loads, NewLoad("note", c, None, {chave}))
                                ELSE Searching(loads, c, competence)
                     /\ ListsFrom(found, loads, backendList)
    BY <1>2
  <1>4. ListsFrom(LoadingPending(LoadingStatus(found, c), c), loads, backendList)
    BY <1>1, <1>3, StatusLists
  <1> QED BY <1>1, <1>3, <1>4 DEF RefreshNote

\* A step that leaves the list of companies alone.
LEMMA ListsStay ==
    ASSUME ShownInv, ListsGrow, ListsFrom(loads', loads, backendList), companies' = companies
    PROVE  ListsGrow'
  <1>1. companies \subseteq backendList
    BY DEF ShownInv, WorkspaceFits
  <1> QED BY <1>1 DEF ListsGrow, ListsFrom

\* A list replaced the older ones: no other counts any more.
LEMMA ListArrives ==
    ASSUME ShownInv, ListsGrow, NEW l \in loads, CompaniesArrive(l)
    PROVE  ListsGrow'
  <1>1. loads \subseteq Load /\ OneLatest(loads) /\ l.kind = "companies"
    BY DEF ShownInv, LoadsFit, LoadFits, CompaniesArrive
  <1>2. PICK others \in SUBSET loads : others = loads \ {l}
    OBVIOUS
  <1>3. CASE l.latest
    <2>1. PICK c : c = CompanyIn(l.of)
      OBVIOUS
    <2>2. /\ companies' = l.of
          /\ IF c # cnpj THEN Rekey(others, c, competence, TRUE) ELSE loads' = others
      BY <1>2, <1>3, <2>1 DEF CompaniesArrive
    <2>3. c \in Companies \cup {None} /\ competence \in Competences
      BY <1>1, <2>1, CompanyListed DEF ShownInv, WorkspaceFits, Listed, LoadsFit, LoadFits
    <2>4. \A k \in others : ~(k.kind = "companies" /\ k.latest)
      BY <1>1, <1>2, <1>3 DEF OneLatest
    <2>5. others \subseteq Load
      BY <1>1
    <2>6. \A k \in loads' : k.kind = "companies" /\ k.latest => k.of = backendList
      <3>1. CASE c # cnpj
        <4>1. ListsFrom(loads', others, backendList)
          BY <2>2, <2>3, <2>5, <3>1, RekeyLists
        <4> QED BY <2>4, <4>1 DEF ListsFrom
      <3>2. CASE c = cnpj
        BY <2>2, <2>4, <3>2
      <3> QED BY <3>1, <3>2
    <2>7. l.of \subseteq backendList
      BY <1>1 DEF ShownInv, LoadsFit, LoadFits
    <2> QED BY <2>2, <2>6, <2>7 DEF ListsGrow
  <1>4. CASE ~l.latest
    BY <1>1, <1>4 DEF CompaniesArrive, ListsGrow
  <1> QED BY <1>3, <1>4

LEMMA ListsKept ==
    ASSUME ShownInv, MarkersInv, ListsGrow, PageNext
    PROVE  ListsGrow'
  <1>1. /\ loads \in SUBSET Load /\ ListsFrom(loads, loads, backendList)
        /\ cnpj \in Companies \cup {None} /\ companies \subseteq Companies
        /\ competence \in Competences
    BY DEF ListsFrom, ShownInv, LoadsFit, LoadFits, WorkspaceFits, Listed
  <1>2. ASSUME NEW l \in loads,
               \/ StatusArrives(l) \/ PendingArrives(l) \/ LoadFails(l)
               \/ \E found \in SUBSET Notes : SearchArrives(l, found)
               \/ \E matches \in BOOLEAN : NoteArrives(l, matches)
        PROVE  ListsGrow'
    <2>1. loads' = loads \ {l} /\ companies' = companies
      BY <1>2 DEF StatusArrives, PendingArrives, LoadFails, SearchArrives, NoteArrives, Ends, workspace
    <2> QED BY <2>1 DEF ListsGrow
  <1>3. ASSUME NEW x \in calls, NEW failed \in BOOLEAN, CallEnds(x, failed)
        PROVE  ListsGrow'
    <2>1. x.cnpj \in Companies
      BY DEF MarkersInv, CallsFit, Call
    <2>2. companies' = companies
      BY <1>3 DEF CallEnds, workspace
    <2>3. loads' = Refresh(loads, x.cnpj) \/ loads' = OfReset(Refresh(loads, x.cnpj))
      BY <1>3 DEF CallEnds
    <2>4. ListsFrom(loads', loads, backendList)
      BY <2>1, <2>3, RefreshLists, OfResetLists
    <2> QED BY <2>2, <2>4, ListsStay
  <1>4. ASSUME NEW s \in sends, NEW failed \in BOOLEAN, CienciaEnds(s, failed)
        PROVE  ListsGrow'
    <2>1. s.cnpj \in Companies
      BY DEF MarkersInv, SendsFit, Send
    <2>2. companies' = companies /\ (loads' = loads \/ loads' = Refresh(loads, s.cnpj))
      BY <1>4 DEF CienciaEnds, workspace
    <2>3. ListsFrom(loads', loads, backendList)
      BY <1>1, <2>1, <2>2, RefreshLists
    <2> QED BY <2>2, <2>3, ListsStay
  <1>5. ASSUME NEW s \in sends, NEW failed \in BOOLEAN, ManifestacaoEnds(s, failed)
        PROVE  ListsGrow'
    <2>1. s \in Send /\ s.chaves # {}
      BY DEF MarkersInv, SendsFit
    <2>2. PICK k : k = CHOOSE n \in s.chaves : TRUE
      OBVIOUS
    <2>3. s.cnpj \in Companies /\ k \in Notes
      BY <2>1, <2>2 DEF Send
    <2>4. companies' = companies /\ (loads' = loads \/ loads' = RefreshNote(loads, s.cnpj, k))
      BY <1>5, <2>2 DEF ManifestacaoEnds, workspace
    <2>5. ListsFrom(loads', loads, backendList)
      BY <1>1, <2>3, <2>4, RefreshNoteLists
    <2> QED BY <2>4, <2>5, ListsStay
  <1>6. ASSUME Replies
        PROVE  ListsGrow'
    <2>1. ASSUME \/ \E c \in cancels, failed \in BOOLEAN : CancelReplies(c, failed)
                 \/ \E failed \in BOOLEAN : PreviewArrives(failed)
                 \/ \E failed, onlyUnviewed \in BOOLEAN : MarkEnds(failed, onlyUnviewed)
                 \/ \E eligible \in SUBSET Notes : PlanArrives(eligible)
                 \/ ExportEnds \/ ReportReset
          PROVE  loads' = loads /\ companies' = companies
      BY <2>1 DEF CancelReplies, PreviewArrives, MarkEnds, PlanArrives, ExportEnds, ReportReset, workspace
    <2> QED BY <1>1, <1>2, <1>3, <1>4, <1>5, <1>6, <2>1, ListArrives, ListsStay DEF Replies
  <1>7. ASSUME Navigates
        PROVE  ListsGrow'
    <2>1. ASSUME NEW c \in companies, SelectCompany(c)
          PROVE  ListsGrow'
      <3>1. Rekey(loads, c, competence, TRUE) /\ companies' = companies
        BY <2>1 DEF SelectCompany
      <3> QED BY <1>1, <3>1, RekeyLists, ListsStay
    <2>2. ASSUME NEW m \in Competences, SelectCompetence(m)
          PROVE  ListsGrow'
      <3>1. Rekey(loads, cnpj, m, FALSE) /\ companies' = companies
        BY <2>2 DEF SelectCompetence
      <3> QED BY <1>1, <3>1, RekeyLists, ListsStay
    <2>3. ASSUME AddAndReload
          PROVE  ListsGrow'
      <3>1. /\ companies' = companies
            /\ loads' = Begun(loads, NewLoad("companies", None, None, Companies))
        BY <2>3 DEF AddAndReload
      <3>2. ListsFrom(loads, loads, Companies)
        BY <1>1 DEF ListsFrom
      <3>3. ListsFrom(loads', loads, Companies)
        BY <3>1, <3>2, CompaniesLists
      <3> QED BY <1>1, <3>1, <3>3 DEF ListsGrow, ListsFrom
    <2>4. ASSUME Mount
          PROVE  ListsGrow'
      <3>1. Watch(loads, cnpj, competence, TRUE) /\ companies' = companies
        BY <2>4 DEF Mount, workspace
      <3> QED BY <1>1, <3>1, RekeyLists, ListsStay
    <2>5. ASSUME Unmount
          PROVE  ListsGrow'
      BY <1>1, <2>5, ListsStay DEF Unmount, workspace
    <2> QED BY <1>7, <2>1, <2>2, <2>3, <2>4, <2>5 DEF Navigates
  <1>8. ASSUME Asks
        PROVE  ListsGrow'
    <2>1. CASE Search
      <3>1. loads' = Searching(loads, cnpj, competence) /\ companies' = companies
        BY <2>1 DEF Search, workspace
      <3> QED BY <1>1, <3>1, SearchingLists, ListsStay
    <2>2. CASE ~Search
      <3>1. loads' = loads /\ companies' = companies
        BY <1>8, <2>2
           DEF Asks, EditFilter, OpenExport, ExportXML, Select, ConfirmMarkViewed, SyncNFSe, SyncNFe,
               SyncCTe, StartPull, CancelSync, ChooseFiles, OpenFetch, ConfirmReset, PreviewReset,
               AskPlanCiencia, OpenManifestacao, workspace
      <3> QED BY <1>1, <3>1, ListsStay
    <2> QED BY <2>1, <2>2
  <1>9. ASSUME Answers
        PROVE  ListsGrow'
    <2>1. loads' = loads /\ companies' = companies
      BY <1>9 DEF Answers, ImportXML, FetchByChave, ResetFromNFSe, ResetFromNFe, ResetFromCTe,
                  StartReset, MarkConfirmed, Export, RegisterCiencia, RegisterManifestacao, Dismiss,
                  workspace
    <2> QED BY <1>1, <2>1, ListsStay
  <1> QED BY <1>6, <1>7, <1>8, <1>9 DEF PageNext

\* Nothing chooses another company while a dialog is open.
LEMMA CompanyStays ==
    ASSUME ShownInv, MarkersInv, ListsGrow, PageNext, dialogs # {}
    PROVE  cnpj' = cnpj
  <1>1. cnpj \in companies
    BY DEF MarkersInv, BusyFits, Occupied, ShownInv, WorkspaceFits
  <1>2. ASSUME NEW l \in loads, CompaniesArrive(l)
        PROVE  cnpj' = cnpj
    <2>1. CASE l.latest
      <3>1. cnpj \in l.of
        BY <1>1, <1>2, <2>1 DEF CompaniesArrive, ListsGrow
      <3>2. CompanyIn(l.of) = cnpj
        BY <3>1 DEF CompanyIn
      <3> QED BY <1>2, <2>1, <3>2 DEF CompaniesArrive
    <2>2. CASE ~l.latest
      BY <1>2, <2>2 DEF CompaniesArrive
    <2> QED BY <2>1, <2>2
  <1>3. ASSUME Replies
        PROVE  cnpj' = cnpj
    BY <1>2, <1>3 DEF Replies, StatusArrives, PendingArrives, LoadFails, SearchArrives, NoteArrives,
                      CallEnds, CancelReplies, PreviewArrives, MarkEnds, PlanArrives, CienciaEnds,
                      ManifestacaoEnds, ExportEnds, ReportReset, workspace
  <1>4. ASSUME Navigates
        PROVE  FALSE
    BY <1>4 DEF Navigates, SelectCompany, SelectCompetence, AddAndReload, Mount, Unmount, Free
  <1>5. ASSUME Asks
        PROVE  cnpj' = cnpj
    BY <1>5 DEF Asks, EditFilter, Search, OpenExport, ExportXML, Select, ConfirmMarkViewed, SyncNFSe,
                SyncNFe, SyncCTe, StartPull, CancelSync, ChooseFiles, OpenFetch, ConfirmReset,
                PreviewReset, AskPlanCiencia, OpenManifestacao, workspace
  <1>6. ASSUME Answers
        PROVE  cnpj' = cnpj
    BY <1>6 DEF Answers, ImportXML, FetchByChave, ResetFromNFSe, ResetFromNFe, ResetFromCTe,
                StartReset, MarkConfirmed, Export, RegisterCiencia, RegisterManifestacao, Dismiss,
                workspace
  <1> QED BY <1>3, <1>4, <1>5, <1>6 DEF PageNext

AskedOfShown == \A d \in dialogs : d.kind = "reset" => d.asked = cnpj

AskedInv == ListsGrow /\ (source # "cte" => ResetAsConfirmed /\ AskedOfShown /\ previewing = None)

LEMMA AskedKept ==
    ASSUME ShownInv, MarkersInv, AskedInv, PageNext, source # "cte"
    PROVE  ResetAsConfirmed' /\ AskedOfShown' /\ previewing' = None
  <1>1. ResetAsConfirmed /\ AskedOfShown /\ previewing = None /\ ListsGrow
    BY DEF AskedInv
  <1>2. dialogs # {} => cnpj' = cnpj
    BY <1>1, CompanyStays
  <1>3. ASSUME dialogs' \subseteq dialogs \/ \E d : d.kind # "reset" /\ dialogs' \subseteq dialogs \cup {d}
        PROVE  AskedOfShown'
    BY <1>1, <1>2, <1>3 DEF AskedOfShown
  <1>4. ASSUME calls' \subseteq calls \/ \E x : x.asked = x.cnpj /\ calls' \subseteq calls \cup {x}
        PROVE  ResetAsConfirmed'
    BY <1>1, <1>4 DEF ResetAsConfirmed
  <1>5. \A kind, c : StartSync(kind, c) => \E x : x.asked = x.cnpj /\ calls' \subseteq calls \cup {x}
    BY DEF StartSync
  <1>6. ASSUME Replies
        PROVE  ResetAsConfirmed' /\ AskedOfShown' /\ previewing' = None
    <2>1. calls' \subseteq calls /\ previewing' = None
      BY <1>1, <1>6 DEF Replies, CompaniesArrive, StatusArrives, PendingArrives, LoadFails,
                  SearchArrives, NoteArrives, CallEnds, CancelReplies, PreviewArrives, MarkEnds,
                  PlanArrives, CienciaEnds, ManifestacaoEnds, ExportEnds, ReportReset, syncs, actions
    <2>2. ASSUME NEW eligible \in SUBSET Notes, PlanArrives(eligible)
          PROVE  AskedOfShown'
      BY <1>3, <2>2 DEF PlanArrives, Open
    <2>3. ASSUME ~\E eligible \in SUBSET Notes : PlanArrives(eligible)
          PROVE  dialogs' = dialogs
      BY <1>1, <1>6, <2>3 DEF Replies, CompaniesArrive, StatusArrives, PendingArrives, LoadFails,
                  SearchArrives, NoteArrives, CallEnds, CancelReplies, PreviewArrives, MarkEnds,
                  CienciaEnds, ManifestacaoEnds, ExportEnds, ReportReset, actions
    <2> QED BY <1>3, <1>4, <2>1, <2>2, <2>3
  <1>7. ASSUME Navigates
        PROVE  UNCHANGED <<calls, dialogs, previewing>>
    BY <1>7 DEF Navigates, SelectCompany, SelectCompetence, AddAndReload, Mount, Unmount, syncs, actions
  <1>8. ASSUME Asks
        PROVE  ResetAsConfirmed' /\ AskedOfShown' /\ previewing' = None
    <2>1. previewing' = None
      BY <1>1, <1>8 DEF Asks, EditFilter, Search, OpenExport, ExportXML, Select, ConfirmMarkViewed,
                  SyncNFSe, SyncNFe, SyncCTe, StartPull, CancelSync, ChooseFiles, OpenFetch,
                  ConfirmReset, PreviewReset, AskPlanCiencia, OpenManifestacao, actions
    <2>2. CASE SyncNFSe \/ SyncNFe \/ SyncCTe
      <3>1. StartSync("pull", cnpj) /\ dialogs' = dialogs
        BY <2>2 DEF SyncNFSe, SyncNFe, SyncCTe, StartPull, actions
      <3> QED BY <1>3, <1>4, <1>5, <2>1, <3>1
    <2>3. CASE ConfirmReset
      <3>1. calls' = calls /\ cnpj' = cnpj /\ dialogs' = dialogs \cup {DialogOf("reset", {})}
        BY <2>3 DEF ConfirmReset, syncs, workspace, Open
      <3>2. AskedOfShown'
        BY <1>1, <3>1 DEF AskedOfShown, DialogOf
      <3> QED BY <1>4, <2>1, <3>1, <3>2
    <2>4. CASE ~(SyncNFSe \/ SyncNFe \/ SyncCTe \/ ConfirmReset)
      <3>1. calls' = calls
        BY <1>8, <2>4 DEF Asks, EditFilter, Search, OpenExport, ExportXML, Select, ConfirmMarkViewed,
                  CancelSync, ChooseFiles, OpenFetch, PreviewReset, AskPlanCiencia, OpenManifestacao, syncs
      <3>2. \A kind, chaves : kind # "reset" /\ Open(DialogOf(kind, chaves)) =>
               \E d : d.kind # "reset" /\ dialogs' \subseteq dialogs \cup {d}
        BY DEF Open, DialogOf
      <3>3. \/ dialogs' \subseteq dialogs
            \/ \E kind, chaves : kind # "reset" /\ Open(DialogOf(kind, chaves))
        <4>1. ASSUME OpenFetch \/ OpenExport \/ \E k \in Notes : OpenManifestacao(k)
              PROVE  \E kind, chaves : kind # "reset" /\ Open(DialogOf(kind, chaves))
          BY <4>1 DEF OpenFetch, OpenExport, OpenManifestacao
        <4>2. ASSUME NEW chaves \in SUBSET Notes, ConfirmMarkViewed(chaves)
              PROVE  \/ dialogs' \subseteq dialogs
                     \/ \E kind, ks : kind # "reset" /\ Open(DialogOf(kind, ks))
          BY <4>2 DEF ConfirmMarkViewed
        <4>3. ASSUME \/ EditFilter \/ Search \/ ExportXML \/ CancelSync \/ ChooseFiles \/ PreviewReset
                     \/ \E sel \in SUBSET rows : Select(sel)
                     \/ \E chaves \in SUBSET Notes : AskPlanCiencia(chaves)
              PROVE  dialogs' = dialogs
          BY <4>3 DEF EditFilter, Search, ExportXML, CancelSync, ChooseFiles, PreviewReset, Select,
                      AskPlanCiencia, actions
        <4> QED BY <1>8, <2>4, <4>1, <4>2, <4>3 DEF Asks
      <3> QED BY <1>3, <1>4, <2>1, <3>1, <3>2, <3>3
    <2> QED BY <2>2, <2>3, <2>4
  <1>9. ASSUME Answers
        PROVE  ResetAsConfirmed' /\ AskedOfShown' /\ previewing' = None
    <2>1. previewing' = None /\ dialogs' \subseteq dialogs
      BY <1>1, <1>9 DEF Answers, ImportXML, FetchByChave, ResetFromNFSe, ResetFromNFe, ResetFromCTe,
                  StartReset, MarkConfirmed, Export, RegisterCiencia, RegisterManifestacao, Dismiss,
                  Close, actions
    <2>2. ASSUME NEW d \in dialogs, ResetFromNFSe(d) \/ ResetFromNFe(d) \/ ResetFromCTe(d)
          PROVE  \/ calls' \subseteq calls
                 \/ \E x : x.asked = x.cnpj /\ calls' \subseteq calls \cup {x}
      <3>1. d.kind = "reset" /\ d.asked = cnpj
        BY <1>1, <2>2 DEF ResetFromNFSe, ResetFromNFe, ResetFromCTe, StartReset, AskedOfShown
      <3>2. \/ calls' = calls
            \/ calls' = calls \cup {[kind |-> "reset", cnpj |-> cnpj, asked |-> d.asked]}
        BY <2>2 DEF ResetFromNFSe, ResetFromNFe, ResetFromCTe, StartReset
      <3> QED BY <3>1, <3>2
    <2>3. \/ calls' \subseteq calls
          \/ \E x : x.asked = x.cnpj /\ calls' \subseteq calls \cup {x}
      <3>1. ASSUME NEW c \in choosing, NEW files \in BOOLEAN, ImportXML(c, files)
            PROVE  \/ calls' \subseteq calls
                   \/ \E x : x.asked = x.cnpj /\ calls' \subseteq calls \cup {x}
        BY <1>5, <3>1 DEF ImportXML
      <3>2. ASSUME NEW d \in dialogs, FetchByChave(d)
            PROVE  \/ calls' \subseteq calls
                   \/ \E x : x.asked = x.cnpj /\ calls' \subseteq calls \cup {x}
        BY <1>5, <3>2 DEF FetchByChave
      <3>3. ASSUME NEW d \in dialogs,
                   \/ MarkConfirmed(d) \/ Export(d) \/ RegisterCiencia(d)
                   \/ RegisterManifestacao(d) \/ Dismiss(d)
            PROVE  calls' = calls
        BY <3>3 DEF MarkConfirmed, Export, RegisterCiencia, RegisterManifestacao, Dismiss, syncs
      <3> QED BY <1>9, <2>2, <3>1, <3>2, <3>3 DEF Answers
    <2> QED BY <1>3, <1>4, <2>1, <2>3
  <1> QED BY <1>1, <1>3, <1>4, <1>6, <1>7, <1>8, <1>9 DEF PageNext

LEMMA SessionStays == [PageNext]_pageVars => session' = session
  <1>1. Replies => session' = session
    BY DEF Replies, CompaniesArrive, StatusArrives, PendingArrives, LoadFails, SearchArrives,
           NoteArrives, CallEnds, CancelReplies, PreviewArrives, MarkEnds, PlanArrives, CienciaEnds,
           ManifestacaoEnds, ExportEnds, ReportReset
  <1>2. Navigates => session' = session
    BY DEF Navigates, SelectCompany, SelectCompetence, AddAndReload, Mount, Unmount
  <1>3. Asks => session' = session
    BY DEF Asks, EditFilter, Search, OpenExport, ExportXML, Select, ConfirmMarkViewed, SyncNFSe,
           SyncNFe, SyncCTe, StartPull, CancelSync, ChooseFiles, OpenFetch, ConfirmReset,
           PreviewReset, AskPlanCiencia, OpenManifestacao
  <1>4. Answers => session' = session
    BY DEF Answers, ImportXML, FetchByChave, ResetFromNFSe, ResetFromNFe, ResetFromCTe,
           StartReset, MarkConfirmed, Export, RegisterCiencia, RegisterManifestacao, Dismiss
  <1> QED BY <1>1, <1>2, <1>3, <1>4 DEF PageNext, pageVars

\* The reset of an NFS-e or NF-e page is of the company its user confirmed,
\* whatever replies came while the dialog was open (confirmResetSync,
\* confirmResetNFe).  Only the CT-e page, which asks after a preview, may reset
\* another: there ResetAsConfirmed fails.
THEOREM PageResetsAsConfirmed == PageSpec => [](source # "cte" => ResetAsConfirmed)
  <1>1. PageInit => AskedInv
    <2> SUFFICES ASSUME PageInit
                 PROVE  AskedInv
      OBVIOUS
    <2>1. companies = {} /\ calls = {} /\ dialogs = {} /\ previewing = None
      BY DEF PageInit
    <2> QED BY <2>1 DEF AskedInv, ListsGrow, ResetAsConfirmed, AskedOfShown
  <1>2. ShownInv /\ MarkersInv /\ AskedInv /\ [PageNext]_pageVars => AskedInv'
    <2> SUFFICES ASSUME ShownInv, MarkersInv, AskedInv, [PageNext]_pageVars
                 PROVE  AskedInv'
      OBVIOUS
    <2>1. CASE PageNext
      <3>1. (source # "cte")' <=> source # "cte"
        BY SessionStays DEF source
      <3> QED BY <2>1, <3>1, ListsKept, AskedKept DEF AskedInv
    <2>2. CASE UNCHANGED pageVars
      BY <2>2 DEF pageVars, workspace, syncs, actions, AskedInv, ListsGrow, ResetAsConfirmed,
                  AskedOfShown, source
    <2> QED BY <2>1, <2>2
  <1>3. AskedInv => (source # "cte" => ResetAsConfirmed)
    BY DEF AskedInv
  <1> QED BY <1>1, <1>2, <1>3, PageInvHolds, PTL DEF PageSpec
=============================================================================
