------------------------- MODULE StoredFiles_proofs -------------------------
(***************************************************************************)
(* The files of a request, for any calls, names and numbers of files: what *)
(* committed rows register is never lost, and is found where they say; and *)
(* of calls that follow one another nothing unknown remains on the share.  *)
(***************************************************************************)
EXTENDS StoredFiles, TLAPS

\* The names a call may give to its files.
NamesOf(c) == {Candidates[c][i] : i \in 1 .. Len(Candidates[c])}

\* Two calls never want the same name.
NamesDiffer == \A c, d \in Calls : c # d => NamesOf(c) \cap NamesOf(d) = {}

\* Names are taken twice only by calls that do not overlap, that nothing cuts
\* off, and whose files stay in one folder.
Apart == NamesDiffer \/ (~Overlap /\ ~Crashes /\ MaxRenames = 0)

-----------------------------------------------------------------------------
(* The invariant.                                                          *)

\* Where the upload that brought r copied it to.
Home(r) ==
    [place   |-> Place(r.owner),
     project |-> call[r.content.call].folder,
     name    |-> r.name]

\* What a call copied, and will register, has names of its own.
CopyMade(c, r) ==
    /\ r.content.call = c /\ r.content.file > call[c].left
    /\ r.owner = call[c].owner /\ r.name \in NamesOf(c)
    /\ r.folder = IF r.owner = "request" THEN 0 ELSE call[c].folder
CopiesSound(c) ==
    /\ call[c].name # Null => call[c].name \in NamesOf(c) /\ call[c].left > 0
    /\ call[c].step = "idle" => call[c].copied = {}
    /\ \A r \in call[c].copied : CopyMade(c, r)
    /\ \A r, s \in call[c].copied : r.content = s.content => r = s
    /\ call[c].op \in Uploads /\ call[c].step = "over" =>
         \A r, s \in call[c].copied : r.name = s.name => r = s
CopiesMade == \A c \in Calls : CopiesSound(c)

\* Rows, and what deletions aim at, come from uploads that were committed.
Registered(r) ==
    /\ call[r.content.call].op \in Uploads
    /\ call[r.content.call].step = "over"
    /\ r \in call[r.content.call].copied
RowsRegistered ==
    /\ \A r \in rows : Registered(r)
    /\ presence # "live" => rows = {}
    /\ \A c \in Calls :
         /\ call[c].op = "none" <=> call[c].step = "idle"
         /\ call[c].op = "delete request" => presence = "deleted"
         /\ call[c].op = "create" /\ call[c].step = "copying" => presence = "absent"
         /\ \A d \in Calls : call[c].op = "create" /\ call[d].op = "create" => c = d

\* A file lies, or was hidden, where its upload copied it to.
AtHome(x, p) ==
    /\ call[x.call].op \in Uploads
    /\ p.place = Place(call[x.call].owner)
    /\ p.project = call[x.call].folder
    /\ p.name \in NamesOf(x.call)
    /\ call[x.call].step \in {"copying", "over"} =>
         \E r \in call[x.call].copied : r.content = x /\ r.name = p.name
FilesAtHome ==
    /\ \A p \in Paths : share[p] # Null => AtHome(share[p], p)
    /\ \A c \in Calls : \A h \in call[c].hidden : AtHome(h[2], h[1])

\* Until its commit or its compensation what an upload copied stays, and the
\* name it chose stays free; only the deletion of the request takes them.
UploadUndisturbed(c) ==
    presence # "deleted" =>
      /\ call[c].op \in Uploads /\ call[c].step \in {"copying", "raised"} =>
           \A r \in call[c].copied : share[PathFor(c, r.name)] = r.content
      /\ call[c].step = "copying" /\ call[c].name # Null =>
           share[PathFor(c, call[c].name)] = Null
UploadsUndisturbed == \A c \in Calls : UploadUndisturbed(c)

\* A deletion under way hides files of its rows, each once, at places that stay
\* free; once committed no row is left for them.
Deleting(c) ==
    /\ call[c].hidden # {} =>
         /\ call[c].op \in FileDeletions
         /\ call[c].step \in {"hiding", "checked", "committed", "raised", "dead"}
    /\ call[c].step = "dead" => Crashes
    /\ call[c].step \in {"hiding", "checked"} => call[c].op \in FileDeletions
    /\ call[c].step = "copying" => call[c].op \in Uploads
    /\ call[c].step = "committed" => call[c].op \notin Uploads
    /\ \A r \in call[c].target : Registered(r) /\ r.owner = call[c].owner
    /\ Underway(c) =>
         /\ \A h \in call[c].hidden :
              share[h[1]] = Null /\ \E r \in call[c].target : r.content = h[2]
         /\ \A h, g \in call[c].hidden : h[1] = g[1] => h = g
         /\ \A d \in Calls \ {c} : Underway(d) =>
              HiddenFrom(c) \cap HiddenFrom(d) = {}
    /\ ~Overlap /\ call[c].step \in {"hiding", "checked"} => call[c].target \subseteq rows
    /\ call[c].op \in FileDeletions /\ call[c].step = "committed" =>
         \A h \in call[c].hidden : \A r \in rows : r.content # h[2]
DeletionsSound ==
    /\ \A c \in Calls : Deleting(c)
    /\ ~Overlap => \A c, d \in Calls : Underway(c) /\ Underway(d) => c = d

\* Every row's file is at home, or hidden.
Found(r) ==
    \/ share[Home(r)] = r.content
    \/ \E c \in Calls : <<Home(r), r.content>> \in call[c].hidden
RowsFound == \A r \in rows : Found(r)

FilesInv ==
    /\ TypeOK /\ CopiesMade /\ RowsRegistered /\ FilesAtHome
    /\ UploadsUndisturbed /\ DeletionsSound /\ RowsFound

-----------------------------------------------------------------------------
(* Types.                                                                  *)

AllSteps == {"idle", "copying", "hiding", "checked", "committed", "raised",
             "over", "failed", "dead"}

\* What a call is about stays as it is.
SameCall(s, t) ==
    s.op = t.op /\ s.owner = t.owner /\ s.folder = t.folder /\ s.target = t.target

LEMMA StateFields ==
  ASSUME NEW s \in CallStates
  PROVE  /\ s.op \in Uploads \union FileDeletions \union {"none", "delete request"}
         /\ s.owner \in Owners /\ s.step \in AllSteps /\ s.folder \in Projects
         /\ s.left \in 0 .. MaxCopies /\ s.name \in Names \union {Null}
         /\ s.copied \in SUBSET FileRows /\ s.target \in SUBSET FileRows
         /\ s.hidden \in SUBSET (Paths \X Contents)
  BY DEF CallStates, AllSteps

LEMMA NewStep ==
  ASSUME NEW s \in CallStates, NEW step \in AllSteps
  PROVE  LET new == [s EXCEPT !.step = step]
         IN  /\ new \in CallStates /\ SameCall(new, s) /\ new.step = step
             /\ new.left = s.left /\ new.name = s.name /\ new.copied = s.copied
             /\ new.hidden = s.hidden
  BY DEF CallStates, AllSteps, SameCall

LEMMA NewName ==
  ASSUME NEW s \in CallStates, NEW n \in Names
  PROVE  LET new == [s EXCEPT !.name = n]
         IN  /\ new \in CallStates /\ SameCall(new, s) /\ new.step = s.step
             /\ new.left = s.left /\ new.name = n /\ new.copied = s.copied
             /\ new.hidden = s.hidden
  BY DEF CallStates, SameCall

LEMMA RowFields ==
  ASSUME NEW r \in FileRows
  PROVE  /\ r.owner \in Owners /\ r.content \in Contents /\ r.folder \in Projects
         /\ r.name \in Names /\ r.content.call \in Calls
         /\ r.content.file \in 1 .. MaxCopies
  BY DEF FileRows, Contents

LEMMA NullIsNoContent ==
  ASSUME FilesAssumption
  PROVE  Null \notin Contents /\ Null \notin Names /\ MaxCopies \in Nat /\ 0 \in Projects
  BY DEF FilesAssumption, Contents, Projects

LEMMA NamesTyped ==
  ASSUME FilesAssumption, NEW c \in Calls
  PROVE  NamesOf(c) \subseteq Names
  BY DEF FilesAssumption, NamesOf

\* Paths with the same components are the same.
LEMMA PathFields ==
  ASSUME NEW p \in Paths
  PROVE  /\ p.place \in {"attachments", "supplier"} /\ p.project \in Projects
         /\ p.name \in Names
         /\ \A q \in Paths : p.place = q.place /\ p.project = q.project
                             /\ p.name = q.name => p = q
  BY DEF Paths

LEMMA PathForTyped ==
  ASSUME TypeOK, NEW c \in Calls, NEW n \in Names
  PROVE  /\ PathFor(c, n) \in Paths /\ PathFor(c, n).name = n
         /\ PathFor(c, n).project = call[c].folder
         /\ PathFor(c, n).place = Place(call[c].owner)
  BY StateFields DEF TypeOK, PathFor, Paths, Place

LEMMA HomeTyped ==
  ASSUME TypeOK, NEW r \in FileRows
  PROVE  /\ Home(r) \in Paths /\ Home(r).name = r.name
         /\ Home(r).project = call[r.content.call].folder
         /\ Home(r).place = Place(r.owner)
  BY StateFields, RowFields DEF TypeOK, Home, Paths, Place

\* One call moves.
LEMMA CallIs ==
  ASSUME call \in [Calls -> CallStates], NEW c \in Calls, NEW s \in CallStates,
         Becomes(c, s)
  PROVE  /\ call' \in [Calls -> CallStates] /\ call'[c] = s
         /\ \A d \in Calls \ {c} : call'[d] = call[d]
  BY DEF Becomes

-----------------------------------------------------------------------------
(* Consequences of the invariant.                                          *)

\* A row's file is at home or hidden by a deletion; its upload is over.
LEMMA RowFacts ==
  ASSUME FilesInv, NEW r \in rows
  PROVE  /\ r \in FileRows /\ r.content.call \in Calls /\ r.content \in Contents
         /\ Registered(r) /\ CopyMade(r.content.call, r) /\ presence = "live"
         /\ Home(r) = PathFor(r.content.call, r.name)
  <1>1. r \in FileRows
    BY DEF FilesInv, TypeOK
  <1>2. Registered(r) /\ presence = "live"
    BY DEF FilesInv, RowsRegistered
  <1>3. CopyMade(r.content.call, r)
    BY <1>1, <1>2, RowFields DEF FilesInv, CopiesMade, CopiesSound, Registered
  <1> QED
    BY <1>1, <1>2, <1>3, RowFields DEF Home, PathFor, CopyMade

\* Registered rows are told apart by their content, and those of one call by
\* their names.
LEMMA RowsApart ==
  ASSUME FilesInv, NEW r \in FileRows, NEW s \in FileRows, Registered(r), Registered(s)
  PROVE  /\ r.content = s.content => r = s
         /\ r.content.call = s.content.call /\ r.name = s.name => r = s
  BY RowFields DEF FilesInv, CopiesMade, CopiesSound, Registered

\* What a deletion aims at was registered; its upload is over.
LEMMA HiddenFacts ==
  ASSUME FilesInv, NEW c \in Calls, Underway(c), NEW h \in call[c].hidden
  PROVE  /\ h \in Paths \X Contents /\ h[1] \in Paths /\ h[2] \in Contents
         /\ h[2].call \in Calls /\ call[h[2].call].step = "over"
         /\ call[c].op \in FileDeletions
         /\ share[h[1]] = Null /\ AtHome(h[2], h[1])
         /\ \E r \in call[c].target :
              r \in FileRows /\ Registered(r) /\ r.owner = call[c].owner /\ r.content = h[2]
  <1>1. h \in Paths \X Contents /\ call[c].target \subseteq FileRows
    BY StateFields DEF FilesInv, TypeOK
  <1>2. Deleting(c) /\ AtHome(h[2], h[1])
    BY DEF FilesInv, DeletionsSound, FilesAtHome
  <1>3. PICK r \in call[c].target : r.content = h[2]
    BY <1>2 DEF Deleting
  <1>4. r \in FileRows /\ Registered(r) /\ r.owner = call[c].owner
    BY <1>1, <1>2 DEF Deleting
  <1>5. call[h[2].call].step = "over" /\ h[2].call \in Calls
    BY <1>3, <1>4, RowFields DEF Registered
  <1>6. share[h[1]] = Null /\ call[c].op \in FileDeletions
    BY <1>2 DEF Deleting
  <1>7. h[1] \in Paths /\ h[2] \in Contents
    BY <1>1
  <1> QED
    BY <1>1, <1>2, <1>3, <1>4, <1>5, <1>6, <1>7

\* Two uploads that take the same name are one, or never meet.
LEMMA MeetingsDiffer ==
  ASSUME FilesInv, Apart, NEW c \in Calls, NEW d \in Calls, Underway(c), Underway(d)
  PROVE  c = d \/ NamesDiffer
  BY DEF FilesInv, DeletionsSound, Apart

-----------------------------------------------------------------------------
(* Steps.                                                                  *)

\* Calls keep what they are about; what is over stays as it was, and nothing
\* begins to copy twice.
Onward ==
  \A d \in Calls : call[d].op # "none" =>
    /\ SameCall(call'[d], call[d])
    /\ call'[d].op \in Uploads /\ call'[d].step \in {"copying", "over"} =>
         call[d].step \in {"copying", "over"} /\ call[d].copied \subseteq call'[d].copied
    /\ call[d].step = "over" => call'[d].step = "over" /\ call'[d].copied = call[d].copied

LEMMA RegisteredStays ==
  ASSUME TypeOK, Onward, NEW r \in FileRows, Registered(r)
  PROVE  Registered(r)' /\ Home(r)' = Home(r)
  <1> DEFINE d == r.content.call
  <1>1. d \in Calls
    BY RowFields
  <1>2. call[d].op \in Uploads /\ call[d].step = "over" /\ r \in call[d].copied
    BY DEF Registered
  <1>3. call[d].op # "none"
    BY <1>2 DEF Uploads
  <1>4. /\ SameCall(call'[d], call[d])
        /\ call'[d].step = "over" /\ call'[d].copied = call[d].copied
    BY <1>1, <1>2, <1>3 DEF Onward
  <1> QED
    BY <1>2, <1>4 DEF Registered, Home, SameCall

LEMMA AtHomeStays ==
  ASSUME Onward, NEW x \in Contents, NEW p \in Paths, AtHome(x, p)
  PROVE  AtHome(x, p)'
  <1> DEFINE d == x.call
  <1>1. d \in Calls
    BY DEF Contents
  <1>2. call[d].op \in Uploads /\ call[d].op # "none"
    BY DEF AtHome, Uploads
  <1>3. /\ SameCall(call'[d], call[d])
        /\ call'[d].op \in Uploads /\ call'[d].step \in {"copying", "over"} =>
             call[d].step \in {"copying", "over"} /\ call[d].copied \subseteq call'[d].copied
    BY <1>1, <1>2 DEF Onward
  <1>4. call'[d].op = call[d].op /\ call'[d].owner = call[d].owner
        /\ call'[d].folder = call[d].folder
    BY <1>3 DEF SameCall
  <1>5. call'[d].step \in {"copying", "over"} =>
          \E r \in call'[d].copied : r.content = x /\ r.name = p.name
    BY <1>2, <1>3, <1>4 DEF AtHome
  <1> QED
    BY <1>2, <1>4, <1>5 DEF AtHome

\* Files that lie where they lay, or were hidden, or are new, are at home.
LEMMA FilesStayAtHome ==
  ASSUME FilesAssumption, FilesInv, TypeOK', Onward,
         \A p \in Paths, x \in Contents : share'[p] = x =>
            \/ share[p] = x
            \/ \E d \in Calls : <<p, x>> \in call[d].hidden
            \/ AtHome(x, p)',
         \A d \in Calls, p \in Paths, x \in Contents : <<p, x>> \in call'[d].hidden =>
            <<p, x>> \in call[d].hidden \/ share[p] = x
  PROVE  FilesAtHome'
  <1>1. \A p \in Paths, x \in Contents : share[p] = x => AtHome(x, p)
    <2> SUFFICES ASSUME NEW p \in Paths, NEW x \in Contents, share[p] = x
                 PROVE  AtHome(x, p)
      OBVIOUS
    <2>1. share[p] # Null
      BY NullIsNoContent
    <2> QED
      BY <2>1 DEF FilesInv, FilesAtHome
  <1>2. \A d \in Calls, p \in Paths, x \in Contents : <<p, x>> \in call[d].hidden => AtHome(x, p)
    <2> SUFFICES ASSUME NEW d \in Calls, NEW p \in Paths, NEW x \in Contents,
                        <<p, x>> \in call[d].hidden
                 PROVE  AtHome(x, p)
      OBVIOUS
    <2> DEFINE h == <<p, x>>
    <2>1. h \in call[d].hidden /\ h[1] = p /\ h[2] = x
      OBVIOUS
    <2>2. AtHome(h[2], h[1])
      BY <2>1 DEF FilesInv, FilesAtHome
    <2> QED
      BY <2>1, <2>2
  <1>3. \A p \in Paths, x \in Contents : share'[p] = x => AtHome(x, p)'
    BY <1>1, <1>2, AtHomeStays
  <1>4. \A d \in Calls, p \in Paths, x \in Contents :
          <<p, x>> \in call'[d].hidden => AtHome(x, p)'
    BY <1>1, <1>2, AtHomeStays
  <1>5. \A p \in Paths : share'[p] # Null => AtHome(share[p], p)'
    BY <1>3 DEF TypeOK
  <1>6. \A d \in Calls : \A h \in call'[d].hidden : AtHome(h[2], h[1])'
    <2> SUFFICES ASSUME NEW d \in Calls, NEW h \in call'[d].hidden
                 PROVE  AtHome(h[2], h[1])'
      OBVIOUS
    <2>1. h \in Paths \X Contents
      BY StateFields DEF TypeOK
    <2>2. h = <<h[1], h[2]>> /\ h[1] \in Paths /\ h[2] \in Contents
      BY <2>1
    <2> QED
      BY <2>2, <1>4
  <1> QED
    BY <1>5, <1>6 DEF FilesAtHome

\* What holds of a call that does not move.
LEMMA CopiesStay ==
  ASSUME NEW d \in Calls, CopiesSound(d), call'[d] = call[d]
  PROVE  CopiesSound(d)'
  <1>1. \A r : CopyMade(d, r)' <=> CopyMade(d, r)
    BY DEF CopyMade, NamesOf
  <1> QED
    BY <1>1 DEF CopiesSound, NamesOf

LEMMA UploadStays ==
  ASSUME FilesInv, NEW d \in Calls, call'[d] = call[d],
         presence' # "deleted" => presence # "deleted",
         presence # "deleted" /\ call[d].op \in Uploads /\ call[d].step \in {"copying", "raised"} =>
           \A r \in call[d].copied :
              share'[PathFor(d, r.name)] = share[PathFor(d, r.name)],
         presence # "deleted" /\ call[d].step = "copying" /\ call[d].name # Null =>
           share'[PathFor(d, call[d].name)] = share[PathFor(d, call[d].name)]
  PROVE  UploadUndisturbed(d)'
  <1>1. UploadUndisturbed(d)
    BY DEF FilesInv, UploadsUndisturbed
  <1>2. \A n : PathFor(d, n)' = PathFor(d, n)
    BY DEF PathFor
  <1> QED
    BY <1>1, <1>2 DEF UploadUndisturbed

LEMMA DeletingStays ==
  ASSUME FilesInv, Onward, NEW d \in Calls, call'[d] = call[d],
         Underway(d) => \A h \in call[d].hidden : share'[h[1]] = Null,
         Underway(d) => \A e \in Calls \ {d} : Underway(e)' =>
                           HiddenFrom(d) \cap HiddenFrom(e)' = {},
         ~Overlap /\ Underway(d) => rows \subseteq rows',
         call[d].op \in FileDeletions /\ call[d].step = "committed" =>
           \A h \in call[d].hidden : \A r \in rows' : r.content # h[2]
  PROVE  Deleting(d)'
  <1>1. Deleting(d)
    BY DEF FilesInv, DeletionsSound
  <1>2. call[d].target \subseteq FileRows
    BY StateFields DEF FilesInv, TypeOK
  <1>3. \A r \in call'[d].target : Registered(r)' /\ r.owner = call'[d].owner
    BY <1>1, <1>2, RegisteredStays DEF Deleting, FilesInv
  <1>4. (Underway(d)' <=> Underway(d)) /\ HiddenFrom(d)' = HiddenFrom(d)
    BY DEF Underway, HiddenFrom
  <1>5. Underway(d)' =>
          \A e \in Calls \ {d} : Underway(e)' => (HiddenFrom(d) \cap HiddenFrom(e))' = {}
    BY <1>4
  <1>6. ~Overlap /\ call'[d].step \in {"hiding", "checked"} => call'[d].target \subseteq rows'
    BY <1>1 DEF Deleting, Underway
  <1>7. Underway(d)' =>
          /\ \A h \in call'[d].hidden :
               share'[h[1]] = Null /\ \E r \in call'[d].target : r.content = h[2]
          /\ \A h, g \in call'[d].hidden : h[1] = g[1] => h = g
    BY <1>1, <1>4 DEF Deleting
  <1> QED
    BY <1>1, <1>3, <1>5, <1>6, <1>7 DEF Deleting

LEMMA FoundStays ==
  ASSUME FilesInv, Onward, NEW r \in rows,
         \/ share'[Home(r)] = share[Home(r)]
         \/ \E d \in Calls : <<Home(r), share[Home(r)]>> \in call'[d].hidden,
         \A d \in Calls : <<Home(r), r.content>> \in call[d].hidden =>
            <<Home(r), r.content>> \in call'[d].hidden \/ share'[Home(r)] = r.content
  PROVE  Found(r)'
  <1>1. Found(r) /\ r \in FileRows /\ Registered(r)
    BY RowFacts DEF FilesInv, RowsFound
  <1>2. Home(r)' = Home(r)
    BY <1>1, RegisteredStays DEF FilesInv
  <1> QED
    BY <1>1, <1>2 DEF Found

LEMMA RowsStayRegistered ==
  ASSUME FilesInv, Onward,
         \A r \in rows' : r \in rows \/ Registered(r)',
         presence' # "live" => rows' = {},
         presence = "deleted" => presence' = "deleted",
         \A d \in Calls :
            /\ call'[d].op = call[d].op
            /\ call'[d].step = "idle" <=> call[d].step = "idle"
            /\ call'[d].op = "create" /\ call'[d].step = "copying" => presence' = "absent"
  PROVE  RowsRegistered'
  <1>1. \A r \in rows : Registered(r)'
    BY RegisteredStays DEF FilesInv, TypeOK, RowsRegistered
  <1>2. \A d \in Calls : call'[d].op = "none" <=> call'[d].step = "idle"
    BY DEF FilesInv, RowsRegistered
  <1>3. \A d \in Calls : call'[d].op = "delete request" => presence' = "deleted"
    BY DEF FilesInv, RowsRegistered
  <1>4. \A d, e \in Calls : call'[d].op = "create" /\ call'[e].op = "create" => d = e
    BY DEF FilesInv, RowsRegistered
  <1> QED
    BY <1>1, <1>2, <1>3, <1>4 DEF RowsRegistered

-----------------------------------------------------------------------------
(* Steps that leave the share and its quarantine alone.                    *)

\* One call moves on, or gives up, and changes neither the share nor a row.
MovesOn(c, t) ==
    /\ Underway(c) /\ Becomes(c, t)
    /\ t \in CallStates /\ SameCall(t, call[c])
    /\ t.left = call[c].left /\ t.name = call[c].name
    /\ t.copied \in {call[c].copied, {}}
    /\ \/ t.hidden = call[c].hidden
       \/ call[c].step = "committed" /\ t.hidden \subseteq call[c].hidden
    /\ t.step \in {"raised", "checked", "failed", "dead", "over"}
    /\ t.step = "checked" => call[c].step = "hiding"
    /\ t.step = "dead" => Crashes
    /\ t.step = "failed" => call[c].op = "delete request"
    /\ t.step = "over" => call[c].op \in FileDeletions /\ t.hidden = {}
    /\ UNCHANGED <<presence, rows, share>>

LEMMA MovedOn ==
  ASSUME FilesAssumption, FilesInv, TypeOK', NEW c \in Calls, NEW t, MovesOn(c, t)
  PROVE  FilesInv'
  <1>1. /\ call' \in [Calls -> CallStates] /\ call'[c] = t
        /\ \A d \in Calls \ {c} : call'[d] = call[d]
    BY CallIs DEF MovesOn, FilesInv, TypeOK
  <1>2. call[c].step \notin {"idle", "over", "failed", "dead"}
    BY DEF MovesOn, Underway
  <1>3. Onward
    BY <1>1, <1>2 DEF Onward, MovesOn, SameCall, Uploads, FileDeletions
  <1>4. share' = share /\ rows' = rows /\ presence' = presence
    BY DEF MovesOn
  <1>5. \A d \in Calls : /\ SameCall(call'[d], call[d])
                         /\ call'[d].left = call[d].left /\ call'[d].name = call[d].name
                         /\ call'[d].copied \subseteq call[d].copied
                         /\ call'[d].hidden \subseteq call[d].hidden
                         /\ call'[d].step = "idle" <=> call[d].step = "idle"
                         /\ call'[d].step = "copying" => call'[d] = call[d]
    BY <1>1, <1>2 DEF MovesOn, SameCall
  <1>6. CopiesMade'
    <2> SUFFICES ASSUME NEW d \in Calls PROVE CopiesSound(d)'
      BY DEF CopiesMade
    <2>0. CopiesSound(d)
      BY DEF FilesInv, CopiesMade
    <2>1. \A r \in call'[d].copied : CopyMade(d, r)'
      BY <1>5, <2>0 DEF CopiesSound, CopyMade, SameCall, NamesOf
    <2>2. call'[d].op \in Uploads /\ call'[d].step = "over" => call'[d] = call[d]
      BY <1>1 DEF MovesOn, SameCall, Uploads, FileDeletions
    <2> QED
      BY <1>5, <2>0, <2>1, <2>2 DEF CopiesSound, NamesOf
  <1>7. RowsRegistered'
    <2>1. \A d \in Calls : call'[d].op = call[d].op /\ (call'[d].step = "idle" <=> call[d].step = "idle")
      BY <1>5 DEF SameCall
    <2>2. \A d \in Calls : call'[d].op = "create" /\ call'[d].step = "copying" => presence' = "absent"
      BY <1>4, <1>5 DEF FilesInv, RowsRegistered
    <2>3. presence' # "live" => rows' = {}
      BY <1>4 DEF FilesInv, RowsRegistered
    <2> QED
      BY <1>3, <1>4, <2>1, <2>2, <2>3, RowsStayRegistered
  <1>8. FilesAtHome'
    <2>1. \A d \in Calls, p \in Paths, x \in Contents : <<p, x>> \in call'[d].hidden =>
            <<p, x>> \in call[d].hidden \/ share[p] = x
      BY <1>5
    <2> QED
      BY <1>3, <1>4, <2>1, FilesStayAtHome
  <1>9. UploadsUndisturbed'
    <2> SUFFICES ASSUME NEW d \in Calls PROVE UploadUndisturbed(d)'
      BY DEF UploadsUndisturbed
    <2>1. UploadUndisturbed(d)
      BY DEF FilesInv, UploadsUndisturbed
    <2>2. call'[d].op = call[d].op /\ call'[d].owner = call[d].owner
          /\ call'[d].folder = call[d].folder
      BY <1>5 DEF SameCall
    <2>3. \A n : PathFor(d, n)' = PathFor(d, n)
      BY <2>2 DEF PathFor
    <2>4. call[d].op \in Uploads /\ call'[d].step \in {"copying", "raised"} =>
            call[d].step \in {"copying", "raised"}
      <3>1. CASE d = c
        <4>1. Deleting(c) /\ call[c].step \in AllSteps
          BY StateFields DEF FilesInv, TypeOK, DeletionsSound
        <4> QED
          BY <1>2, <3>1, <4>1 DEF Deleting, AllSteps, Uploads, FileDeletions
      <3>2. CASE d # c
        BY <1>1, <3>2
      <3> QED
        BY <3>1, <3>2
    <2> QED
      BY <1>4, <1>5, <2>1, <2>2, <2>3, <2>4 DEF UploadUndisturbed
  <1>10. \A d \in Calls : Underway(d)' => Underway(d)
    BY <1>1, <1>2 DEF Underway
  <1>11. \A d \in Calls : Deleting(d)'
    <2> SUFFICES ASSUME NEW d \in Calls PROVE Deleting(d)'
      OBVIOUS
    <2>1. Deleting(d)
      BY DEF FilesInv, DeletionsSound
    <2>2. /\ call'[d].op = call[d].op /\ call'[d].owner = call[d].owner
          /\ call'[d].target = call[d].target /\ call'[d].hidden \subseteq call[d].hidden
          /\ call[d].target \subseteq FileRows
      BY <1>5, StateFields DEF SameCall, FilesInv, TypeOK
    <2>3. /\ call'[d].hidden # {} =>
               /\ call'[d].op \in FileDeletions
               /\ call'[d].step \in {"hiding", "checked", "committed", "raised", "dead"}
          /\ call'[d].step = "dead" => Crashes
          /\ call'[d].step \in {"hiding", "checked"} => call'[d].op \in FileDeletions
          /\ call'[d].step = "copying" => call'[d].op \in Uploads
          /\ call'[d].step = "committed" => call'[d].op \notin Uploads
      <3>1. CASE d = c
        BY <1>1, <2>1, <2>2, <3>1 DEF Deleting, MovesOn, FileDeletions
      <3>2. CASE d # c
        BY <1>1, <2>1, <3>2 DEF Deleting
      <3> QED
        BY <3>1, <3>2
    <2>4. \A r \in call'[d].target : Registered(r)' /\ r.owner = call'[d].owner
      BY <1>3, <2>1, <2>2, RegisteredStays DEF Deleting, FilesInv
    <2>5. Underway(d)' =>
            /\ \A h \in call'[d].hidden :
                 share'[h[1]] = Null /\ \E r \in call'[d].target : r.content = h[2]
            /\ \A h, g \in call'[d].hidden : h[1] = g[1] => h = g
      BY <1>4, <1>10, <2>1, <2>2 DEF Deleting
    <2>6. \A e \in Calls : HiddenFrom(e)' \subseteq HiddenFrom(e)
      BY <1>5 DEF HiddenFrom
    <2>7. Underway(d)' =>
            \A e \in Calls \ {d} : Underway(e)' => (HiddenFrom(d) \cap HiddenFrom(e))' = {}
      BY <1>10, <2>1, <2>6 DEF Deleting
    <2>8. /\ ~Overlap /\ call'[d].step \in {"hiding", "checked"} => call'[d].target \subseteq rows'
          /\ call'[d].op \in FileDeletions /\ call'[d].step = "committed" =>
               \A h \in call'[d].hidden : \A r \in rows' : r.content # h[2]
      <3>1. call'[d].step \in {"hiding", "checked"} => call[d].step \in {"hiding", "checked"}
        BY <1>1 DEF MovesOn
      <3>2. call'[d].step = "committed" => call[d].step = "committed"
        BY <1>1 DEF MovesOn
      <3> QED
        BY <1>4, <2>1, <2>2, <3>1, <3>2 DEF Deleting
    <2> QED
      BY <2>3, <2>4, <2>5, <2>7, <2>8 DEF Deleting
  <1>12. DeletionsSound'
    BY <1>10, <1>11 DEF FilesInv, DeletionsSound
  <1>13. RowsFound'
    <2> SUFFICES ASSUME NEW r \in rows PROVE Found(r)'
      BY <1>4 DEF RowsFound
    <2>1. ASSUME NEW d \in Calls, <<Home(r), r.content>> \in call[d].hidden
          PROVE  <<Home(r), r.content>> \in call'[d].hidden
      <3>1. call'[d].hidden = call[d].hidden \/ (d = c /\ call[d].step = "committed")
        BY <1>1 DEF MovesOn
      <3>2. Deleting(d)
        BY DEF FilesInv, DeletionsSound
      <3>3. call[d].step = "committed" => FALSE
        BY <2>1, <3>2 DEF Deleting
      <3> QED
        BY <2>1, <3>1, <3>3
    <2> QED
      BY <1>3, <1>4, <2>1, FoundStays
  <1> QED
    BY <1>6, <1>7, <1>8, <1>9, <1>12, <1>13 DEF FilesInv

\* A call begins: it has copied and hidden nothing.
Begins(c, t) ==
    /\ MayBegin(c) /\ Becomes(c, t)
    /\ t \in CallStates /\ t.op # "none"
    /\ t.step \in {"copying", "hiding", "committed"}
    /\ t.step = "copying" <=> t.op \in Uploads
    /\ t.step = "hiding" <=> t.op \in FileDeletions
    /\ t.name = Null /\ t.copied = {} /\ t.hidden = {}
    /\ \A r \in t.target : r \in rows /\ r.owner = t.owner
    /\ t.op = "create" => presence = "absent" /\ \A d \in Calls : call[d].op # "create"
    /\ IF t.op = "delete request"
         THEN presence = "live" /\ presence' = "deleted" /\ rows' = {}
         ELSE presence' = presence /\ rows' = rows
    /\ share' = share

LEMMA Begun ==
  ASSUME FilesAssumption, FilesInv, TypeOK', NEW c \in Calls, NEW t, Begins(c, t)
  PROVE  FilesInv'
  <1>1. /\ call' \in [Calls -> CallStates] /\ call'[c] = t
        /\ \A d \in Calls \ {c} : call'[d] = call[d]
    BY CallIs DEF Begins, FilesInv, TypeOK
  <1>2. call[c].step = "idle" /\ call[c].op = "none" /\ ~Underway(c)
    BY DEF Begins, MayBegin, Underway, FilesInv, RowsRegistered
  <1>3. Onward
    BY <1>1, <1>2 DEF Onward, SameCall
  <1>4. rows' \subseteq rows /\ share' = share
    BY DEF Begins
  <1>5. /\ t.op # "none" /\ t.step \in {"copying", "hiding", "committed"}
        /\ t.step = "copying" <=> t.op \in Uploads
        /\ t.step = "hiding" <=> t.op \in FileDeletions
        /\ t.name = Null /\ t.copied = {} /\ t.hidden = {}
        /\ \A r \in t.target : r \in rows /\ r.owner = t.owner
    BY DEF Begins
  <1>6. CopiesMade'
    <2> SUFFICES ASSUME NEW d \in Calls PROVE CopiesSound(d)'
      BY DEF CopiesMade
    <2>0. CopiesSound(d)
      BY DEF FilesInv, CopiesMade
    <2>1. CASE d = c
      BY <1>1, <1>5, <2>1 DEF CopiesSound
    <2>2. CASE d # c
      BY <1>1, <2>0, <2>2, CopiesStay
    <2> QED
      BY <2>1, <2>2
  <1>7. RowsRegistered'
    <2>1. \A r \in rows : Registered(r)'
      BY <1>3, RegisteredStays DEF FilesInv, TypeOK, RowsRegistered
    <2>2. presence' # "live" => rows' = {}
      BY DEF Begins, FilesInv, RowsRegistered
    <2>3. \A d \in Calls : call'[d].op = "none" <=> call'[d].step = "idle"
      BY <1>1, <1>5 DEF FilesInv, RowsRegistered
    <2>4. \A d \in Calls : call'[d].op = "delete request" => presence' = "deleted"
      <3>1. CASE t.op = "delete request"
        BY <3>1 DEF Begins
      <3>2. CASE t.op # "delete request"
        BY <1>1, <3>2 DEF Begins, FilesInv, RowsRegistered
      <3> QED
        BY <3>1, <3>2
    <2>5. \A d \in Calls : call'[d].op = "create" /\ call'[d].step = "copying"
                             => presence' = "absent"
      BY <1>1 DEF Begins, FilesInv, RowsRegistered
    <2>6. \A d, e \in Calls : call'[d].op = "create" /\ call'[e].op = "create" => d = e
      <3>1. CASE t.op = "create"
        BY <1>1, <3>1 DEF Begins
      <3>2. CASE t.op # "create"
        BY <1>1, <3>2 DEF FilesInv, RowsRegistered
      <3> QED
        BY <3>1, <3>2
    <2> QED
      BY <1>4, <2>1, <2>2, <2>3, <2>4, <2>5, <2>6 DEF RowsRegistered
  <1>8. FilesAtHome'
    <2>1. \A d \in Calls, p \in Paths, x \in Contents : <<p, x>> \in call'[d].hidden =>
            <<p, x>> \in call[d].hidden \/ share[p] = x
      BY <1>1, <1>5
    <2> QED
      BY <1>3, <1>4, <2>1, FilesStayAtHome
  <1>9. UploadsUndisturbed'
    <2> SUFFICES ASSUME NEW d \in Calls PROVE UploadUndisturbed(d)'
      BY DEF UploadsUndisturbed
    <2>1. UploadUndisturbed(d)
      BY DEF FilesInv, UploadsUndisturbed
    <2>2. CASE d = c
      BY <1>1, <1>5, <2>2 DEF UploadUndisturbed
    <2>3. CASE d # c
      BY <1>1, <1>4, <2>3, UploadStays DEF Begins
    <2> QED
      BY <2>2, <2>3
  <1>10. \A d \in Calls : Underway(d)' <=> (d = c \/ Underway(d))
    BY <1>1, <1>5 DEF Underway
  <1>11. ~Overlap => \A d \in Calls : Underway(d)' => d = c
    BY <1>10 DEF Begins, MayBegin
  <1>12. \A d \in Calls : Deleting(d)'
    <2> SUFFICES ASSUME NEW d \in Calls PROVE Deleting(d)'
      OBVIOUS
    <2>1. CASE d = c
      <3>1. call'[d] = t
        BY <1>1, <2>1
      <3>2. \A r \in t.target : Registered(r)' /\ r.owner = t.owner
        BY <1>3, <1>5, RowFacts, RegisteredStays DEF FilesInv
      <3>3. HiddenFrom(d)' = {}
        BY <1>5, <3>1 DEF HiddenFrom
      <3>4. t.step = "hiding" => t.target \subseteq rows'
        BY <1>5 DEF Begins, FileDeletions
      <3> QED
        BY <1>5, <3>1, <3>2, <3>3, <3>4 DEF Deleting, FileDeletions, Uploads
    <2>2. CASE d # c
      <3>1. call'[d] = call[d] /\ Deleting(d)
        BY <1>1, <2>2 DEF FilesInv, DeletionsSound
      <3>2. \A e \in Calls : HiddenFrom(e)' = IF e = c THEN {} ELSE HiddenFrom(e)
        BY <1>1, <1>5 DEF HiddenFrom
      <3>3. Underway(d) => \A e \in Calls \ {d} : Underway(e)' => HiddenFrom(d) \cap HiddenFrom(e)' = {}
        BY <1>10, <3>1, <3>2 DEF Deleting
      <3>4. ~Overlap /\ Underway(d) => FALSE
        BY <1>10, <1>11, <2>2
      <3> QED
        BY <1>3, <1>4, <3>1, <3>3, <3>4, DeletingStays DEF Deleting
    <2> QED
      BY <2>1, <2>2
  <1>13. DeletionsSound'
    BY <1>11, <1>12 DEF DeletionsSound
  <1>14. RowsFound'
    <2> SUFFICES ASSUME NEW r \in rows PROVE Found(r)'
      BY <1>4 DEF RowsFound
    <2>1. call[c].hidden = {}
      BY <1>2 DEF FilesInv, DeletionsSound, Deleting
    <2>2. \A d \in Calls : <<Home(r), r.content>> \in call[d].hidden =>
            <<Home(r), r.content>> \in call'[d].hidden
      BY <1>1, <2>1
    <2> QED
      BY <1>3, <1>4, <2>2, FoundStays
  <1> QED
    BY <1>6, <1>7, <1>8, <1>9, <1>13, <1>14 DEF FilesInv

\* A quotation is archived or restored, the project gets another name, or
\* nothing happens: the files do not move.
LEMMA NothingMoves ==
  ASSUME FilesInv, TypeOK', UNCHANGED <<presence, rows, share, call>>
  PROVE  FilesInv'
  <1>1. CopiesMade'
    BY CopiesStay DEF FilesInv, CopiesMade
  <1>2. RowsRegistered'
    BY DEF FilesInv, RowsRegistered, Registered
  <1>3. FilesAtHome'
    BY DEF FilesInv, FilesAtHome, AtHome, NamesOf
  <1>4. UploadsUndisturbed'
    BY DEF FilesInv, UploadsUndisturbed, UploadUndisturbed, PathFor
  <1>5. DeletionsSound'
    BY DEF FilesInv, DeletionsSound, Deleting, Underway, Registered, HiddenFrom
  <1>6. RowsFound'
    BY DEF FilesInv, RowsFound, Found, Home
  <1> QED
    BY <1>1, <1>2, <1>3, <1>4, <1>5, <1>6 DEF FilesInv

-----------------------------------------------------------------------------
(* Steps that touch the share, or commit.                                  *)

\* One call that is under way moves.
Moves(c, t) ==
    /\ Underway(c) /\ Becomes(c, t)
    /\ t \in CallStates /\ SameCall(t, call[c])
    /\ t.step # "idle"
    /\ t.op \in Uploads /\ t.step \in {"copying", "over"} =>
         call[c].step = "copying" /\ call[c].copied \subseteq t.copied

LEMMA MoveFacts ==
  ASSUME FilesInv, NEW c \in Calls, NEW t, Moves(c, t)
  PROVE  /\ call' \in [Calls -> CallStates] /\ call'[c] = t
         /\ \A d \in Calls \ {c} : call'[d] = call[d]
         /\ call[c].step \in {"copying", "hiding", "checked", "committed", "raised"}
         /\ Onward
         /\ \A d \in Calls : /\ call'[d].op = call[d].op
                             /\ call'[d].step = "idle" <=> call[d].step = "idle"
                             /\ Underway(d)' => Underway(d)
                             /\ \A n : PathFor(d, n)' = PathFor(d, n)
  <1>1. /\ call' \in [Calls -> CallStates] /\ call'[c] = t
        /\ \A d \in Calls \ {c} : call'[d] = call[d]
    BY CallIs DEF Moves, FilesInv, TypeOK
  <1>2. call[c].step \in {"copying", "hiding", "checked", "committed", "raised"}
    BY StateFields DEF Moves, Underway, FilesInv, TypeOK, AllSteps
  <1>3. Onward
    BY <1>1, <1>2 DEF Onward, Moves, SameCall
  <1>4. \A d \in Calls : /\ call'[d].op = call[d].op
                         /\ call'[d].owner = call[d].owner
                         /\ call'[d].folder = call[d].folder
                         /\ call'[d].step = "idle" <=> call[d].step = "idle"
                         /\ Underway(d)' => Underway(d)
    BY <1>1, <1>2 DEF Moves, SameCall, Underway
  <1>5. \A d \in Calls : \A n : PathFor(d, n)' = PathFor(d, n)
    BY <1>4 DEF PathFor
  <1> QED
    BY <1>1, <1>2, <1>3, <1>4, <1>5

\* An upload has nothing in quarantine.
LEMMA UploaderHides ==
  ASSUME FilesInv, NEW c \in Calls, NEW t, Moves(c, t), call[c].op \in Uploads,
         t.hidden = call[c].hidden, t.step \in {"copying", "over", "failed"}
  PROVE  Deleting(c)' /\ call[c].hidden = {} /\ HiddenFrom(c)' = {}
  <1>1. Deleting(c) /\ call'[c] = t /\ Onward
    BY MoveFacts DEF FilesInv, DeletionsSound
  <1>2. t.op \in Uploads /\ t.op \notin FileDeletions /\ t.hidden = {} /\ call[c].hidden = {}
        /\ t.target = call[c].target /\ t.owner = call[c].owner
    BY <1>1 DEF Moves, SameCall, Deleting, Uploads, FileDeletions
  <1>3. call[c].target \subseteq FileRows
    BY StateFields DEF FilesInv, TypeOK
  <1>4. \A r \in t.target : Registered(r)' /\ r.owner = t.owner
    BY <1>1, <1>2, <1>3, RegisteredStays DEF Deleting, FilesInv
  <1>5. HiddenFrom(c)' = {}
    BY <1>1, <1>2 DEF HiddenFrom
  <1> QED
    BY <1>1, <1>2, <1>4, <1>5 DEF Deleting

LEMMA CopiesUntouched ==
  ASSUME FilesInv, NEW c \in Calls, NEW t, Moves(c, t), t.left = call[c].left,
         t.name = call[c].name, t.copied = call[c].copied, t.step # "over"
  PROVE  CopiesMade'
  <1> SUFFICES ASSUME NEW d \in Calls PROVE CopiesSound(d)'
    BY DEF CopiesMade
  <1>1. CopiesSound(d)
    BY DEF FilesInv, CopiesMade
  <1>2. call'[c] = t /\ t.step # "idle" /\ t.owner = call[c].owner /\ t.folder = call[c].folder
    BY MoveFacts DEF Moves, SameCall
  <1>3. CASE d = c
    <2>1. \A s \in call'[d].copied : CopyMade(d, s)'
      BY <1>1, <1>2, <1>3 DEF CopiesSound, CopyMade, NamesOf
    <2> QED
      BY <1>1, <1>2, <1>3, <2>1 DEF CopiesSound, NamesOf
  <1>4. CASE d # c
    BY <1>1, <1>4, CopiesStay, MoveFacts
  <1> QED
    BY <1>3, <1>4

\* The name a call takes is one of its own, and free.
LEMMA NameChosen ==
  ASSUME FilesAssumption, FilesInv, NEW c \in Calls, ChooseName(c)
  PROVE  FilesInv'
  <1>1. PICK n \in Names : UniqueName(c, n) /\ Becomes(c, [call[c] EXCEPT !.name = n])
    BY DEF ChooseName
  <1> DEFINE t == [call[c] EXCEPT !.name = n]
  <1>2. call[c] \in CallStates
    BY DEF FilesInv, TypeOK
  <1>3. /\ t \in CallStates /\ SameCall(t, call[c]) /\ t.step = call[c].step
        /\ t.left = call[c].left /\ t.name = n /\ t.copied = call[c].copied
        /\ t.hidden = call[c].hidden
    BY <1>2, NewName
  <1>4. call[c].step = "copying" /\ call[c].left > 0 /\ call[c].name = Null
    BY DEF ChooseName
  <1>5. Becomes(c, t)
    BY <1>1
  <1> HIDE DEF t
  <1>6. Moves(c, t)
    BY <1>3, <1>4, <1>5 DEF Moves, Underway
  <1>7. /\ call' \in [Calls -> CallStates] /\ call'[c] = t
        /\ \A d \in Calls \ {c} : call'[d] = call[d]
        /\ Onward
        /\ \A d \in Calls : /\ call'[d].op = call[d].op
                            /\ call'[d].step = "idle" <=> call[d].step = "idle"
                            /\ Underway(d)' => Underway(d)
                            /\ \A m : PathFor(d, m)' = PathFor(d, m)
    BY <1>6, MoveFacts
  <1>8. share' = share /\ rows' = rows /\ presence' = presence
    BY DEF ChooseName
  <1>types. TypeOK'
    BY <1>7, <1>8 DEF ChooseName, FilesInv, TypeOK
  <1>9. n \in NamesOf(c) /\ share[PathFor(c, n)] = Null
    BY <1>1 DEF UniqueName, NamesOf
  <1>10. CopiesMade'
    <2> SUFFICES ASSUME NEW d \in Calls PROVE CopiesSound(d)'
      BY DEF CopiesMade
    <2>1. CopiesSound(d)
      BY DEF FilesInv, CopiesMade
    <2>2. CASE d = c
      <3>1. \A r \in call'[d].copied : CopyMade(d, r)'
        BY <1>3, <1>7, <2>1, <2>2 DEF CopiesSound, CopyMade, SameCall, NamesOf
      <3> QED
        BY <1>3, <1>4, <1>7, <1>9, <2>1, <2>2, <3>1 DEF CopiesSound, NamesOf
    <2>3. CASE d # c
      BY <1>7, <2>1, <2>3, CopiesStay
    <2> QED
      BY <2>2, <2>3
  <1>11. RowsRegistered'
    <2>1. presence' # "live" => rows' = {}
      BY <1>8 DEF FilesInv, RowsRegistered
    <2>2. \A d \in Calls : call'[d].step = call[d].step
      BY <1>3, <1>7
    <2>3. \A d \in Calls : call'[d].op = "create" /\ call'[d].step = "copying" => presence' = "absent"
      BY <1>7, <1>8, <2>2 DEF FilesInv, RowsRegistered
    <2> QED
      BY <1>7, <1>8, <2>1, <2>3, RowsStayRegistered
  <1>12. \A d \in Calls : call'[d].hidden = call[d].hidden
    BY <1>3, <1>7
  <1>13. FilesAtHome'
    BY <1>types, <1>7, <1>8, <1>12, FilesStayAtHome
  <1>14. UploadsUndisturbed'
    <2> SUFFICES ASSUME NEW d \in Calls PROVE UploadUndisturbed(d)'
      BY DEF UploadsUndisturbed
    <2>1. CASE d = c
      BY <1>3, <1>7, <1>8, <1>9, <2>1 DEF UploadUndisturbed, FilesInv, UploadsUndisturbed
    <2>2. CASE d # c
      BY <1>7, <1>8, <2>2, UploadStays
    <2> QED
      BY <2>1, <2>2
  <1>15. \A d \in Calls : Deleting(d)'
    <2> SUFFICES ASSUME NEW d \in Calls PROVE Deleting(d)'
      OBVIOUS
    <2>1. Deleting(d) /\ \A e \in Calls : HiddenFrom(e)' = HiddenFrom(e)
      BY <1>12 DEF FilesInv, DeletionsSound, HiddenFrom
    <2>2. CASE d = c
      BY <1>3, <1>4, <1>6, <2>1, <2>2, UploaderHides DEF Deleting
    <2>3. CASE d # c
      BY <1>7, <1>8, <2>1, <2>3, DeletingStays DEF Deleting
    <2> QED
      BY <2>2, <2>3
  <1>16. DeletionsSound'
    BY <1>7, <1>15 DEF FilesInv, DeletionsSound
  <1>17. RowsFound'
    <2> SUFFICES ASSUME NEW r \in rows PROVE Found(r)'
      BY <1>8 DEF RowsFound
    <2> QED
      BY <1>7, <1>8, <1>12, FoundStays
  <1> QED
    BY <1>types, <1>10, <1>11, <1>13, <1>14, <1>16, <1>17 DEF FilesInv

\* What another call is about to use, or hid, lies elsewhere than where c copies.
LEMMA FileCopied ==
  ASSUME FilesAssumption, Apart, FilesInv, NEW c \in Calls, CopyFile(c)
  PROVE  FilesInv'
  <1> DEFINE n == call[c].name
             p == PathFor(c, n)
             x == [call |-> c, file |-> call[c].left]
             new == [owner |-> call[c].owner, content |-> x,
                     folder |-> IF call[c].owner = "request" THEN 0 ELSE call[c].folder,
                     name |-> n]
             copied == call[c].copied \union {new}
             t == [call[c] EXCEPT !.left = @ - 1, !.name = Null,
                                  !.copied = @ \union {new}]
  <1>1. call[c] \in CallStates /\ call[c].step = "copying" /\ n # Null
    BY DEF FilesInv, TypeOK, CopyFile
  <1>2. /\ CopiesSound(c) /\ Deleting(c) /\ UploadUndisturbed(c)
        /\ n \in NamesOf(c) /\ n \in Names /\ call[c].left > 0
    BY <1>1, NamesTyped DEF FilesInv, CopiesMade, CopiesSound, DeletionsSound, UploadsUndisturbed
  <1>3. call[c].left \in 1 .. MaxCopies /\ call[c].left - 1 \in 0 .. MaxCopies
        /\ call[c].copied \in SUBSET FileRows /\ call[c].op \in Uploads
        /\ call[c].owner \in Owners /\ call[c].folder \in Projects /\ 0 \in Projects
    <2>1. /\ call[c].left \in 0 .. MaxCopies /\ call[c].copied \in SUBSET FileRows
          /\ call[c].owner \in Owners /\ call[c].folder \in Projects
      BY <1>1, StateFields
    <2>2. MaxCopies \in Nat /\ 0 \in Projects
      BY NullIsNoContent
    <2>3. call[c].left \in 1 .. MaxCopies /\ call[c].left - 1 \in 0 .. MaxCopies
      BY <1>2, <2>1, <2>2
    <2>4. call[c].op \in Uploads
      BY <1>1, <1>2 DEF Deleting
    <2> QED
      BY <2>1, <2>2, <2>3, <2>4
  <1>4. x \in Contents /\ new \in FileRows /\ copied \in SUBSET FileRows
    <2>1. x \in Contents
      BY <1>3 DEF Contents
    <2>2. new \in FileRows
      BY <1>2, <1>3, <2>1 DEF FileRows
    <2> QED
      BY <1>3, <2>1, <2>2
  <1>5. t = [call[c] EXCEPT !.left = call[c].left - 1, !.name = Null, !.copied = copied]
    OBVIOUS
  <1>6. /\ t \in CallStates /\ SameCall(t, call[c]) /\ t.step = call[c].step
        /\ t.left = call[c].left - 1 /\ t.name = Null /\ t.copied = copied
        /\ t.hidden = call[c].hidden
    <2> DEFINE left == call[c].left - 1
               u == [call[c] EXCEPT !.left = left, !.name = Null, !.copied = copied]
    <2>1. left \in 0 .. MaxCopies /\ copied \in SUBSET FileRows /\ t = u
      BY <1>3, <1>4, <1>5
    <2> HIDE DEF left, copied, t
    <2>2. /\ u \in CallStates /\ SameCall(u, call[c]) /\ u.step = call[c].step
          /\ u.left = left /\ u.name = Null /\ u.copied = copied
          /\ u.hidden = call[c].hidden
      <3>1. \A s \in CallStates :
              LET v == [s EXCEPT !.left = left, !.name = Null, !.copied = copied]
              IN  /\ v \in CallStates /\ SameCall(v, s) /\ v.step = s.step
                  /\ v.left = left /\ v.name = Null /\ v.copied = copied
                  /\ v.hidden = s.hidden
        BY <2>1 DEF CallStates, SameCall
      <3> QED
        BY <1>1, <3>1, Zenon
    <2> QED
      BY <2>1, <2>2 DEF left
  <1>7. /\ Becomes(c, t) /\ share' = [share EXCEPT ![p] = x]
        /\ rows' = rows /\ presence' = presence
    BY DEF CopyFile
  <1>8. /\ p \in Paths /\ p.name = n /\ p.project = call[c].folder
        /\ p.place = Place(call[c].owner)
    BY <1>2, PathForTyped DEF FilesInv
  <1>9. /\ new.content = x /\ new.name = n /\ new.owner = call[c].owner
        /\ new.folder = IF call[c].owner = "request" THEN 0 ELSE call[c].folder
        /\ x.call = c /\ x.file = call[c].left
        /\ call[c].copied \subseteq copied /\ new \in copied
        /\ \A r \in copied : r \in call[c].copied \/ r = new
    OBVIOUS
  <1> HIDE DEF t, copied, new, x, p
  <1>10. Moves(c, t)
    BY <1>1, <1>6, <1>7, <1>9 DEF Moves, Underway
  <1>11. /\ call' \in [Calls -> CallStates] /\ call'[c] = t
         /\ \A d \in Calls \ {c} : call'[d] = call[d]
         /\ Onward
         /\ \A d \in Calls : /\ call'[d].op = call[d].op
                             /\ call'[d].step = "idle" <=> call[d].step = "idle"
                             /\ Underway(d)' => Underway(d)
                             /\ \A m : PathFor(d, m)' = PathFor(d, m)
    BY <1>10, MoveFacts
  <1>12. share'[p] = x /\ \A q \in Paths : q # p => share'[q] = share[q]
    BY <1>7, <1>8 DEF FilesInv, TypeOK
  <1>types. TypeOK'
    BY <1>4, <1>7, <1>8, <1>11 DEF CopyFile, FilesInv, TypeOK
  <1>13. presence # "deleted" => share[p] = Null
    BY <1>1, <1>2 DEF UploadUndisturbed, p
  <1>14. x # Null
    BY <1>4, NullIsNoContent
  <1>15. SameCall(t, call[c])
    BY <1>6
  <1>16. CopiesMade'
    <2> SUFFICES ASSUME NEW d \in Calls PROVE CopiesSound(d)'
      BY DEF CopiesMade
    <2>1. CASE d = c
      <3>1. \A r \in call[c].copied : CopyMade(c, r) /\ r \in FileRows
        BY <1>2, <1>3 DEF CopiesSound
      <3>2. \A r \in call[c].copied : r.content.call = c /\ r.content.file > call[c].left
        BY <3>1 DEF CopyMade
      <3>3. \A r \in copied : CopyMade(c, r)'
        <4> SUFFICES ASSUME NEW r \in copied PROVE CopyMade(c, r)'
          OBVIOUS
        <4>1. CASE r \in call[c].copied
          <5>1. r.content.file \in 1 .. MaxCopies
            BY <3>1, <4>1, RowFields
          <5>2. r.content.file > t.left
            BY <1>3, <1>6, <3>2, <4>1, <5>1
          <5> QED
            BY <1>6, <1>11, <3>1, <4>1, <5>2 DEF CopyMade, SameCall, NamesOf
        <4>2. CASE r = new
          <5>1. r.content.file > t.left
            BY <1>3, <1>6, <1>9, <4>2
          <5> QED
            BY <1>2, <1>6, <1>9, <1>11, <4>2, <5>1 DEF CopyMade, SameCall, NamesOf
        <4> QED
          BY <1>9, <4>1, <4>2
      <3>4. \A r \in call[c].copied : r.content # x
        BY <1>3, <1>9, <3>1, <3>2, RowFields
      <3>5. \A r, s \in copied : r.content = s.content => r = s
        BY <1>2, <1>9, <3>4 DEF CopiesSound
      <3> QED
        BY <1>1, <1>6, <1>11, <2>1, <3>3, <3>5 DEF CopiesSound, NamesOf
    <2>2. CASE d # c
      BY <1>11, <2>2, CopiesStay DEF FilesInv, CopiesMade
    <2> QED
      BY <2>1, <2>2
  <1>17. RowsRegistered'
    <2>1. presence' # "live" => rows' = {}
      BY <1>7 DEF FilesInv, RowsRegistered
    <2>2. \A d \in Calls : call'[d].step = call[d].step
      BY <1>6, <1>11
    <2>3. \A d \in Calls : call'[d].op = "create" /\ call'[d].step = "copying" => presence' = "absent"
      BY <1>7, <1>11, <2>2 DEF FilesInv, RowsRegistered
    <2> QED
      BY <1>7, <1>11, <2>1, <2>3, RowsStayRegistered
  <1>18. FilesAtHome'
    <2>1. ASSUME NEW q \in Paths, NEW y \in Contents, q = p, y = x
          PROVE  AtHome(y, q)'
      <3>1. call'[c] = t /\ t.op = call[c].op /\ t.owner = call[c].owner
            /\ t.folder = call[c].folder
        BY <1>6, <1>11 DEF SameCall
      <3>2. \E r \in t.copied : r.content = y /\ r.name = q.name
        BY <1>6, <1>8, <1>9, <2>1
      <3>3. y.call = c /\ q.name \in NamesOf(c)
        BY <1>2, <1>8, <1>9, <2>1
      <3> QED
        BY <1>3, <1>8, <2>1, <3>1, <3>2, <3>3 DEF AtHome, NamesOf
    <2>2. \A d \in Calls : call'[d].hidden = call[d].hidden
      BY <1>6, <1>11
    <2>3. \A q \in Paths, y \in Contents : share'[q] = y => share[q] = y \/ (q = p /\ y = x)
      BY <1>12
    <2> QED
      BY <1>types, <1>11, <2>1, <2>2, <2>3, FilesStayAtHome
  <1>19. UploadsUndisturbed'
    <2> SUFFICES ASSUME NEW d \in Calls PROVE UploadUndisturbed(d)'
      BY DEF UploadsUndisturbed
    <2>1. UploadUndisturbed(d) /\ CopiesSound(d) /\ call[d].copied \subseteq FileRows
      BY StateFields DEF FilesInv, UploadsUndisturbed, CopiesMade, TypeOK
    <2>2. \A r \in call[d].copied :
             PathFor(d, r.name) \in Paths /\ r.content # Null
      BY <2>1, RowFields, PathForTyped, NullIsNoContent DEF FilesInv
    <2>3. presence # "deleted" /\ call[d].op \in Uploads /\ call[d].step \in {"copying", "raised"} =>
             \A r \in call[d].copied :
                share'[PathFor(d, r.name)] = share[PathFor(d, r.name)]
      BY <1>12, <1>13, <2>1, <2>2 DEF UploadUndisturbed
    <2>4. CASE d = c
      <3>1. \A r \in copied : presence # "deleted" => share'[PathFor(c, r.name)] = r.content
        BY <1>1, <1>3, <1>9, <1>12, <2>1, <2>3, <2>4 DEF UploadUndisturbed, p
      <3> QED
        BY <1>6, <1>7, <1>11, <2>4, <3>1 DEF UploadUndisturbed
    <2>5. CASE d # c
      <3>1. ASSUME call[d].step = "copying", call[d].name # Null
            PROVE  PathFor(d, call[d].name) # p /\ PathFor(d, call[d].name) \in Paths
        <4>1. Underway(c) /\ Underway(d)
          BY <1>1, <3>1 DEF Underway
        <4>2. NamesDiffer
          BY <2>5, <4>1, MeetingsDiffer
        <4>3. call[d].name \in NamesOf(d) /\ call[d].name \in Names
          BY <2>1, <3>1, NamesTyped DEF CopiesSound
        <4>4. call[d].name # n
          BY <1>2, <2>5, <4>2, <4>3 DEF NamesDiffer
        <4> QED
          BY <1>8, <4>3, <4>4, PathForTyped DEF FilesInv
      <3> QED
        BY <1>7, <1>11, <1>12, <2>3, <2>5, <3>1, UploadStays
    <2> QED
      BY <2>4, <2>5
  <1>20. \A d \in Calls : Deleting(d)'
    <2> SUFFICES ASSUME NEW d \in Calls PROVE Deleting(d)'
      OBVIOUS
    <2>1. CASE d = c
      BY <1>1, <1>3, <1>6, <1>10, <2>1, UploaderHides
    <2>2. CASE d # c
      <3>1. Deleting(d) /\ \A e \in Calls : HiddenFrom(e)' = HiddenFrom(e)
        BY <1>6, <1>11 DEF FilesInv, DeletionsSound, HiddenFrom
      <3>2. ASSUME Underway(d), NEW h \in call[d].hidden
            PROVE  share'[h[1]] = Null
        <4>1. /\ h[1] \in Paths /\ share[h[1]] = Null /\ AtHome(h[2], h[1])
              /\ h[2].call \in Calls /\ call[h[2].call].step = "over"
          BY <3>2, HiddenFacts
        <4>2. Underway(c)
          BY <1>1 DEF Underway
        <4>3. NamesDiffer
          BY <2>2, <3>2, <4>2, MeetingsDiffer
        <4>4. h[1].name \in NamesOf(h[2].call) /\ h[2].call # c
          BY <1>1, <4>1 DEF AtHome
        <4>5. h[1].name # n
          BY <1>2, <4>1, <4>3, <4>4 DEF NamesDiffer
        <4> QED
          BY <1>8, <1>12, <4>1, <4>5
      <3>3. Underway(d) => \A e \in Calls \ {d} : Underway(e)' => HiddenFrom(d) \cap HiddenFrom(e)' = {}
        BY <1>11, <3>1 DEF Deleting
      <3> QED
        BY <1>7, <1>11, <2>2, <3>1, <3>2, <3>3, DeletingStays DEF Deleting
    <2> QED
      BY <2>1, <2>2
  <1>21. DeletionsSound'
    BY <1>11, <1>20 DEF FilesInv, DeletionsSound
  <1>22. RowsFound'
    <2> SUFFICES ASSUME NEW r \in rows PROVE Found(r)'
      BY <1>7 DEF RowsFound
    <2>1. r \in FileRows /\ presence = "live" /\ r.content # Null /\ Home(r) \in Paths
      BY RowFacts, NullIsNoContent, HomeTyped DEF FilesInv
    <2>2. Found(r)
      BY DEF FilesInv, RowsFound
    <2>3. \A d \in Calls : call'[d].hidden = call[d].hidden
      BY <1>6, <1>11
    <2>5. CASE Home(r) # p
      BY <1>11, <1>12, <2>1, <2>3, <2>5, FoundStays
    <2>6. CASE Home(r) = p
      <3>1. PICK d \in Calls : <<Home(r), r.content>> \in call[d].hidden
        BY <1>13, <2>1, <2>2, <2>6 DEF Found
      <3>2. Registered(r)
        BY RowFacts
      <3>3. Home(r)' = Home(r)
        BY <1>11, <2>1, <3>2, RegisteredStays DEF FilesInv
      <3> QED
        BY <2>3, <3>1, <3>3 DEF Found
    <2> QED
      BY <2>5, <2>6
  <1> QED
    BY <1>types, <1>16, <1>17, <1>18, <1>19, <1>21, <1>22 DEF FilesInv

\* The rows of an upload are written while its copies lie where it put them.
LEMMA CopiesCommitted ==
  ASSUME FilesAssumption, ~LostAnswers, FilesInv, NEW c \in Calls, CommitCopies(c)
  PROVE  FilesInv'
  <1> DEFINE t == [call[c] EXCEPT !.step = "over"]
  <1>1. call[c] \in CallStates /\ call[c].step = "copying"
    BY DEF FilesInv, TypeOK, CommitCopies
  <1>2. /\ CopiesSound(c) /\ Deleting(c) /\ UploadUndisturbed(c)
        /\ call[c].op \in Uploads /\ call[c].copied \subseteq FileRows
    BY <1>1, StateFields DEF FilesInv, CopiesMade, DeletionsSound, Deleting, UploadsUndisturbed
  <1>3. /\ t \in CallStates /\ SameCall(t, call[c]) /\ t.step = "over"
        /\ t.left = call[c].left /\ t.name = call[c].name
        /\ t.copied = call[c].copied /\ t.hidden = call[c].hidden
    BY <1>1, NewStep DEF AllSteps
  <1>4. Becomes(c, t) /\ share' = share /\ rows' = rows \union call[c].copied
    BY DEF CommitCopies
  <1>5. /\ presence' = IF call[c].op = "create" THEN "live" ELSE presence
        /\ call[c].op = "create" => presence = "absent"
        /\ call[c].op # "create" => presence = "live"
    <2>1. call[c].op = "create" => presence = "absent"
      BY <1>1 DEF FilesInv, RowsRegistered
    <2>2. call[c].op # "create" => presence = "live"
      BY <1>2 DEF CommitCopies, Accepts, Uploads
    <2> QED
      BY <2>1, <2>2 DEF CommitCopies
  <1> HIDE DEF t
  <1>6. Moves(c, t)
    BY <1>1, <1>3, <1>4 DEF Moves, Underway
  <1>7. /\ call' \in [Calls -> CallStates] /\ call'[c] = t
        /\ \A d \in Calls \ {c} : call'[d] = call[d]
        /\ Onward
        /\ \A d \in Calls : /\ call'[d].op = call[d].op
                            /\ call'[d].step = "idle" <=> call[d].step = "idle"
                            /\ Underway(d)' => Underway(d)
                            /\ \A m : PathFor(d, m)' = PathFor(d, m)
    BY <1>6, MoveFacts
  <1>8. presence # "deleted" /\ presence' = "live"
    BY <1>5
  <1>types. TypeOK'
    <2>1. quotation' \in [Quotations -> {"absent", "active", "archived", "deleted"}]
      BY DEF CommitCopies, FilesInv, TypeOK
    <2> QED
      BY <1>2, <1>4, <1>7, <1>8, <2>1 DEF CommitCopies, FilesInv, TypeOK
  <1>9. \A r \in call[c].copied : share[PathFor(c, r.name)] = r.content
    BY <1>1, <1>2, <1>8 DEF UploadUndisturbed
  <1>10. \A r, s \in call[c].copied : r.name = s.name => r = s
    BY <1>2, <1>9 DEF CopiesSound
  <1>11. t.op = call[c].op /\ t.owner = call[c].owner /\ t.folder = call[c].folder
    BY <1>3 DEF SameCall
  <1>12. CopiesMade'
    <2> SUFFICES ASSUME NEW d \in Calls PROVE CopiesSound(d)'
      BY DEF CopiesMade
    <2>1. CASE d = c
      <3>1. \A r \in call'[d].copied : CopyMade(d, r)'
        BY <1>2, <1>3, <1>7, <1>11, <2>1 DEF CopiesSound, CopyMade, NamesOf
      <3> QED
        BY <1>2, <1>3, <1>7, <1>10, <2>1, <3>1 DEF CopiesSound, NamesOf
    <2>2. CASE d # c
      BY <1>7, <2>2, CopiesStay DEF FilesInv, CopiesMade
    <2> QED
      BY <2>1, <2>2
  <1>13. \A r \in call[c].copied : Registered(r)' /\ Home(r)' = PathFor(c, r.name) /\ r.content.call = c
    <2> SUFFICES ASSUME NEW r \in call[c].copied
                 PROVE  Registered(r)' /\ Home(r)' = PathFor(c, r.name) /\ r.content.call = c
      OBVIOUS
    <2>1. r.content.call = c /\ r.owner = call[c].owner
      BY <1>2 DEF CopiesSound, CopyMade
    <2> QED
      BY <1>2, <1>3, <1>7, <1>11, <2>1 DEF Registered, Home, PathFor
  <1>14. RowsRegistered'
    <2>1. \A d \in Calls : call'[d].op = "create" /\ call'[d].step = "copying" => presence' = "absent"
      <3> SUFFICES ASSUME NEW d \in Calls, call'[d].op = "create", call'[d].step = "copying"
                   PROVE  FALSE
        OBVIOUS
      <3>1. d # c /\ call[d].op = "create" /\ call[d].step = "copying"
        BY <1>3, <1>7
      <3>2. presence = "absent" /\ call[c].op # "create"
        BY <3>1 DEF FilesInv, RowsRegistered
      <3> QED
        BY <1>5, <3>2
    <2> QED
      BY <1>4, <1>7, <1>8, <1>13, <2>1, RowsStayRegistered
  <1>15. \A d \in Calls : call'[d].hidden = call[d].hidden
    BY <1>3, <1>7
  <1>16. FilesAtHome'
    BY <1>types, <1>4, <1>7, <1>15, FilesStayAtHome
  <1>17. UploadsUndisturbed'
    <2> SUFFICES ASSUME NEW d \in Calls PROVE UploadUndisturbed(d)'
      BY DEF UploadsUndisturbed
    <2>1. CASE d = c
      BY <1>3, <1>7, <2>1 DEF UploadUndisturbed
    <2>2. CASE d # c
      BY <1>4, <1>7, <1>8, <2>2, UploadStays
    <2> QED
      BY <2>1, <2>2
  <1>18. \A d \in Calls : Deleting(d)'
    <2> SUFFICES ASSUME NEW d \in Calls PROVE Deleting(d)'
      OBVIOUS
    <2>1. CASE d = c
      BY <1>2, <1>3, <1>6, <2>1, UploaderHides
    <2>2. CASE d # c
      <3>1. Deleting(d) /\ \A e \in Calls : HiddenFrom(e)' = HiddenFrom(e)
        BY <1>15 DEF FilesInv, DeletionsSound, HiddenFrom
      <3>2. ASSUME call[d].op \in FileDeletions, call[d].step = "committed",
                   NEW h \in call[d].hidden, NEW r \in rows'
            PROVE  r.content # h[2]
        <4>1. CASE r \in rows
          BY <3>1, <3>2, <4>1 DEF Deleting
        <4>2. CASE r \in call[c].copied
          <5>1. Underway(d)
            BY <3>2 DEF Underway
          <5>2. call[h[2].call].step = "over"
            BY <3>2, <5>1, HiddenFacts
          <5> QED
            BY <1>1, <1>13, <4>2, <5>2
        <4> QED
          BY <1>4, <3>2, <4>1, <4>2
      <3>3. Underway(d) => \A e \in Calls \ {d} : Underway(e)' => HiddenFrom(d) \cap HiddenFrom(e)' = {}
        BY <1>7, <3>1 DEF Deleting
      <3>4. Underway(d) => \A h \in call[d].hidden : share'[h[1]] = Null
        BY <1>4, <3>1 DEF Deleting
      <3> QED
        BY <1>4, <1>7, <2>2, <3>2, <3>3, <3>4, DeletingStays
    <2> QED
      BY <2>1, <2>2
  <1>19. DeletionsSound'
    BY <1>7, <1>18 DEF FilesInv, DeletionsSound
  <1>20. RowsFound'
    <2> SUFFICES ASSUME NEW r \in rows' PROVE Found(r)'
      BY DEF RowsFound
    <2>1. CASE r \in rows
      BY <1>4, <1>7, <1>15, <2>1, FoundStays
    <2>2. CASE r \in call[c].copied
      BY <1>4, <1>9, <1>13, <2>2 DEF Found
    <2> QED
      BY <1>4, <2>1, <2>2
  <1> QED
    BY <1>types, <1>12, <1>14, <1>16, <1>17, <1>19, <1>20 DEF FilesInv

\* A failed upload removes what lies under its names: its own files.
LEMMA CopiesCleanedUp ==
  ASSUME FilesAssumption, FilesInv, NEW c \in Calls, CleanUp(c)
  PROVE  FilesInv'
  <1> DEFINE t == [call[c] EXCEPT !.step = "failed"]
  <1>1. call[c] \in CallStates /\ call[c].step = "raised" /\ call[c].op \in Uploads
    BY DEF FilesInv, TypeOK, CleanUp
  <1>2. /\ CopiesSound(c) /\ Deleting(c) /\ UploadUndisturbed(c)
        /\ call[c].copied \subseteq FileRows
    BY <1>1, StateFields DEF FilesInv, CopiesMade, DeletionsSound, UploadsUndisturbed
  <1>3. /\ t \in CallStates /\ SameCall(t, call[c]) /\ t.step = "failed"
        /\ t.left = call[c].left /\ t.name = call[c].name
        /\ t.copied = call[c].copied /\ t.hidden = call[c].hidden
    BY <1>1, NewStep DEF AllSteps
  <1>4. Becomes(c, t) /\ rows' = rows /\ presence' = presence
    BY DEF CleanUp
  <1>5. \A p \in Paths : \/ share'[p] = share[p]
                         \/ share'[p] = Null /\ \E r \in call[c].copied : p = PathFor(c, r.name)
    BY DEF CleanUp
  <1> HIDE DEF t
  <1>6. Moves(c, t)
    BY <1>1, <1>3, <1>4 DEF Moves, Underway
  <1>7. /\ call' \in [Calls -> CallStates] /\ call'[c] = t
        /\ \A d \in Calls \ {c} : call'[d] = call[d]
        /\ Onward
        /\ \A d \in Calls : /\ call'[d].op = call[d].op
                            /\ call'[d].step = "idle" <=> call[d].step = "idle"
                            /\ Underway(d)' => Underway(d)
                            /\ \A m : PathFor(d, m)' = PathFor(d, m)
    BY <1>6, MoveFacts
  <1>8. \A d \in Calls : call'[d].hidden = call[d].hidden
    BY <1>3, <1>7
  <1>types. TypeOK'
    <2>1. share' \in [Paths -> Contents \union {Null}]
      BY DEF CleanUp, FilesInv, TypeOK
    <2> QED
      BY <1>4, <1>7, <2>1 DEF CleanUp, FilesInv, TypeOK
  \* Unless the request is deleted, only files of this call are removed.
  <1>9. ASSUME presence # "deleted", NEW p \in Paths, NEW x \in Contents, share[p] = x, x.call # c
        PROVE  share'[p] = x
    <2>1. ASSUME NEW r \in call[c].copied, p = PathFor(c, r.name) PROVE FALSE
      <3>1. share[p] = r.content /\ r.content.call = c
        BY <1>1, <1>2, <1>9, <2>1 DEF UploadUndisturbed, CopiesSound, CopyMade
      <3> QED
        BY <1>9, <3>1
    <2> QED
      BY <1>5, <1>9, <2>1
  <1>10. CopiesMade'
    BY <1>3, <1>6, CopiesUntouched
  <1>11. RowsRegistered'
    <2>1. \A d \in Calls : call'[d].op = "create" /\ call'[d].step = "copying" => presence' = "absent"
      BY <1>3, <1>4, <1>7 DEF FilesInv, RowsRegistered
    <2>2. presence' # "live" => rows' = {}
      BY <1>4 DEF FilesInv, RowsRegistered
    <2> QED
      BY <1>4, <1>7, <2>1, <2>2, RowsStayRegistered
  <1>12. FilesAtHome'
    <2>1. \A p \in Paths, x \in Contents : share'[p] = x => share[p] = x
      BY <1>5, NullIsNoContent
    <2> QED
      BY <1>types, <1>7, <1>8, <2>1, FilesStayAtHome
  <1>13. UploadsUndisturbed'
    <2> SUFFICES ASSUME NEW d \in Calls PROVE UploadUndisturbed(d)'
      BY DEF UploadsUndisturbed
    <2>1. CASE d = c
      BY <1>3, <1>7, <2>1 DEF UploadUndisturbed
    <2>2. CASE d # c
      <3>1. UploadUndisturbed(d) /\ CopiesSound(d) /\ call[d].copied \subseteq FileRows
        BY StateFields DEF FilesInv, UploadsUndisturbed, CopiesMade, TypeOK
      <3>2. presence # "deleted" /\ call[d].op \in Uploads /\ call[d].step \in {"copying", "raised"} =>
               \A r \in call[d].copied : share'[PathFor(d, r.name)] = share[PathFor(d, r.name)]
        <4> SUFFICES ASSUME presence # "deleted", call[d].op \in Uploads,
                            call[d].step \in {"copying", "raised"}, NEW r \in call[d].copied
                     PROVE  share'[PathFor(d, r.name)] = share[PathFor(d, r.name)]
          OBVIOUS
        <4>1. share[PathFor(d, r.name)] = r.content /\ r.content.call = d
          BY <3>1 DEF UploadUndisturbed, CopiesSound, CopyMade
        <4>2. r.content \in Contents /\ PathFor(d, r.name) \in Paths
          BY <3>1, RowFields, PathForTyped DEF FilesInv
        <4> QED
          BY <1>9, <2>2, <4>1, <4>2
      <3>3. presence # "deleted" /\ call[d].step = "copying" /\ call[d].name # Null =>
               share'[PathFor(d, call[d].name)] = share[PathFor(d, call[d].name)]
        <4> SUFFICES ASSUME presence # "deleted", call[d].step = "copying", call[d].name # Null
                     PROVE  share'[PathFor(d, call[d].name)] = share[PathFor(d, call[d].name)]
          OBVIOUS
        <4>1. call[d].name \in Names /\ PathFor(d, call[d].name) \in Paths
          BY <3>1, NamesTyped, PathForTyped DEF CopiesSound, FilesInv
        <4>2. share[PathFor(d, call[d].name)] = Null
          BY <3>1 DEF UploadUndisturbed
        <4> QED
          BY <1>5, <4>1, <4>2
      <3> QED
        BY <1>4, <1>7, <2>2, <3>2, <3>3, UploadStays
    <2> QED
      BY <2>1, <2>2
  <1>14. \A d \in Calls : Deleting(d)'
    <2> SUFFICES ASSUME NEW d \in Calls PROVE Deleting(d)'
      OBVIOUS
    <2>1. CASE d = c
      BY <1>1, <1>3, <1>6, <2>1, UploaderHides
    <2>2. CASE d # c
      <3>1. Deleting(d) /\ \A e \in Calls : HiddenFrom(e)' = HiddenFrom(e)
        BY <1>8 DEF FilesInv, DeletionsSound, HiddenFrom
      <3>2. Underway(d) => \A e \in Calls \ {d} : Underway(e)' => HiddenFrom(d) \cap HiddenFrom(e)' = {}
        BY <1>7, <3>1 DEF Deleting
      <3>3. Underway(d) => \A h \in call[d].hidden : share'[h[1]] = Null
        BY <1>5, HiddenFacts
      <3> QED
        BY <1>4, <1>7, <2>2, <3>1, <3>2, <3>3, DeletingStays DEF Deleting
    <2> QED
      BY <2>1, <2>2
  <1>15. DeletionsSound'
    BY <1>7, <1>14 DEF FilesInv, DeletionsSound
  <1>16. RowsFound'
    <2> SUFFICES ASSUME NEW r \in rows PROVE Found(r)'
      BY <1>4 DEF RowsFound
    <2>1. /\ r \in FileRows /\ presence = "live" /\ r.content \in Contents /\ Home(r) \in Paths
          /\ r.content.call # c
      BY <1>1, RowFacts, HomeTyped DEF FilesInv, Registered
    <2>2. Found(r)
      BY DEF FilesInv, RowsFound
    <2>3. CASE share[Home(r)] = r.content
      <3>1. share'[Home(r)] = share[Home(r)]
        BY <1>9, <2>1, <2>3
      <3> QED
        BY <1>7, <1>8, <3>1, FoundStays
    <2>4. CASE \E d \in Calls : <<Home(r), r.content>> \in call[d].hidden
      <3>1. Registered(r)
        BY RowFacts
      <3>2. Home(r)' = Home(r)
        BY <1>7, <2>1, <3>1, RegisteredStays DEF FilesInv
      <3> QED
        BY <1>8, <2>4, <3>2 DEF Found
    <2> QED
      BY <2>2, <2>3, <2>4 DEF Found
  <1> QED
    BY <1>types, <1>10, <1>11, <1>12, <1>13, <1>15, <1>16 DEF FilesInv

\* A deletion whose files stay hidden, or whose quarantine is emptied.
LEMMA DeleterKeeps ==
  ASSUME FilesInv, NEW c \in Calls, NEW t, Moves(c, t), call[c].op \in FileDeletions,
         t.step \in {"hiding", "committed", "failed"},
         t.step = "failed" => t.hidden = {},
         t.step # "failed" =>
           /\ \A h \in t.hidden : share'[h[1]] = Null /\ \E r \in t.target : r.content = h[2]
           /\ \A h, g \in t.hidden : h[1] = g[1] => h = g
           /\ \A d \in Calls \ {c} : Underway(d)' =>
                {h[1] : h \in t.hidden} \cap HiddenFrom(d)' = {},
         ~Overlap /\ t.step = "hiding" => t.target \subseteq rows',
         t.step = "committed" => \A h \in t.hidden : \A r \in rows' : r.content # h[2]
  PROVE  Deleting(c)'
  <1>1. Deleting(c) /\ call'[c] = t /\ Onward
    BY MoveFacts DEF FilesInv, DeletionsSound
  <1>2. t.op = call[c].op /\ t.target = call[c].target /\ t.owner = call[c].owner
    BY DEF Moves, SameCall
  <1>3. call[c].target \subseteq FileRows /\ t.op \notin Uploads
    BY <1>2, StateFields DEF FilesInv, TypeOK, Uploads, FileDeletions
  <1>4. \A r \in t.target : Registered(r)' /\ r.owner = t.owner
    BY <1>1, <1>2, <1>3, RegisteredStays DEF Deleting, FilesInv
  <1>5. HiddenFrom(c)' = {h[1] : h \in t.hidden}
    BY <1>1 DEF HiddenFrom
  <1>6. Underway(c)' => t.step # "failed"
    BY <1>1 DEF Underway
  <1>7. Underway(c)' => \A d \in Calls \ {c} : Underway(d)' => (HiddenFrom(c) \cap HiddenFrom(d))' = {}
    BY <1>5, <1>6
  <1> QED
    BY <1>1, <1>2, <1>3, <1>4, <1>6, <1>7 DEF Deleting

\* A deletion finds under the path of a row the file of that row.
LEMMA FileHidden ==
  ASSUME FilesAssumption, Apart, FilesInv, NEW c \in Calls,
         NEW r \in call[c].target, HideFile(c, r)
  PROVE  FilesInv'
  <1> DEFINE p == TargetPath(c, r)
             g == <<p, share[p]>>
             hidden == call[c].hidden \union {g}
             t == [call[c] EXCEPT !.hidden = @ \union {g}]
  <1>1. /\ call[c] \in CallStates /\ call[c].step = "hiding"
        /\ share[p] # Null /\ p \notin HiddenFrom(c)
    BY DEF FilesInv, TypeOK, HideFile
  <1>2. Deleting(c) /\ call[c].op \in FileDeletions /\ call[c].op \notin Uploads
    BY <1>1 DEF FilesInv, DeletionsSound, Deleting, Uploads, FileDeletions
  <1>3. r \in FileRows /\ Registered(r) /\ r.owner = call[c].owner
        /\ call[c].hidden \in SUBSET (Paths \X Contents) /\ call[c].folder \in Projects
    BY <1>1, <1>2, StateFields DEF Deleting
  <1>4. /\ p \in Paths /\ p.name = r.name /\ p.place = Place(r.owner)
        /\ p.project = IF r.owner = "request" THEN call[c].folder ELSE r.folder
    BY <1>3, RowFields DEF TargetPath, PathOf, Paths, Place
  <1>5. share[p] \in Contents
    BY <1>1, <1>4 DEF FilesInv, TypeOK
  <1>6. g[1] = p /\ g[2] = share[p] /\ g \in Paths \X Contents
        /\ hidden \in SUBSET (Paths \X Contents)
    BY <1>3, <1>4, <1>5
  <1>7. /\ Becomes(c, t) /\ share' = [share EXCEPT ![p] = Null]
        /\ rows' = rows /\ presence' = presence
    BY DEF HideFile
  <1>8. t = [call[c] EXCEPT !.hidden = hidden]
    OBVIOUS
  <1>9. /\ t \in CallStates /\ SameCall(t, call[c]) /\ t.step = call[c].step
        /\ t.left = call[c].left /\ t.name = call[c].name
        /\ t.copied = call[c].copied /\ t.hidden = hidden
    <2> HIDE DEF hidden, t
    <2>1. \A s \in CallStates :
            LET v == [s EXCEPT !.hidden = hidden]
            IN  /\ v \in CallStates /\ SameCall(v, s) /\ v.step = s.step
                /\ v.left = s.left /\ v.name = s.name /\ v.copied = s.copied
                /\ v.hidden = hidden
      BY <1>6 DEF CallStates, SameCall
    <2> QED
      BY <1>1, <1>8, <2>1, Zenon
  <1>10. /\ g \in hidden /\ call[c].hidden \subseteq hidden
         /\ \A h \in hidden : h \in call[c].hidden \/ h = g
    OBVIOUS
  <1> HIDE DEF t, hidden, g, p
  <1>11. Moves(c, t)
    BY <1>1, <1>2, <1>7, <1>9 DEF Moves, Underway, SameCall
  <1>12. /\ call' \in [Calls -> CallStates] /\ call'[c] = t
         /\ \A d \in Calls \ {c} : call'[d] = call[d]
         /\ Onward
         /\ \A d \in Calls : /\ call'[d].op = call[d].op
                             /\ call'[d].step = "idle" <=> call[d].step = "idle"
                             /\ Underway(d)' => Underway(d)
                             /\ \A m : PathFor(d, m)' = PathFor(d, m)
    BY <1>11, MoveFacts
  <1>13. share'[p] = Null /\ \A q \in Paths : q # p => share'[q] = share[q]
    BY <1>4, <1>7 DEF FilesInv, TypeOK
  <1>types. TypeOK'
    BY <1>7, <1>12 DEF HideFile, FilesInv, TypeOK
  \* What lies there is the file of r: its name is its upload's alone, or the
  \* row is still there and no other call has it.
  <1>14. share[p] = r.content
    <2>1. CASE NamesDiffer
      <3> DEFINE x == share[p]
      <3>1. AtHome(x, p) /\ x.call \in Calls
        BY <1>1, <1>4, <1>5 DEF FilesInv, FilesAtHome, Contents
      <3>2. /\ r.content.call \in Calls /\ call[r.content.call].step = "over"
            /\ call[r.content.call].op \in Uploads
            /\ r \in call[r.content.call].copied
        BY <1>3, RowFields DEF Registered
      <3>3. CopiesSound(r.content.call)
        BY <3>2 DEF FilesInv, CopiesMade
      <3>4. r.name \in NamesOf(r.content.call)
        BY <3>2, <3>3 DEF CopiesSound, CopyMade
      <3>5. x.call = r.content.call
        BY <1>4, <2>1, <3>1, <3>2, <3>4 DEF AtHome, NamesDiffer
      <3>6. PICK s \in call[x.call].copied : s.content = x /\ s.name = p.name
        BY <3>1, <3>2, <3>5 DEF AtHome
      <3>7. s = r
        BY <1>4, <3>2, <3>3, <3>5, <3>6 DEF CopiesSound
      <3> QED
        BY <3>6, <3>7
    <2>2. CASE ~Overlap /\ ~Crashes /\ MaxRenames = 0
      <3>1. r \in rows /\ Found(r)
        BY <1>1, <1>2, <2>2 DEF Deleting, FilesInv, RowsFound
      <3>2. Home(r) \in Paths /\ Home(r).name = r.name /\ Home(r).place = Place(r.owner)
            /\ Home(r).project = call[r.content.call].folder
        BY <1>3, HomeTyped DEF FilesInv
      <3>3. Home(r).project = p.project
        <4>1. \A i \in Projects : i = 0
          BY <2>2 DEF Projects
        <4> QED
          BY <1>4, <3>2, <4>1, PathFields
      <3>4. Home(r) = p
        BY <1>4, <3>2, <3>3, PathFields
      <3>5. ASSUME NEW d \in Calls, <<p, r.content>> \in call[d].hidden PROVE FALSE
        <4>1. Deleting(d) /\ call[d].step # "dead"
          BY <2>2 DEF FilesInv, DeletionsSound, Deleting
        <4>2. Underway(d) /\ Underway(c)
          BY <1>1, <3>5, <4>1 DEF Deleting, Underway
        <4>3. d = c
          BY <2>2, <4>2 DEF FilesInv, DeletionsSound
        <4> QED
          BY <1>1, <3>5, <4>3 DEF HiddenFrom
      <3> QED
        BY <3>1, <3>4, <3>5 DEF Found
    <2> QED
      BY <2>1, <2>2 DEF Apart
  <1>15. \A d \in Calls \ {c} : call'[d].hidden = call[d].hidden
    BY <1>12
  <1>16. CopiesMade'
    BY <1>1, <1>9, <1>11, CopiesUntouched
  <1>17. RowsRegistered'
    <2>1. \A d \in Calls : call'[d].op = "create" /\ call'[d].step = "copying" => presence' = "absent"
      BY <1>1, <1>7, <1>9, <1>12 DEF FilesInv, RowsRegistered
    <2>2. presence' # "live" => rows' = {}
      BY <1>7 DEF FilesInv, RowsRegistered
    <2> QED
      BY <1>7, <1>12, <2>1, <2>2, RowsStayRegistered
  <1>18. FilesAtHome'
    <2>1. \A q \in Paths, y \in Contents : share'[q] = y => share[q] = y
      BY <1>13, NullIsNoContent
    <2>2. \A d \in Calls, q \in Paths, y \in Contents : <<q, y>> \in call'[d].hidden =>
             <<q, y>> \in call[d].hidden \/ share[q] = y
      BY <1>9, <1>10, <1>12 DEF g
    <2> QED
      BY <1>types, <1>12, <2>1, <2>2, FilesStayAtHome
  <1>19. UploadsUndisturbed'
    <2> SUFFICES ASSUME NEW d \in Calls PROVE UploadUndisturbed(d)'
      BY DEF UploadsUndisturbed
    <2>1. CASE d = c
      BY <1>1, <1>2, <1>9, <1>12, <2>1 DEF UploadUndisturbed
    <2>2. CASE d # c
      <3>1. UploadUndisturbed(d) /\ CopiesSound(d) /\ call[d].copied \subseteq FileRows
        BY StateFields DEF FilesInv, UploadsUndisturbed, CopiesMade, TypeOK
      <3>2. presence # "deleted" /\ call[d].op \in Uploads /\ call[d].step \in {"copying", "raised"} =>
               \A s \in call[d].copied : share'[PathFor(d, s.name)] = share[PathFor(d, s.name)]
        <4> SUFFICES ASSUME presence # "deleted", call[d].op \in Uploads,
                            call[d].step \in {"copying", "raised"}, NEW s \in call[d].copied
                     PROVE  share'[PathFor(d, s.name)] = share[PathFor(d, s.name)]
          OBVIOUS
        <4>1. share[PathFor(d, s.name)] = s.content /\ s.content.call = d
          BY <3>1 DEF UploadUndisturbed, CopiesSound, CopyMade
        <4>2. PathFor(d, s.name) \in Paths
          BY <3>1, RowFields, PathForTyped DEF FilesInv
        <4>3. PathFor(d, s.name) # p
          BY <1>3, <1>14, <4>1 DEF Registered
        <4> QED
          BY <1>13, <4>2, <4>3
      <3>3. presence # "deleted" /\ call[d].step = "copying" /\ call[d].name # Null =>
               share'[PathFor(d, call[d].name)] = share[PathFor(d, call[d].name)]
        <4> SUFFICES ASSUME presence # "deleted", call[d].step = "copying", call[d].name # Null
                     PROVE  share'[PathFor(d, call[d].name)] = share[PathFor(d, call[d].name)]
          OBVIOUS
        <4>1. PathFor(d, call[d].name) \in Paths
          BY <3>1, NamesTyped, PathForTyped DEF CopiesSound, FilesInv
        <4>2. share[PathFor(d, call[d].name)] = Null
          BY <3>1 DEF UploadUndisturbed, FilesInv, DeletionsSound, Deleting
        <4> QED
          BY <1>13, <4>1, <4>2
      <3> QED
        BY <1>7, <1>12, <2>2, <3>2, <3>3, UploadStays
    <2> QED
      BY <2>1, <2>2
  <1>20. \A d \in Calls : Underway(d) => \A h \in call[d].hidden : share'[h[1]] = Null
    BY <1>13, HiddenFacts
  <1>21. \A d \in Calls \ {c} : Underway(d) => p \notin HiddenFrom(d)
    BY <1>1, HiddenFacts DEF HiddenFrom
  <1>22. HiddenFrom(c)' = HiddenFrom(c) \union {p} /\ {h[1] : h \in t.hidden} = HiddenFrom(c)'
    <2>1. {h[1] : h \in hidden} = {h[1] : h \in call[c].hidden} \union {p}
      BY <1>6, <1>10
    <2> QED
      BY <1>9, <1>12, <2>1 DEF HiddenFrom
  <1>23. \A d \in Calls \ {c} : HiddenFrom(d)' = HiddenFrom(d)
    BY <1>12 DEF HiddenFrom
  <1>24. Underway(c)
    BY <1>1 DEF Underway
  <1>25. \A d \in Calls \ {c} : Underway(d) => HiddenFrom(c)' \cap HiddenFrom(d)' = {}
    BY <1>2, <1>21, <1>22, <1>23, <1>24 DEF Deleting
  <1>26. \A d \in Calls : Deleting(d)'
    <2> SUFFICES ASSUME NEW d \in Calls PROVE Deleting(d)'
      OBVIOUS
    <2>1. CASE d = c
      <3>1. \A h \in t.hidden : share'[h[1]] = Null /\ \E s \in t.target : s.content = h[2]
        <4>1. \A h \in call[c].hidden : share'[h[1]] = Null /\ \E s \in call[c].target : s.content = h[2]
          BY <1>2, <1>20, <1>24 DEF Deleting
        <4>2. share'[g[1]] = Null /\ r \in call[c].target /\ r.content = g[2]
          BY <1>6, <1>13, <1>14
        <4>3. t.target = call[c].target
          BY <1>9 DEF SameCall
        <4> QED
          BY <1>9, <1>10, <4>1, <4>2, <4>3
      <3>2. \A h, k \in t.hidden : h[1] = k[1] => h = k
        <4>1. \A h \in call[c].hidden : h[1] # p
          BY <1>1 DEF HiddenFrom
        <4> QED
          BY <1>2, <1>6, <1>9, <1>10, <1>24, <4>1 DEF Deleting
      <3>3. \A e \in Calls \ {c} : Underway(e)' => {h[1] : h \in t.hidden} \cap HiddenFrom(e)' = {}
        BY <1>12, <1>22, <1>25
      <3>4. ~Overlap => t.target \subseteq rows'
        BY <1>1, <1>2, <1>7, <1>9 DEF Deleting, SameCall
      <3> QED
        BY <1>1, <1>2, <1>9, <1>11, <2>1, <3>1, <3>2, <3>3, <3>4, DeleterKeeps
    <2>2. CASE d # c
      <3>1. Deleting(d)
        BY DEF FilesInv, DeletionsSound
      <3>2. Underway(d) => \A e \in Calls \ {d} : Underway(e)' => HiddenFrom(d) \cap HiddenFrom(e)' = {}
        <4> SUFFICES ASSUME Underway(d), NEW e \in Calls \ {d}, Underway(e)'
                     PROVE  HiddenFrom(d) \cap HiddenFrom(e)' = {}
          OBVIOUS
        <4>1. CASE e = c
          BY <1>23, <1>25, <2>2, <4>1
        <4>2. CASE e # c
          BY <1>12, <1>23, <3>1, <4>2 DEF Deleting
        <4> QED
          BY <4>1, <4>2
      <3> QED
        BY <1>7, <1>12, <1>20, <2>2, <3>1, <3>2, DeletingStays DEF Deleting
    <2> QED
      BY <2>1, <2>2
  <1>27. DeletionsSound'
    BY <1>12, <1>26 DEF FilesInv, DeletionsSound
  <1>28. RowsFound'
    <2> SUFFICES ASSUME NEW s \in rows PROVE Found(s)'
      BY <1>7 DEF RowsFound
    <2>1. Home(s) \in Paths
      BY RowFacts, HomeTyped DEF FilesInv
    <2>2. \A d \in Calls : call[d].hidden \subseteq call'[d].hidden
      BY <1>9, <1>10, <1>12
    <2>3. CASE Home(s) = p
      <3>1. <<Home(s), share[Home(s)]>> \in call'[c].hidden
        BY <1>9, <1>10, <1>12, <2>3 DEF g
      <3> QED
        BY <1>12, <2>2, <3>1, FoundStays
    <2>4. CASE Home(s) # p
      BY <1>12, <1>13, <2>1, <2>2, <2>4, FoundStays
    <2> QED
      BY <2>3, <2>4
  <1> QED
    BY <1>types, <1>16, <1>17, <1>18, <1>19, <1>27, <1>28 DEF FilesInv

\* The DELETE takes the rows of everything that the call hid.
LEMMA DeletionCommitted ==
  ASSUME FilesAssumption, ~LostAnswers, FilesInv, NEW c \in Calls, CommitDeletion(c)
  PROVE  FilesInv'
  <1> DEFINE t == [call[c] EXCEPT !.step = "committed"]
  <1>1. call[c] \in CallStates /\ call[c].step = "checked"
    BY DEF FilesInv, TypeOK, CommitDeletion
  <1>2. Deleting(c) /\ call[c].op \in FileDeletions /\ call[c].op \notin Uploads
    BY <1>1 DEF FilesInv, DeletionsSound, Deleting, Uploads, FileDeletions
  <1>3. /\ t \in CallStates /\ SameCall(t, call[c]) /\ t.step = "committed"
        /\ t.left = call[c].left /\ t.name = call[c].name
        /\ t.copied = call[c].copied /\ t.hidden = call[c].hidden
    BY <1>1, NewStep DEF AllSteps
  <1>4. Becomes(c, t) /\ share' = share /\ presence' = presence
    BY DEF CommitDeletion
  <1>5. rows' \subseteq rows /\ \A r \in call[c].target : r.owner = call[c].owner => r \notin rows'
    BY DEF CommitDeletion
  <1> HIDE DEF t
  <1>6. Moves(c, t)
    BY <1>1, <1>2, <1>3, <1>4 DEF Moves, Underway, SameCall
  <1>7. /\ call' \in [Calls -> CallStates] /\ call'[c] = t
        /\ \A d \in Calls \ {c} : call'[d] = call[d]
        /\ Onward
        /\ \A d \in Calls : /\ call'[d].op = call[d].op
                            /\ call'[d].step = "idle" <=> call[d].step = "idle"
                            /\ Underway(d)' => Underway(d)
                            /\ \A m : PathFor(d, m)' = PathFor(d, m)
    BY <1>6, MoveFacts
  <1>8. \A d \in Calls : call'[d].hidden = call[d].hidden
    BY <1>3, <1>7
  <1>types. TypeOK'
    <2>1. quotation' \in [Quotations -> {"absent", "active", "archived", "deleted"}]
      BY DEF CommitDeletion, FilesInv, TypeOK
    <2> QED
      BY <1>4, <1>5, <1>7, <2>1 DEF CommitDeletion, FilesInv, TypeOK
  <1>9. \A d \in Calls : HiddenFrom(d)' = HiddenFrom(d) /\ Deleting(d)
    BY <1>8 DEF HiddenFrom, FilesInv, DeletionsSound
  <1>10. CopiesMade'
    BY <1>3, <1>6, CopiesUntouched
  <1>11. RowsRegistered'
    <2>1. \A d \in Calls : call'[d].op = "create" /\ call'[d].step = "copying" => presence' = "absent"
      BY <1>3, <1>4, <1>7 DEF FilesInv, RowsRegistered
    <2>2. presence' # "live" => rows' = {}
      BY <1>4, <1>5 DEF FilesInv, RowsRegistered
    <2> QED
      BY <1>4, <1>5, <1>7, <2>1, <2>2, RowsStayRegistered
  <1>12. FilesAtHome'
    BY <1>types, <1>4, <1>7, <1>8, FilesStayAtHome
  <1>13. UploadsUndisturbed'
    <2> SUFFICES ASSUME NEW d \in Calls PROVE UploadUndisturbed(d)'
      BY DEF UploadsUndisturbed
    <2>1. CASE d = c
      BY <1>3, <1>7, <2>1 DEF UploadUndisturbed
    <2>2. CASE d # c
      BY <1>4, <1>7, <2>2, UploadStays
    <2> QED
      BY <2>1, <2>2
  <1>14. Underway(c)
    BY <1>1 DEF Underway
  <1>15. Deleting(c)'
    <2>1. ASSUME NEW h \in t.hidden, NEW s \in rows' PROVE s.content # h[2]
      <3>1. h \in call[c].hidden /\ s \in rows
        BY <1>3, <1>5, <2>1
      <3>2. PICK r \in call[c].target :
               r \in FileRows /\ Registered(r) /\ r.owner = call[c].owner /\ r.content = h[2]
        BY <1>14, <3>1, HiddenFacts
      <3>3. s \in FileRows /\ Registered(s)
        BY <3>1, RowFacts
      <3> QED
        BY <1>5, <2>1, <3>2, <3>3, RowsApart
    <2>2. /\ \A h \in t.hidden : share'[h[1]] = Null /\ \E r \in t.target : r.content = h[2]
          /\ \A h, g \in t.hidden : h[1] = g[1] => h = g
      BY <1>2, <1>3, <1>4, <1>14 DEF Deleting, SameCall
    <2>3. \A d \in Calls \ {c} : Underway(d)' => {h[1] : h \in t.hidden} \cap HiddenFrom(d)' = {}
      BY <1>2, <1>3, <1>7, <1>9, <1>14 DEF Deleting, HiddenFrom
    <2> QED
      BY <1>2, <1>3, <1>6, <2>1, <2>2, <2>3, DeleterKeeps
  <1>16. \A d \in Calls \ {c} : Deleting(d)'
    <2> SUFFICES ASSUME NEW d \in Calls \ {c} PROVE Deleting(d)'
      OBVIOUS
    <2>1. Underway(d) => \A e \in Calls \ {d} : Underway(e)' => HiddenFrom(d) \cap HiddenFrom(e)' = {}
      BY <1>7, <1>9 DEF Deleting
    <2>2. ~Overlap => ~Underway(d)
      BY <1>14 DEF FilesInv, DeletionsSound
    <2>3. Underway(d) => \A h \in call[d].hidden : share'[h[1]] = Null
      BY <1>4, <1>9 DEF Deleting
    <2> QED
      BY <1>5, <1>7, <1>9, <2>1, <2>2, <2>3, DeletingStays DEF Deleting
  <1>17. DeletionsSound'
    BY <1>7, <1>15, <1>16 DEF FilesInv, DeletionsSound
  <1>18. RowsFound'
    BY <1>4, <1>5, <1>7, <1>8, FoundStays DEF RowsFound
  <1> QED
    BY <1>types, <1>10, <1>11, <1>12, <1>13, <1>17, <1>18 DEF FilesInv

\* What a refused deletion puts back goes to places that stayed free.
LEMMA HiddenRestored ==
  ASSUME FilesAssumption, Apart, FilesInv, NEW c \in Calls, RestoreHidden(c)
  PROVE  FilesInv'
  <1> DEFINE t == [call[c] EXCEPT !.step = "failed", !.hidden = {}]
  <1>1. /\ call[c] \in CallStates /\ call[c].step = "raised"
        /\ call[c].op \in FileDeletions /\ call[c].op \notin Uploads
    BY DEF FilesInv, TypeOK, RestoreHidden, Uploads, FileDeletions
  <1>2. /\ t \in CallStates /\ SameCall(t, call[c]) /\ t.step = "failed"
        /\ t.left = call[c].left /\ t.name = call[c].name
        /\ t.copied = call[c].copied /\ t.hidden = {}
    <2>1. \A s \in CallStates :
            LET v == [s EXCEPT !.step = "failed", !.hidden = {}]
            IN  /\ v \in CallStates /\ SameCall(v, s) /\ v.step = "failed"
                /\ v.left = s.left /\ v.name = s.name /\ v.copied = s.copied
                /\ v.hidden = {}
      BY DEF CallStates, SameCall
    <2> QED
      BY <1>1, <2>1, Zenon
  <1>3. Becomes(c, t) /\ rows' = rows /\ presence' = presence
    BY DEF RestoreHidden
  <1>4. Deleting(c) /\ Underway(c)
    BY <1>1 DEF FilesInv, DeletionsSound, Underway
  <1>5. \A p \in Paths : p \notin HiddenFrom(c) => share'[p] = share[p]
    BY DEF RestoreHidden, HiddenFrom
  <1>6. \A h \in call[c].hidden : share'[h[1]] = h[2]
    <2> SUFFICES ASSUME NEW h \in call[c].hidden PROVE share'[h[1]] = h[2]
      OBVIOUS
    <2>1. h[1] \in Paths
      BY <1>4, HiddenFacts
    <2>2. \A g \in call[c].hidden : g[1] = h[1] => g = h
      BY <1>4 DEF Deleting
    <2>3. (CHOOSE g \in call[c].hidden : g[1] = h[1]) = h
      BY <2>2
    <2> QED
      BY <2>1, <2>3 DEF RestoreHidden
  <1> HIDE DEF t
  <1>7. Moves(c, t)
    BY <1>1, <1>2, <1>3, <1>4 DEF Moves, SameCall
  <1>8. /\ call' \in [Calls -> CallStates] /\ call'[c] = t
        /\ \A d \in Calls \ {c} : call'[d] = call[d]
        /\ Onward
        /\ \A d \in Calls : /\ call'[d].op = call[d].op
                            /\ call'[d].step = "idle" <=> call[d].step = "idle"
                            /\ Underway(d)' => Underway(d)
                            /\ \A m : PathFor(d, m)' = PathFor(d, m)
    BY <1>7, MoveFacts
  <1>9. \A p \in HiddenFrom(c) : share[p] = Null /\ p \in Paths
    BY <1>4, HiddenFacts DEF HiddenFrom
  <1>types. TypeOK'
    <2>1. share' \in [Paths -> Contents \union {Null}]
      <3>1. \A p \in Paths : share'[p] \in Contents \union {Null}
        <4> SUFFICES ASSUME NEW p \in Paths PROVE share'[p] \in Contents \union {Null}
          OBVIOUS
        <4>1. CASE p \in HiddenFrom(c)
          <5>1. PICK h \in call[c].hidden : h[1] = p
            BY <4>1 DEF HiddenFrom
          <5> QED
            BY <1>4, <1>6, <5>1, HiddenFacts
        <4>2. CASE p \notin HiddenFrom(c)
          BY <1>5, <4>2 DEF FilesInv, TypeOK
        <4> QED
          BY <4>1, <4>2
      <3> QED
        BY <3>1 DEF RestoreHidden
    <2> QED
      BY <1>3, <1>8, <2>1 DEF RestoreHidden, FilesInv, TypeOK
  <1>10. \A p \in Paths : share[p] # Null => share'[p] = share[p]
    BY <1>5, <1>9
  <1>11. CopiesMade'
    BY <1>2, <1>7, CopiesUntouched
  <1>12. RowsRegistered'
    <2>1. \A d \in Calls : call'[d].op = "create" /\ call'[d].step = "copying" => presence' = "absent"
      BY <1>2, <1>3, <1>8 DEF FilesInv, RowsRegistered
    <2>2. presence' # "live" => rows' = {}
      BY <1>3 DEF FilesInv, RowsRegistered
    <2> QED
      BY <1>3, <1>8, <2>1, <2>2, RowsStayRegistered
  <1>13. FilesAtHome'
    <2>1. ASSUME NEW p \in Paths, NEW x \in Contents, share'[p] = x
          PROVE  share[p] = x \/ \E d \in Calls : <<p, x>> \in call[d].hidden
      <3>1. CASE p \in HiddenFrom(c)
        <4>1. PICK h \in call[c].hidden : h[1] = p
          BY <3>1 DEF HiddenFrom
        <4>2. h \in Paths \X Contents /\ h[2] = x
          BY <1>4, <1>6, <2>1, <4>1, HiddenFacts
        <4>3. h = <<p, x>>
          BY <4>1, <4>2
        <4> QED
          BY <4>3
      <3>2. CASE p \notin HiddenFrom(c)
        BY <1>5, <2>1, <3>2
      <3> QED
        BY <3>1, <3>2
    <2>2. \A d \in Calls : call'[d].hidden \subseteq call[d].hidden
      BY <1>2, <1>8
    <2> QED
      BY <1>types, <1>8, <2>1, <2>2, FilesStayAtHome
  <1>14. UploadsUndisturbed'
    <2> SUFFICES ASSUME NEW d \in Calls PROVE UploadUndisturbed(d)'
      BY DEF UploadsUndisturbed
    <2>1. CASE d = c
      BY <1>2, <1>8, <2>1 DEF UploadUndisturbed
    <2>2. CASE d # c
      <3>1. UploadUndisturbed(d) /\ CopiesSound(d) /\ call[d].copied \subseteq FileRows
        BY StateFields DEF FilesInv, UploadsUndisturbed, CopiesMade, TypeOK
      <3>2. presence # "deleted" /\ call[d].op \in Uploads /\ call[d].step \in {"copying", "raised"} =>
               \A r \in call[d].copied : share'[PathFor(d, r.name)] = share[PathFor(d, r.name)]
        <4>1. \A r \in call[d].copied : PathFor(d, r.name) \in Paths /\ r.content # Null
          BY <3>1, RowFields, PathForTyped, NullIsNoContent DEF FilesInv
        <4> QED
          BY <1>10, <3>1, <4>1 DEF UploadUndisturbed
      <3>3. ASSUME call[d].step = "copying", call[d].name # Null
            PROVE  share'[PathFor(d, call[d].name)] = share[PathFor(d, call[d].name)]
        <4> DEFINE q == PathFor(d, call[d].name)
        <4>1. /\ call[d].name \in Names /\ call[d].name \in NamesOf(d)
              /\ q \in Paths /\ q.name = call[d].name
          BY <3>1, <3>3, NamesTyped, PathForTyped DEF CopiesSound, FilesInv
        <4>2. Underway(d)
          BY <3>3 DEF Underway
        <4>3. NamesDiffer
          BY <1>4, <2>2, <4>2, MeetingsDiffer
        <4>4. ASSUME q \in HiddenFrom(c) PROVE FALSE
          <5>1. PICK h \in call[c].hidden : h[1] = q
            BY <4>4 DEF HiddenFrom
          <5>2. h[2].call \in Calls /\ call[h[2].call].step = "over" /\ AtHome(h[2], h[1])
            BY <1>4, HiddenFacts
          <5>3. q.name \in NamesOf(h[2].call) /\ h[2].call # d
            BY <3>3, <5>1, <5>2 DEF AtHome
          <5> QED
            BY <4>1, <4>3, <5>2, <5>3 DEF NamesDiffer
        <4> QED
          BY <1>5, <4>1, <4>4
      <3> QED
        BY <1>3, <1>8, <2>2, <3>2, <3>3, UploadStays
    <2> QED
      BY <2>1, <2>2
  <1>15. \A d \in Calls \ {c} : HiddenFrom(d)' = HiddenFrom(d) /\ call'[d].hidden = call[d].hidden
    BY <1>8 DEF HiddenFrom
  <1>16. Deleting(c)'
    BY <1>1, <1>2, <1>7, DeleterKeeps
  <1>17. \A d \in Calls \ {c} : Deleting(d)'
    <2> SUFFICES ASSUME NEW d \in Calls \ {c} PROVE Deleting(d)'
      OBVIOUS
    <2>1. Deleting(d)
      BY DEF FilesInv, DeletionsSound
    <2>2. ~Underway(c)'
      BY <1>2, <1>8 DEF Underway
    <2>3. Underway(d) => \A e \in Calls \ {d} : Underway(e)' => HiddenFrom(d) \cap HiddenFrom(e)' = {}
      BY <1>8, <1>15, <2>1, <2>2 DEF Deleting
    <2>4. ASSUME Underway(d), NEW h \in call[d].hidden PROVE share'[h[1]] = Null
      <3>1. h[1] \in Paths /\ share[h[1]] = Null
        BY <2>4, HiddenFacts
      <3>2. h[1] \in HiddenFrom(d)
        BY <2>4 DEF HiddenFrom
      <3>3. HiddenFrom(d) \cap HiddenFrom(c) = {}
        BY <1>4, <2>1, <2>4 DEF Deleting
      <3> QED
        BY <1>5, <3>1, <3>2, <3>3
    <2> QED
      BY <1>3, <1>8, <2>1, <2>3, <2>4, DeletingStays DEF Deleting
  <1>18. DeletionsSound'
    BY <1>8, <1>16, <1>17 DEF FilesInv, DeletionsSound
  <1>19. RowsFound'
    <2> SUFFICES ASSUME NEW r \in rows PROVE Found(r)'
      BY <1>3 DEF RowsFound
    <2>1. /\ r \in FileRows /\ r.content # Null /\ Home(r) \in Paths /\ Registered(r) /\ Found(r)
      BY RowFacts, HomeTyped, NullIsNoContent DEF FilesInv, RowsFound
    <2>2. Home(r)' = Home(r)
      BY <1>8, <2>1, RegisteredStays DEF FilesInv
    <2>3. CASE share[Home(r)] = r.content
      BY <1>10, <2>1, <2>2, <2>3 DEF Found
    <2>4. ASSUME NEW d \in Calls, <<Home(r), r.content>> \in call[d].hidden PROVE Found(r)'
      <3>1. CASE d = c
        <4> DEFINE h == <<Home(r), r.content>>
        <4>1. share'[h[1]] = h[2]
          BY <1>6, <2>4, <3>1
        <4> QED
          BY <2>2, <4>1 DEF Found
      <3>2. CASE d # c
        BY <1>15, <2>2, <2>4, <3>2 DEF Found
      <3> QED
        BY <3>1, <3>2
    <2> QED
      BY <2>1, <2>3, <2>4 DEF Found
  <1> QED
    BY <1>types, <1>11, <1>12, <1>13, <1>14, <1>18, <1>19 DEF FilesInv

\* With the folder of a deleted request nothing goes that a row stands for.
LEMMA FolderRemoved ==
  ASSUME FilesAssumption, FilesInv, NEW c \in Calls, RemoveFolder(c)
  PROVE  FilesInv'
  <1>1. /\ call[c].op = "delete request" /\ call[c].step = "committed"
        /\ rows' = rows /\ presence' = presence /\ presence = "deleted" /\ rows = {}
    BY DEF RemoveFolder, FilesInv, RowsRegistered
  <1>2. \A d \in Calls : call[d] \in CallStates
    BY DEF FilesInv, TypeOK
  <1>3. \A d \in Calls :
          /\ SameCall(call'[d], call[d])
          /\ call'[d].left = call[d].left /\ call'[d].name = call[d].name
          /\ call'[d].copied = call[d].copied /\ call'[d].hidden \subseteq call[d].hidden
          /\ call'[d].step = IF d = c THEN "over" ELSE call[d].step
    <2> SUFFICES ASSUME NEW d \in Calls
                 PROVE  /\ SameCall(call'[d], call[d])
                        /\ call'[d].left = call[d].left /\ call'[d].name = call[d].name
                        /\ call'[d].copied = call[d].copied
                        /\ call'[d].hidden \subseteq call[d].hidden
                        /\ call'[d].step = IF d = c THEN "over" ELSE call[d].step
      OBVIOUS
    <2>1. CASE d = c
      <3>1. call'[d] = [call[c] EXCEPT !.step = "over"]
        BY <2>1 DEF RemoveFolder
      <3>2. \A s \in CallStates :
              LET v == [s EXCEPT !.step = "over"]
              IN  /\ SameCall(v, s) /\ v.step = "over"
                  /\ v.left = s.left /\ v.name = s.name /\ v.copied = s.copied
                  /\ v.hidden = s.hidden
        BY DEF CallStates, SameCall
      <3>3. LET v == [call[c] EXCEPT !.step = "over"]
            IN  /\ SameCall(v, call[c]) /\ v.step = "over"
                /\ v.left = call[c].left /\ v.name = call[c].name /\ v.copied = call[c].copied
                /\ v.hidden = call[c].hidden
        BY <1>2, <3>2, Zenon
      <3> QED
        BY <2>1, <3>1, <3>3
    <2>2. CASE d # c
      <3> DEFINE left == {h \in call[d].hidden : h[1].project # call[c].folder}
      <3>1. call'[d] = [call[d] EXCEPT !.hidden = left]
        BY <2>2 DEF RemoveFolder
      <3>2. left \in SUBSET (Paths \X Contents) /\ left \subseteq call[d].hidden
        BY <1>2, StateFields
      <3> HIDE DEF left
      <3>3. \A s \in CallStates :
              LET v == [s EXCEPT !.hidden = left]
              IN  /\ SameCall(v, s) /\ v.step = s.step
                  /\ v.left = s.left /\ v.name = s.name /\ v.copied = s.copied
                  /\ v.hidden = left
        BY <3>2 DEF CallStates, SameCall
      <3>4. LET v == [call[d] EXCEPT !.hidden = left]
            IN  /\ SameCall(v, call[d]) /\ v.step = call[d].step
                /\ v.left = call[d].left /\ v.name = call[d].name /\ v.copied = call[d].copied
                /\ v.hidden = left
        BY <1>2, <3>3, Zenon
      <3> QED
        BY <2>2, <3>1, <3>2, <3>4
    <2> QED
      BY <2>1, <2>2
  <1>4. \A d \in Calls : /\ call'[d].op = call[d].op /\ call'[d].owner = call[d].owner
                         /\ call'[d].folder = call[d].folder
                         /\ call'[d].target = call[d].target
    BY <1>3 DEF SameCall
  <1>5. call[c].op \notin Uploads /\ call[c].op \notin FileDeletions
    BY <1>1 DEF Uploads, FileDeletions
  <1>6. Onward
    BY <1>1, <1>3, <1>4, <1>5 DEF Onward
  <1>7. \A p \in Paths : share'[p] \in {share[p], Null}
    BY DEF RemoveFolder
  <1>8. CopiesMade'
    <2> SUFFICES ASSUME NEW d \in Calls PROVE CopiesSound(d)'
      BY DEF CopiesMade
    <2>1. CopiesSound(d)
      BY DEF FilesInv, CopiesMade
    <2>2. \A s \in call'[d].copied : CopyMade(d, s)'
      BY <1>3, <1>4, <2>1 DEF CopiesSound, CopyMade, NamesOf
    <2> QED
      BY <1>1, <1>3, <1>4, <1>5, <2>1, <2>2 DEF CopiesSound, NamesOf
  <1>types. TypeOK'
    <2>1. call' \in [Calls -> CallStates]
      <3>1. \A e \in CallStates : \A left \in SUBSET (Paths \X Contents) :
              [e EXCEPT !.hidden = left] \in CallStates
        BY DEF CallStates
      <3>2. \A e \in CallStates : [e EXCEPT !.step = "over"] \in CallStates
        BY DEF CallStates
      <3>3. ASSUME NEW d \in Calls PROVE call'[d] \in CallStates
        <4>1. CASE d = c
          <5>1. call'[d] = [call[c] EXCEPT !.step = "over"]
            BY <4>1 DEF RemoveFolder
          <5> QED
            BY <1>2, <3>2, <5>1, Zenon
        <4>2. CASE d # c
          <5> DEFINE left == {h \in call[d].hidden : h[1].project # call[c].folder}
          <5>1. call'[d] = [call[d] EXCEPT !.hidden = left]
            BY <4>2 DEF RemoveFolder
          <5>2. left \in SUBSET (Paths \X Contents)
            BY <1>2, StateFields
          <5> HIDE DEF left
          <5> QED
            BY <1>2, <3>1, <5>1, <5>2, Zenon
        <4> QED
          BY <4>1, <4>2
      <3> QED
        BY <3>3 DEF RemoveFolder
    <2>2. share' \in [Paths -> Contents \union {Null}]
      BY DEF RemoveFolder, FilesInv, TypeOK
    <2> QED
      BY <1>1, <2>1, <2>2 DEF RemoveFolder, FilesInv, TypeOK
  <1>9. RowsRegistered'
    BY <1>1, <1>3, <1>4, <1>6, RowsStayRegistered DEF FilesInv, RowsRegistered
  <1>10. FilesAtHome'
    <2>1. \A p \in Paths, x \in Contents : share'[p] = x => share[p] = x
      BY <1>7, NullIsNoContent
    <2>2. \A d \in Calls : call'[d].hidden \subseteq call[d].hidden
      BY <1>3
    <2> QED
      BY <1>types, <1>6, <2>1, <2>2, FilesStayAtHome
  <1>11. UploadsUndisturbed'
    BY <1>1 DEF UploadsUndisturbed, UploadUndisturbed
  <1>12. \A d \in Calls : Underway(d)' => Underway(d) /\ d # c
    BY <1>3 DEF Underway
  <1>13. \A d \in Calls : Deleting(d)'
    <2> SUFFICES ASSUME NEW d \in Calls PROVE Deleting(d)'
      OBVIOUS
    <2>1. Deleting(d) /\ call[d].target \subseteq FileRows
      BY <1>2, StateFields DEF FilesInv, DeletionsSound
    <2>2. \A r \in call'[d].target : Registered(r)' /\ r.owner = call'[d].owner
      BY <1>4, <1>6, <2>1, RegisteredStays DEF Deleting, FilesInv
    <2>3. \A e \in Calls : HiddenFrom(e)' \subseteq HiddenFrom(e)
      BY <1>3 DEF HiddenFrom
    <2>4. Underway(d)' =>
            /\ \A h \in call'[d].hidden :
                 share'[h[1]] = Null /\ \E r \in call'[d].target : r.content = h[2]
            /\ \A h, g \in call'[d].hidden : h[1] = g[1] => h = g
      <3>1. ASSUME Underway(d), NEW h \in call[d].hidden PROVE share'[h[1]] = Null
        BY <1>7, <3>1, HiddenFacts
      <3> QED
        BY <1>3, <1>4, <1>12, <2>1, <3>1 DEF Deleting
    <2>5. Underway(d)' =>
            \A e \in Calls \ {d} : Underway(e)' => (HiddenFrom(d) \cap HiddenFrom(e))' = {}
      BY <1>12, <2>1, <2>3 DEF Deleting
    <2>6. call'[c].step = "over" /\ call[c].hidden = {}
      BY <1>1, <1>3, <1>5 DEF FilesInv, DeletionsSound, Deleting
    <2>7. CASE d = c
      BY <1>3, <1>4, <1>12, <2>2, <2>6, <2>7 DEF Deleting
    <2>8. CASE d # c
      <3>1. call'[d].step = call[d].step
        BY <1>3, <2>8
      <3> QED
        BY <1>1, <1>3, <1>4, <2>1, <2>2, <2>4, <2>5, <3>1 DEF Deleting
    <2> QED
      BY <2>7, <2>8
  <1>14. DeletionsSound'
    BY <1>12, <1>13 DEF FilesInv, DeletionsSound
  <1>15. RowsFound'
    BY <1>1 DEF RowsFound
  <1> QED
    BY <1>types, <1>8, <1>9, <1>10, <1>11, <1>14, <1>15 DEF FilesInv

-----------------------------------------------------------------------------
(* The invariant holds.                                                    *)

LEMMA IdleTyped ==
  ASSUME FilesAssumption
  PROVE  Idle \in CallStates
  BY DEF FilesAssumption, Idle, CallStates, Owners, Projects

LEMMA InitiallySound ==
  ASSUME FilesAssumption, Init
  PROVE  FilesInv
  <1>1. Idle \in CallStates
    BY IdleTyped
  <1>2. \A c \in Calls : call[c] = Idle
    BY DEF Init
  <1>3. /\ Idle.step = "idle" /\ Idle.op = "none" /\ Idle.name = Null
        /\ Idle.copied = {} /\ Idle.target = {} /\ Idle.hidden = {}
    BY DEF Idle
  <1>4. TypeOK
    BY <1>1, NullIsNoContent DEF Init, TypeOK
  <1>5. CopiesMade
    BY <1>2, <1>3 DEF CopiesMade, CopiesSound, Uploads
  <1>6. RowsRegistered
    BY <1>2, <1>3 DEF Init, RowsRegistered
  <1>7. FilesAtHome
    BY <1>2, <1>3 DEF Init, FilesAtHome
  <1>8. UploadsUndisturbed
    BY <1>2, <1>3 DEF UploadsUndisturbed, UploadUndisturbed
  <1>9. \A c \in Calls : ~Underway(c) /\ HiddenFrom(c) = {}
    BY <1>2, <1>3 DEF Underway, HiddenFrom
  <1>10. DeletionsSound
    BY <1>2, <1>3, <1>9 DEF DeletionsSound, Deleting, FileDeletions
  <1>11. RowsFound
    BY DEF Init, RowsFound
  <1> QED
    BY <1>4, <1>5, <1>6, <1>7, <1>8, <1>10, <1>11 DEF FilesInv

LEMMA BegunTyped ==
  ASSUME FilesAssumption, FilesInv, NEW c \in Calls, NEW t, Begins(c, t), project' = project,
         quotation' \in [Quotations -> {"absent", "active", "archived", "deleted"}]
  PROVE  FilesInv'
  <1>1. call' \in [Calls -> CallStates]
    BY CallIs DEF Begins, FilesInv, TypeOK
  <1>2. TypeOK'
    BY <1>1 DEF Begins, FilesInv, TypeOK
  <1> QED
    BY <1>2, Begun

\* An upload, as it begins.
Starts(t, op) ==
    /\ t \in CallStates /\ t.op = op /\ t.step = "copying" /\ t.name = Null
    /\ t.copied = {} /\ t.target = {} /\ t.hidden = {}

LEMMA UploadTyped ==
  ASSUME FilesAssumption, FilesInv, NEW op \in Uploads, NEW n \in 0 .. MaxCopies
  PROVE  /\ Starts([Idle EXCEPT !.op = op, !.step = "copying", !.left = n,
                                !.folder = project], op)
         /\ \A owner \in Owners :
              Starts([Idle EXCEPT !.op = op, !.owner = owner, !.step = "copying",
                                  !.left = n, !.folder = project], op)
  <1>1. project \in Projects /\ Idle \in CallStates
    BY IdleTyped DEF FilesInv, TypeOK
  <1>2. Idle.name = Null /\ Idle.copied = {} /\ Idle.target = {} /\ Idle.hidden = {}
    BY DEF Idle
  <1>3. \A s \in CallStates : s.name = Null /\ s.copied = {} /\ s.target = {} /\ s.hidden = {} =>
          Starts([s EXCEPT !.op = op, !.step = "copying", !.left = n, !.folder = project], op)
    BY <1>1 DEF CallStates, Starts
  <1>4. \A s \in CallStates : \A owner \in Owners :
          s.name = Null /\ s.copied = {} /\ s.target = {} /\ s.hidden = {} =>
          Starts([s EXCEPT !.op = op, !.owner = owner, !.step = "copying", !.left = n,
                           !.folder = project], op)
    BY <1>1 DEF CallStates, Starts
  <1> QED
    BY <1>1, <1>2, <1>3, <1>4, Zenon

LEMMA UploadBegun ==
  ASSUME FilesAssumption, FilesInv, NEW c \in Calls, NEW op \in Uploads, NEW t,
         Starts(t, op), MayBegin(c), Becomes(c, t),
         op = "create" => presence = "absent" /\ \A d \in Calls : call[d].op # "create",
         UNCHANGED <<presence, quotation, rows, share, project>>
  PROVE  FilesInv'
  <1>1. Begins(c, t)
    BY DEF Begins, Starts, Uploads, FileDeletions
  <1> QED
    BY <1>1, BegunTyped DEF FilesInv, TypeOK

\* A deletion, as it begins.
LEMMA DeletionBegun ==
  ASSUME FilesAssumption, FilesInv, NEW c \in Calls, NEW op \in FileDeletions,
         NEW owner \in Owners, NEW target \in SUBSET {r \in rows : r.owner = owner},
         BeginDeletion(c, op, owner, target)
  PROVE  FilesInv'
  <1> DEFINE t == [Idle EXCEPT !.op = op, !.owner = owner, !.step = "hiding",
                               !.folder = project, !.target = target]
  <1>1. project \in Projects /\ Idle \in CallStates /\ target \in SUBSET FileRows
    BY IdleTyped DEF FilesInv, TypeOK
  <1>2. Idle.name = Null /\ Idle.copied = {} /\ Idle.hidden = {}
    BY DEF Idle
  <1>3. \A s \in CallStates :
          LET v == [s EXCEPT !.op = op, !.owner = owner, !.step = "hiding",
                             !.folder = project, !.target = target]
          IN  /\ v \in CallStates /\ v.op = op /\ v.owner = owner /\ v.step = "hiding"
              /\ v.name = s.name /\ v.copied = s.copied /\ v.target = target
              /\ v.hidden = s.hidden
    BY <1>1 DEF CallStates
  <1>4. /\ t \in CallStates /\ t.op = op /\ t.owner = owner /\ t.step = "hiding"
        /\ t.name = Idle.name /\ t.copied = Idle.copied /\ t.target = target
        /\ t.hidden = Idle.hidden
    BY <1>1, <1>3, Zenon
  <1>5. /\ Becomes(c, t) /\ MayBegin(c)
        /\ UNCHANGED <<presence, quotation, rows, share, project>>
    BY DEF BeginDeletion
  <1> HIDE DEF t
  <1>6. Begins(c, t)
    BY <1>2, <1>4, <1>5 DEF Begins, Uploads, FileDeletions
  <1> QED
    BY <1>5, <1>6, BegunTyped DEF FilesInv, TypeOK

\* The deletion of the request, as it commits.
LEMMA RequestDeleted ==
  ASSUME FilesAssumption, ~LostAnswers, FilesInv, NEW c \in Calls, DeleteRequest(c)
  PROVE  FilesInv'
  <1> DEFINE t == [Idle EXCEPT !.op = "delete request", !.step = "committed",
                               !.folder = project]
  <1>1. project \in Projects /\ Idle \in CallStates
    BY IdleTyped DEF FilesInv, TypeOK
  <1>2. Idle.name = Null /\ Idle.copied = {} /\ Idle.target = {} /\ Idle.hidden = {}
    BY DEF Idle
  <1>3. \A s \in CallStates :
          LET v == [s EXCEPT !.op = "delete request", !.step = "committed", !.folder = project]
          IN  /\ v \in CallStates /\ v.op = "delete request" /\ v.step = "committed"
              /\ v.name = s.name /\ v.copied = s.copied /\ v.target = s.target
              /\ v.hidden = s.hidden
    BY <1>1 DEF CallStates
  <1>4. /\ t \in CallStates /\ t.op = "delete request" /\ t.step = "committed"
        /\ t.name = Idle.name /\ t.copied = Idle.copied /\ t.target = Idle.target
        /\ t.hidden = Idle.hidden
    BY <1>1, <1>3, Zenon
  <1>5. /\ Becomes(c, t) /\ MayBegin(c) /\ presence = "live" /\ presence' = "deleted"
        /\ rows' = {} /\ UNCHANGED <<share, project>>
        /\ quotation' = [q \in Quotations |->
                           IF quotation[q] = "absent" THEN "absent" ELSE "deleted"]
    BY DEF DeleteRequest
  <1> HIDE DEF t
  <1>6. Begins(c, t)
    BY <1>2, <1>4, <1>5 DEF Begins, Uploads, FileDeletions
  <1>7. quotation' \in [Quotations -> {"absent", "active", "archived", "deleted"}]
    BY <1>5
  <1> QED
    BY <1>5, <1>6, <1>7, BegunTyped

LEMMA BeginSound ==
  ASSUME FilesAssumption, ~LostAnswers, FilesInv, NEW c \in Calls, Begin(c)
  PROVE  FilesInv'
  <1>1. /\ "create" \in Uploads /\ "save" \in Uploads /\ "upload attachments" \in Uploads
        /\ "new quotation" \in Uploads /\ "upload files" \in Uploads
        /\ Quotations \subseteq Owners
    BY DEF Uploads, Owners
  <1>2. ASSUME NEW n \in 0 .. MaxCopies, BeginCreate(c, n) PROVE FilesInv'
    <2> DEFINE t == [Idle EXCEPT !.op = "create", !.step = "copying", !.left = n,
                                 !.folder = project]
    <2>1. Starts(t, "create")
      BY <1>1, UploadTyped, Zenon
    <2>2. /\ Becomes(c, t) /\ MayBegin(c) /\ presence = "absent"
          /\ \A d \in Calls : call[d].op # "create"
          /\ UNCHANGED <<presence, quotation, rows, share, project>>
      BY <1>2 DEF BeginCreate
    <2> HIDE DEF t
    <2> QED
      BY <1>1, <2>1, <2>2, UploadBegun
  <1>3. ASSUME NEW n \in 0 .. MaxCopies, NEW op \in {"save", "upload attachments"},
               BeginAttach(c, op, n)
        PROVE  FilesInv'
    <2> DEFINE t == [Idle EXCEPT !.op = op, !.step = "copying", !.left = n,
                                 !.folder = project]
    <2>1. op \in Uploads /\ op # "create"
      BY <1>1
    <2>2. Starts(t, op)
      BY <2>1, UploadTyped, Zenon
    <2>3. /\ Becomes(c, t) /\ MayBegin(c)
          /\ UNCHANGED <<presence, quotation, rows, share, project>>
      BY <1>3 DEF BeginAttach
    <2> HIDE DEF t
    <2> QED
      BY <2>1, <2>2, <2>3, UploadBegun
  <1>4. ASSUME NEW n \in 0 .. MaxCopies, NEW q \in Quotations,
               BeginQuotation(c, q, n) \/ BeginUpload(c, q, n)
        PROVE  FilesInv'
    <2> DEFINE t(op) == [Idle EXCEPT !.op = op, !.owner = q, !.step = "copying", !.left = n,
                                     !.folder = project]
    <2>1. PICK op \in {"new quotation", "upload files"} : Becomes(c, t(op))
      BY <1>4 DEF BeginQuotation, BeginUpload
    <2>2. op \in Uploads /\ op # "create" /\ q \in Owners
      BY <1>1
    <2>3. Starts(t(op), op)
      BY <2>2, UploadTyped, Zenon
    <2>4. MayBegin(c) /\ UNCHANGED <<presence, quotation, rows, share, project>>
      BY <1>4 DEF BeginQuotation, BeginUpload
    <2> HIDE DEF t
    <2> QED
      BY <2>1, <2>2, <2>3, <2>4, UploadBegun
  <1> QED
    BY <1>2, <1>3, <1>4, DeletionBegun, RequestDeleted DEF Begin

LEMMA MovesOnSound ==
  ASSUME FilesAssumption, FilesInv, NEW c \in Calls, NEW t, MovesOn(c, t),
         UNCHANGED <<quotation, project>>
  PROVE  FilesInv'
  <1>1. call' \in [Calls -> CallStates]
    BY CallIs DEF MovesOn, FilesInv, TypeOK
  <1>2. TypeOK'
    BY <1>1 DEF MovesOn, FilesInv, TypeOK
  <1> QED
    BY <1>2, MovedOn

\* The steps that change neither the share nor a row.
LEMMA CallsMoveOn ==
  ASSUME FilesAssumption, FilesInv, NEW c \in Calls,
         \/ CopyFails(c) \/ RefuseCopies(c) \/ CheckDeletion(c) \/ RefuseDeletion(c)
         \/ Purge(c) \/ PurgeFails(c) \/ RemoveFolderFails(c) \/ Crash(c)
  PROVE  FilesInv'
  <1>1. call[c] \in CallStates /\ call[c].hidden \in SUBSET (Paths \X Contents)
    BY StateFields DEF FilesInv, TypeOK
  \* Only the step changes.
  <1>2. ASSUME NEW step \in {"raised", "checked", "failed", "dead"},
               Underway(c), Becomes(c, [call[c] EXCEPT !.step = step]),
               step = "checked" => call[c].step = "hiding",
               step = "dead" => Crashes,
               step = "failed" => call[c].op = "delete request",
               UNCHANGED <<presence, quotation, rows, share, project>>
        PROVE  FilesInv'
    <2> DEFINE t == [call[c] EXCEPT !.step = step]
    <2>1. \A s \in CallStates :
            LET v == [s EXCEPT !.step = step]
            IN  /\ v \in CallStates /\ SameCall(v, s) /\ v.step = step
                /\ v.left = s.left /\ v.name = s.name
                /\ v.copied = s.copied /\ v.hidden = s.hidden
      BY DEF CallStates, SameCall
    <2>2. /\ t \in CallStates /\ SameCall(t, call[c]) /\ t.step = step
          /\ t.left = call[c].left /\ t.name = call[c].name
          /\ t.copied = call[c].copied /\ t.hidden = call[c].hidden
      BY <1>1, <2>1, Zenon
    <2>3. Becomes(c, t)
      BY <1>2
    <2> HIDE DEF t
    <2>4. MovesOn(c, t)
      BY <1>2, <2>2, <2>3 DEF MovesOn
    <2> QED
      BY <1>2, <2>4, MovesOnSound
  \* The quarantine shrinks.
  <1>3. ASSUME NEW step \in {"raised", "over"}, NEW left \in SUBSET call[c].hidden,
               call[c].op \in FileDeletions, call[c].step = "committed",
               step = "over" => left = {},
               Becomes(c, [call[c] EXCEPT !.step = step, !.hidden = left]),
               UNCHANGED <<presence, quotation, rows, share, project>>
        PROVE  FilesInv'
    <2> DEFINE t == [call[c] EXCEPT !.step = step, !.hidden = left]
    <2>1. left \in SUBSET (Paths \X Contents)
      BY <1>1
    <2>2. \A s \in CallStates :
            LET v == [s EXCEPT !.step = step, !.hidden = left]
            IN  /\ v \in CallStates /\ SameCall(v, s) /\ v.step = step
                /\ v.left = s.left /\ v.name = s.name
                /\ v.copied = s.copied /\ v.hidden = left
      BY <2>1 DEF CallStates, SameCall
    <2>3. /\ t \in CallStates /\ SameCall(t, call[c]) /\ t.step = step
          /\ t.left = call[c].left /\ t.name = call[c].name
          /\ t.copied = call[c].copied /\ t.hidden = left
      BY <1>1, <2>2, Zenon
    <2>4. Becomes(c, t)
      BY <1>3
    <2> HIDE DEF t
    <2>5. MovesOn(c, t)
      BY <1>3, <2>3, <2>4 DEF MovesOn, Underway
    <2> QED
      BY <1>3, <2>5, MovesOnSound
  <1>4. CASE CopyFails(c)
    <2> DEFINE t == [call[c] EXCEPT !.step = "raised", !.copied = {}]
    <2>1. \A s \in CallStates :
            LET v == [s EXCEPT !.step = "raised", !.copied = {}]
            IN  /\ v \in CallStates /\ SameCall(v, s) /\ v.step = "raised"
                /\ v.left = s.left /\ v.name = s.name
                /\ v.copied = {} /\ v.hidden = s.hidden
      BY DEF CallStates, SameCall
    <2>2. /\ t \in CallStates /\ SameCall(t, call[c]) /\ t.step = "raised"
          /\ t.left = call[c].left /\ t.name = call[c].name
          /\ t.copied = {} /\ t.hidden = call[c].hidden
      BY <1>1, <2>1, Zenon
    <2>3. /\ Becomes(c, t) /\ call[c].step = "copying"
          /\ UNCHANGED <<presence, quotation, rows, share, project>>
      BY <1>4 DEF CopyFails
    <2> HIDE DEF t
    <2>4. MovesOn(c, t)
      BY <2>2, <2>3 DEF MovesOn, Underway
    <2> QED
      BY <2>3, <2>4, MovesOnSound
  <1>5. CASE RefuseCopies(c)
    BY <1>2, <1>5 DEF RefuseCopies, Underway
  <1>6. CASE CheckDeletion(c)
    BY <1>2, <1>6 DEF CheckDeletion, Underway
  <1>7. CASE RefuseDeletion(c)
    BY <1>2, <1>7 DEF RefuseDeletion, Underway
  <1>8. CASE RemoveFolderFails(c)
    BY <1>2, <1>8 DEF RemoveFolderFails, Underway
  <1>9. CASE Crash(c)
    BY <1>2, <1>9 DEF Crash
  <1>10. CASE Purge(c)
    BY <1>3, <1>10 DEF Purge
  <1>11. CASE PurgeFails(c)
    BY <1>3, <1>11 DEF PurgeFails
  <1> QED
    BY <1>4, <1>5, <1>6, <1>7, <1>8, <1>9, <1>10, <1>11

LEMMA InvariantKept ==
  ASSUME FilesAssumption, ~LostAnswers, Apart, FilesInv, [Next]_vars
  PROVE  FilesInv'
  <1>1. ASSUME NEW c \in Calls, Begin(c) PROVE FilesInv'
    BY <1>1, BeginSound
  <1>2. ASSUME NEW c \in Calls,
               ChooseName(c) \/ CopyFile(c) \/ CommitCopies(c) \/ CleanUp(c)
        PROVE  FilesInv'
    BY <1>2, NameChosen, FileCopied, CopiesCommitted, CopiesCleanedUp
  <1>3. ASSUME NEW c \in Calls,
               \/ \E r \in call[c].target : HideFile(c, r)
               \/ CommitDeletion(c) \/ RestoreHidden(c) \/ RemoveFolder(c)
        PROVE  FilesInv'
    BY <1>3, FileHidden, DeletionCommitted, HiddenRestored, FolderRemoved
  <1>4. ASSUME NEW c \in Calls,
               \/ CopyFails(c) \/ RefuseCopies(c) \/ CheckDeletion(c) \/ RefuseDeletion(c)
               \/ Purge(c) \/ PurgeFails(c) \/ RemoveFolderFails(c) \/ Crash(c)
        PROVE  FilesInv'
    BY <1>4, CallsMoveOn
  <1>5. ASSUME NEW q \in Quotations, ToggleArchived(q) PROVE FilesInv'
    <2>1. /\ quotation' \in [Quotations -> {"absent", "active", "archived", "deleted"}]
          /\ UNCHANGED <<presence, rows, share, project, call>>
      BY <1>5 DEF ToggleArchived, FilesInv, TypeOK
    <2>2. TypeOK'
      BY <2>1 DEF FilesInv, TypeOK
    <2> QED
      BY <2>1, <2>2, NothingMoves
  <1>6. ASSUME RenameProject PROVE FilesInv'
    <2>1. MaxRenames \in Nat
      BY DEF FilesAssumption
    <2>2. project' \in Projects /\ UNCHANGED <<presence, quotation, rows, share, call>>
      BY <1>6, <2>1 DEF RenameProject, FilesInv, TypeOK, Projects
    <2>3. TypeOK'
      BY <2>2 DEF FilesInv, TypeOK
    <2> QED
      BY <2>2, <2>3, NothingMoves
  <1>7. ASSUME UNCHANGED vars PROVE FilesInv'
    <2>1. TypeOK'
      BY <1>7 DEF vars, FilesInv, TypeOK
    <2> QED
      BY <1>7, <2>1, NothingMoves DEF vars
  <1> QED
    BY <1>1, <1>2, <1>3, <1>4, <1>5, <1>6, <1>7 DEF Next

LEMMA InvariantHolds ==
  ASSUME FilesAssumption, ~LostAnswers, Apart
  PROVE  Spec => []FilesInv
  <1>1. Init => FilesInv
    BY InitiallySound
  <1>2. FilesInv /\ [Next]_vars => FilesInv'
    BY InvariantKept
  <1> QED
    BY <1>1, <1>2, PTL DEF Spec

-----------------------------------------------------------------------------
(* The theorems.                                                           *)

\* Rows, calls and the share stay what they are declared to be.
THEOREM FilesTypeCorrect ==
  ASSUME FilesAssumption, ~LostAnswers, Apart
  PROVE  Spec => []TypeOK
  <1>1. FilesInv => TypeOK
    BY DEF FilesInv
  <1> QED
    BY <1>1, InvariantHolds, PTL

\* What a committed row stands for is never lost, whatever overlaps, fails at
\* any step or dies (_quarantine_file, _restore_quarantined_file,
\* _cleanup_copied_files): for files of any number under names that calls do
\* not share, and for calls that do share names but come one after the other.
THEOREM RegisteredContentIsKept ==
  ASSUME FilesAssumption, ~LostAnswers, Apart
  PROVE  Spec => []ContentKept
  <1>1. FilesInv => ContentKept
    <2> SUFFICES ASSUME FilesInv, NEW r \in rows
                 PROVE  \/ \E p \in Paths : share[p] = r.content
                        \/ \E c \in Calls : \E h \in call[c].hidden : h[2] = r.content
      BY DEF ContentKept
    <2>1. Found(r) /\ Home(r) \in Paths
      BY RowFacts, HomeTyped DEF FilesInv, RowsFound
    <2> QED
      BY <2>1 DEF Found
  <1> QED
    BY <1>1, InvariantHolds, PTL

\* While no client dies and the project keeps its name, a registered file lies
\* where its row says unless a deletion of that row is under way.
THEOREM RegisteredFilesAreFound ==
  ASSUME FilesAssumption, ~LostAnswers, Apart, ~Crashes, MaxRenames = 0
  PROVE  Spec => []RowsHaveTheirFiles
  <1>1. FilesInv => RowsHaveTheirFiles
    <2> SUFFICES ASSUME FilesInv, NEW r \in rows
                 PROVE  BeingDeleted(r) \/ share[PathOf(r, project)] = r.content
      BY DEF RowsHaveTheirFiles
    <2>1. /\ r \in FileRows /\ Found(r) /\ Registered(r) /\ Home(r) \in Paths
          /\ Home(r).name = r.name /\ Home(r).place = Place(r.owner)
      BY RowFacts, HomeTyped DEF FilesInv, RowsFound
    <2>2. Home(r) = PathOf(r, project)
      <3>1. \A i \in Projects : i = 0
        BY DEF Projects
      <3>2. project = 0 /\ r.folder = 0 /\ Home(r).project = 0
        BY <2>1, <3>1, RowFields, PathFields DEF FilesInv, TypeOK
      <3> QED
        BY <2>1, <3>2 DEF Home, PathOf
    <2>3. ASSUME NEW c \in Calls, <<Home(r), r.content>> \in call[c].hidden
          PROVE  BeingDeleted(r)
      <3> DEFINE h == <<Home(r), r.content>>
      <3>1. Deleting(c)
        BY DEF FilesInv, DeletionsSound
      <3>2. Underway(c)
        BY <2>3, <3>1 DEF Deleting, Underway
      <3>3. PICK s \in call[c].target :
               s \in FileRows /\ Registered(s) /\ s.content = h[2]
        BY <2>3, <3>2, HiddenFacts
      <3>4. s = r
        BY <2>1, <3>3, RowsApart
      <3> QED
        BY <3>2, <3>3, <3>4 DEF BeingDeleted
    <2> QED
      BY <2>1, <2>2, <2>3 DEF Found
  <1> QED
    BY <1>1, InvariantHolds, PTL

-----------------------------------------------------------------------------
(* What remains on the share.                                              *)

\* The upload c is not over yet and has copied x to p.
Copied(c, p, x) ==
    /\ x.call = c /\ call[c].op \in Uploads /\ call[c].step \in {"copying", "raised"}
    /\ \/ \E r \in call[c].copied : r.content = x /\ PathFor(c, r.name) = p
       \/ call[c].step = "raised" /\ call[c].left > 0

\* A file is registered where it lies, a known leftover, one of the upload under
\* way, or in the folder that a deletion is about to remove.
Accounted(p, x) ==
    \/ \E r \in rows : r.content = x /\ PathOf(r, project) = p
    \/ KnownLeftover(x)
    \/ \E c \in Calls : Copied(c, p, x)
    \/ \E c \in Calls : call[c].op = "delete request" /\ call[c].step = "committed"
FilesAccounted ==
    \A p \in Paths, x \in Contents : share[p] = x => Accounted(p, x)

\* A hidden file is that of a row to be deleted, or accounted for otherwise.
HiddenAccounted(c, h) ==
    /\ share[h[1]] = Null
    /\ \/ \E r \in call[c].target : r.content = h[2]
       \/ \E r \in rows \ call[c].target : r.content = h[2] /\ PathOf(r, project) = h[1]
       \/ KnownLeftover(h[2])

\* A call copies for one owner, and deletes no row before its file is hidden.
Leaves(c) ==
    /\ \A r \in call[c].copied : r.content.call = c /\ r.owner = call[c].owner
    /\ call[c].name # Null => call[c].left > 0
    /\ Underway(c) =>
         /\ call[c].step = "copying" => call[c].op \in Uploads /\ call[c].hidden = {}
         /\ \A h \in call[c].hidden : HiddenAccounted(c, h)
         /\ call[c].step = "checked" =>
              \A r \in call[c].target : share[PathOf(r, project)] = Null
         /\ call[c].op = "delete quotation" /\ call[c].step \in {"hiding", "checked"} =>
              call[c].target = {r \in rows : r.owner = call[c].owner}
OneAtATime == \A c, d \in Calls : Underway(c) /\ Underway(d) => c = d

LeftInv == TypeOK /\ OneAtATime /\ (\A c \in Calls : Leaves(c)) /\ FilesAccounted

\* The hypotheses: one call after the other, none dies, one name of the project.
InTurn == ~Overlap /\ ~Crashes /\ MaxRenames = 0

-----------------------------------------------------------------------------
(* Types, whatever overlaps and whichever names.                           *)

\* One call moves and the rest keeps its types.
LEMMA MoveTyped ==
  ASSUME TypeOK, NEW c \in Calls, NEW t \in CallStates, Becomes(c, t),
         presence' \in {"absent", "live", "deleted"},
         quotation' \in [Quotations -> {"absent", "active", "archived", "deleted"}],
         rows' \subseteq FileRows, share' \in [Paths -> Contents \union {Null}],
         project' \in Projects
  PROVE  TypeOK'
  BY CallIs DEF TypeOK

LEMMA NewRaised ==
  ASSUME NEW s \in CallStates
  PROVE  LET new == [s EXCEPT !.step = "raised", !.copied = {}]
         IN  /\ new \in CallStates /\ new.step = "raised" /\ new.left = s.left
             /\ new.copied = {} /\ new.hidden = s.hidden /\ new.op = s.op
  BY DEF CallStates

LEMMA NewHidden ==
  ASSUME NEW s \in CallStates, NEW H \in SUBSET (Paths \X Contents)
  PROVE  [s EXCEPT !.hidden = H] \in CallStates
  BY DEF CallStates

LEMMA TypesStart ==
  ASSUME FilesAssumption, TypeOK, NEW c \in Calls, Begin(c)
  PROVE  TypeOK'
  <1>1. Idle \in CallStates /\ project \in Projects /\ MaxCopies \in Nat
    BY IdleTyped, NullIsNoContent DEF TypeOK
  <1>2. ASSUME NEW op \in Uploads, NEW owner \in Owners, NEW n \in 0 .. MaxCopies
        PROVE  [Idle EXCEPT !.op = op, !.owner = owner, !.step = "copying", !.left = n,
                            !.folder = project] \in CallStates
               /\ [Idle EXCEPT !.op = op, !.step = "copying", !.left = n,
                               !.folder = project] \in CallStates
    BY <1>1 DEF CallStates
  <1>3. ASSUME NEW op \in FileDeletions, NEW owner \in Owners, NEW target \in SUBSET rows
        PROVE  [Idle EXCEPT !.op = op, !.owner = owner, !.step = "hiding",
                            !.folder = project, !.target = target] \in CallStates
    BY <1>1 DEF CallStates, TypeOK
  <1>4. ASSUME NEW s \in {"committed", "failed"}
        PROVE  [Idle EXCEPT !.op = "delete request", !.step = s, !.folder = project] \in CallStates
    BY <1>1 DEF CallStates
  <1>5. CASE DeleteRequest(c)
    <2>1. PICK s \in {"committed", "failed"} :
            Becomes(c, [Idle EXCEPT !.op = "delete request", !.step = s, !.folder = project])
      BY <1>5 DEF DeleteRequest
    <2>2. /\ presence' \in {"absent", "live", "deleted"} /\ rows' \subseteq FileRows
          /\ quotation' \in [Quotations -> {"absent", "active", "archived", "deleted"}]
          /\ share' \in [Paths -> Contents \union {Null}] /\ project' \in Projects
      BY <1>5 DEF DeleteRequest, TypeOK
    <2> QED
      BY <1>4, <2>1, <2>2, MoveTyped
  <1>6. ASSUME NEW op \in FileDeletions, NEW owner \in Owners,
               NEW target \in SUBSET {r \in rows : r.owner = owner},
               BeginDeletion(c, op, owner, target)
        PROVE  TypeOK'
    <2>1. target \in SUBSET rows
      OBVIOUS
    <2>2. Becomes(c, [Idle EXCEPT !.op = op, !.owner = owner, !.step = "hiding",
                                  !.folder = project, !.target = target])
          /\ UNCHANGED <<presence, quotation, rows, share, project>>
      BY <1>6 DEF BeginDeletion
    <2> QED
      BY <1>3, <2>1, <2>2, MoveTyped DEF TypeOK
  <1>7. ASSUME NEW n \in 0 .. MaxCopies,
               \/ BeginCreate(c, n)
               \/ \E op \in {"save", "upload attachments"} : BeginAttach(c, op, n)
               \/ \E q \in Quotations : BeginQuotation(c, q, n) \/ BeginUpload(c, q, n)
        PROVE  TypeOK'
    <2>1. \E op \in Uploads, owner \in Owners :
            /\ \/ Becomes(c, [Idle EXCEPT !.op = op, !.step = "copying", !.left = n,
                                          !.folder = project])
               \/ Becomes(c, [Idle EXCEPT !.op = op, !.owner = owner, !.step = "copying",
                                          !.left = n, !.folder = project])
            /\ UNCHANGED <<presence, quotation, rows, share, project>>
      BY <1>7 DEF BeginCreate, BeginAttach, BeginQuotation, BeginUpload, Uploads, Owners
    <2> QED
      BY <1>2, <2>1, MoveTyped DEF TypeOK
  <1> QED
    BY <1>5, <1>6, <1>7 DEF Begin


-----------------------------------------------------------------------------
(* Steps of the only call under way.                                       *)

LEMMA KnownStays ==
  ASSUME \A d \in Calls : call[d].step = "failed" =>
           /\ call'[d].step = "failed" /\ call'[d].op = call[d].op
           /\ call'[d].left = call[d].left /\ call'[d].target = call[d].target,
         NEW x \in Contents, KnownLeftover(x)
  PROVE  KnownLeftover(x)'
  <1>1. x.call \in Calls
    BY DEF Contents
  <1>2. CASE call[x.call].step = "failed" /\ (call[x.call].op \in {"create", "save"} \/ call[x.call].left > 0)
    BY <1>1, <1>2 DEF KnownLeftover
  <1>3. ASSUME NEW d \in Calls, call[d].op \in FileDeletions, call[d].step = "failed",
               \E r \in call[d].target : r.content = x
        PROVE  KnownLeftover(x)'
    BY <1>3 DEF KnownLeftover
  <1>4. ASSUME NEW d \in Calls, call[d].op = "delete request", call[d].step = "failed"
        PROVE  KnownLeftover(x)'
    BY <1>4 DEF KnownLeftover
  <1> QED
    BY <1>2, <1>3, <1>4 DEF KnownLeftover

Alone(c) == \A d \in Calls : Underway(d) => d = c

LEMMA LeftMoved ==
  ASSUME LeftInv, NEW c \in Calls, Alone(c), NEW t \in CallStates, Becomes(c, t),
         Underway(c) \/ call[c].step = "idle", TypeOK', project' = project, Leaves(c)',
         \A p \in Paths, x \in Contents : share'[p] = x =>
            \/ \E r \in rows' : r.content = x /\ PathOf(r, project) = p
            \/ KnownLeftover(x) \/ KnownLeftover(x)'
            \/ Copied(c, p, x)'
            \/ t.op = "delete request" /\ t.step = "committed"
  PROVE  LeftInv'
  <1>1. /\ call' \in [Calls -> CallStates] /\ call'[c] = t
        /\ \A d \in Calls \ {c} : call'[d] = call[d]
    BY CallIs DEF LeftInv, TypeOK
  <1>2. \A d \in Calls \ {c} : ~Underway(d) /\ ~Underway(d)'
    BY <1>1 DEF Alone, Underway
  <1>3. OneAtATime'
    BY <1>2 DEF OneAtATime
  <1>4. ASSUME NEW d \in Calls \ {c}
        PROVE  Leaves(d)'
    <2>1. call'[d] = call[d] /\ ~Underway(d)' /\ Leaves(d)
      BY <1>1, <1>2 DEF LeftInv
    <2> QED
      BY <2>1 DEF Leaves
  <1>5. ASSUME NEW x \in Contents, KnownLeftover(x)
        PROVE  KnownLeftover(x)'
    <2>1. call[c].step # "failed"
      BY DEF Underway
    <2> QED
      BY <1>1, <1>5, <2>1, KnownStays
  <1>6. ASSUME NEW p \in Paths, NEW x \in Contents, share'[p] = x
        PROVE  Accounted(p, x)'
    <2>1. CASE \E r \in rows' : r.content = x /\ PathOf(r, project) = p
      BY <2>1 DEF Accounted
    <2>2. CASE KnownLeftover(x) \/ KnownLeftover(x)'
      BY <1>5, <2>2 DEF Accounted
    <2>3. CASE Copied(c, p, x)'
      BY <2>3 DEF Accounted
    <2>4. CASE t.op = "delete request" /\ t.step = "committed"
      BY <1>1, <2>4 DEF Accounted
    <2> QED
      BY <1>6, <2>1, <2>2, <2>3, <2>4
  <1>7. FilesAccounted'
    BY <1>6 DEF FilesAccounted
  <1>8. \A d \in Calls : Leaves(d)'
    BY <1>4
  <1> QED
    BY <1>3, <1>7, <1>8 DEF LeftInv

\* A file on the share: whose it may be while c is the only call under way.
LEMMA FileCases ==
  ASSUME LeftInv, NEW c \in Calls, Alone(c), NEW p \in Paths, NEW x \in Contents, share[p] = x,
         Null \notin Contents
  PROVE  \/ \E r \in rows : r.content = x /\ PathOf(r, project) = p
         \/ KnownLeftover(x)
         \/ Copied(c, p, x)
         \/ call[c].op = "delete request" /\ call[c].step = "committed"
  <1>1. Accounted(p, x)
    BY DEF LeftInv, FilesAccounted
  <1>2. ASSUME NEW d \in Calls, Copied(d, p, x)
        PROVE  Copied(c, p, x)
    <2>1. Underway(d)
      BY <1>2 DEF Copied, Underway
    <2> QED
      BY <1>2, <2>1 DEF Alone
  <1>3. ASSUME NEW d \in Calls, call[d].op = "delete request", call[d].step = "committed"
        PROVE  d = c
    BY <1>3 DEF Alone, Underway
  <1> QED
    BY <1>1, <1>2, <1>3 DEF Accounted

LEMMA IsAlone ==
  ASSUME LeftInv, NEW c \in Calls, Underway(c)
  PROVE  Alone(c)
  BY DEF LeftInv, OneAtATime, Alone

\* A call that only moves on to another step of itself.
Stepped(c, s, step) ==
    /\ Becomes(c, s) /\ call'[c] = s /\ s.step = step /\ SameCall(s, call[c])
    /\ s.left = call[c].left /\ s.name = call[c].name
    /\ s.copied = call[c].copied /\ s.hidden = call[c].hidden

LEMMA StepsOn ==
  ASSUME TypeOK, NEW c \in Calls, NEW step \in AllSteps,
         Becomes(c, [call[c] EXCEPT !.step = step])
  PROVE  \E s \in CallStates : Stepped(c, s, step)
  <1> DEFINE new == [call[c] EXCEPT !.step = step]
  <1>1. call[c] \in CallStates
    BY DEF TypeOK
  <1>2. /\ new \in CallStates /\ SameCall(new, call[c]) /\ new.step = step
        /\ new.left = call[c].left /\ new.name = call[c].name
        /\ new.copied = call[c].copied /\ new.hidden = call[c].hidden
    BY <1>1, NewStep
  <1>3. Becomes(c, new)
    OBVIOUS
  <1> HIDE DEF new
  <1>4. call'[c] = new
    BY <1>2, <1>3, CallIs DEF TypeOK
  <1> QED
    BY <1>2, <1>3, <1>4 DEF Stepped

LEMMA ChooseLeft ==
  ASSUME FilesAssumption, LeftInv, NEW c \in Calls, ChooseName(c)
  PROVE  LeftInv'
  <1> DEFINE t(n) == [call[c] EXCEPT !.name = n]
  <1>1. PICK n \in Names : Becomes(c, t(n))
    BY DEF ChooseName
  <1>2. call[c].step = "copying" /\ call[c].left > 0 /\ Underway(c)
        /\ UNCHANGED <<presence, quotation, rows, share, project>>
    BY DEF ChooseName, Underway
  <1>3. call[c] \in CallStates /\ Leaves(c) /\ Alone(c)
    BY <1>2, IsAlone DEF LeftInv, TypeOK
  <1>4. PICK s \in CallStates :
          /\ Becomes(c, s) /\ s.step = call[c].step /\ s.left = call[c].left
          /\ s.copied = call[c].copied /\ s.hidden = call[c].hidden /\ s.op = call[c].op
          /\ s.owner = call[c].owner /\ s.folder = call[c].folder /\ s.target = call[c].target
    BY <1>1, <1>3, NewName DEF SameCall
  <1>5. TypeOK'
    BY <1>2, <1>4, MoveTyped DEF LeftInv, TypeOK
  <1>6. call'[c] = s
    BY <1>4, CallIs DEF LeftInv, TypeOK
  <1>7. Leaves(c)'
    BY <1>2, <1>3, <1>4, <1>6 DEF Leaves, Underway
  <1>8. ASSUME NEW p \in Paths, NEW x \in Contents, share'[p] = x
        PROVE  \/ \E r \in rows' : r.content = x /\ PathOf(r, project) = p
               \/ KnownLeftover(x) \/ Copied(c, p, x)'
    <2>1. \/ \E r \in rows : r.content = x /\ PathOf(r, project) = p
          \/ KnownLeftover(x) \/ Copied(c, p, x)
      BY <1>2, <1>3, <1>8, FileCases, NullIsNoContent
    <2>2. Copied(c, p, x) => Copied(c, p, x)'
      BY <1>4, <1>6 DEF Copied, PathFor
    <2> QED
      BY <1>2, <2>1, <2>2
  <1> QED
    BY <1>2, <1>3, <1>4, <1>5, <1>7, <1>8, LeftMoved

LEMMA CopyLeft ==
  ASSUME FilesAssumption, LeftInv, NEW c \in Calls, CopyFile(c)
  PROVE  LeftInv'
  <1> DEFINE x0 == [call |-> c, file |-> call[c].left]
  <1> DEFINE r0 == [owner |-> call[c].owner, content |-> x0,
                    folder |-> IF call[c].owner = "request" THEN 0 ELSE call[c].folder,
                    name |-> call[c].name]
  <1> DEFINE p0 == PathFor(c, call[c].name)
  <1> DEFINE new == [call[c] EXCEPT !.left = @ - 1, !.name = Null, !.copied = @ \union {r0}]
  <1>1. /\ call[c].step = "copying" /\ call[c].name # Null /\ Underway(c)
        /\ share' = [share EXCEPT ![p0] = x0]
        /\ Becomes(c, new)
        /\ UNCHANGED <<presence, quotation, rows, project>>
    BY DEF CopyFile, Underway
  <1>2. TypeOK /\ Leaves(c) /\ Alone(c) /\ call[c] \in CallStates
    BY <1>1, IsAlone DEF LeftInv, TypeOK
  <1>3. call[c].name \in Names /\ call[c].left \in 0 .. MaxCopies /\ call[c].left > 0
    BY <1>1, <1>2, StateFields DEF Leaves
  <1>4. call[c].left \in 1 .. MaxCopies /\ call[c].left - 1 \in 0 .. MaxCopies
    BY <1>3, NullIsNoContent
  <1>5. x0 \in Contents /\ x0.call = c
    BY <1>4 DEF Contents
  <1>6. p0 \in Paths
    BY <1>2, <1>3, PathForTyped
  <1> HIDE DEF x0
  <1>7. r0 \in FileRows /\ r0.content = x0 /\ r0.owner = call[c].owner
        /\ r0.name = call[c].name
    BY <1>2, <1>3, <1>5, StateFields, NullIsNoContent DEF FileRows
  <1> HIDE DEF r0
  <1>8. PICK s \in CallStates :
          /\ Becomes(c, s) /\ SameCall(s, call[c]) /\ s.step = "copying" /\ s.name = Null
          /\ s.hidden = call[c].hidden /\ s.copied = call[c].copied \union {r0}
    <2>1. call[c].copied \union {r0} \in SUBSET FileRows
      BY <1>2, <1>7, StateFields
    <2>2. new \in CallStates
      BY <1>2, <1>4, <2>1 DEF CallStates
    <2>3. /\ SameCall(new, call[c]) /\ new.step = "copying" /\ new.name = Null
          /\ new.hidden = call[c].hidden /\ new.copied = call[c].copied \union {r0}
      BY <1>1, <1>2 DEF CallStates, SameCall
    <2> QED
      BY <1>1, <2>2, <2>3
  <1> HIDE DEF new
  <1>9. call'[c] = s
    BY <1>2, <1>8, CallIs DEF TypeOK
  <1>10. /\ share' \in [Paths -> Contents \union {Null}] /\ share'[p0] = x0
         /\ \A p \in Paths \ {p0} : share'[p] = share[p]
    BY <1>1, <1>2, <1>5, <1>6 DEF TypeOK
  <1>11. TypeOK'
    BY <1>1, <1>2, <1>8, <1>10, MoveTyped DEF TypeOK
  <1>12. Leaves(c)'
    BY <1>1, <1>2, <1>5, <1>7, <1>8, <1>9 DEF Leaves, Underway, SameCall
  <1>13. \A n : PathFor(c, n)' = PathFor(c, n)
    BY <1>8, <1>9 DEF PathFor, SameCall
  <1>14. ASSUME NEW p \in Paths, NEW x \in Contents, share'[p] = x
         PROVE  \/ \E r \in rows' : r.content = x /\ PathOf(r, project) = p
                \/ KnownLeftover(x) \/ Copied(c, p, x)'
    <2>1. CASE p = p0
      <3>1. x = x0
        BY <1>10, <1>14, <2>1
      <3>2. call'[c].op \in Uploads
        <4>1. call[c].op \in Uploads
          BY <1>1, <1>2 DEF Leaves
        <4> QED
          BY <1>8, <1>9, <4>1 DEF SameCall
      <3>3. PICK r \in call'[c].copied : r.content = x /\ PathFor(c, r.name) = p
        BY <1>7, <1>8, <1>9, <2>1, <3>1
      <3>4. PathFor(c, r.name)' = p
        BY <1>13, <3>3
      <3> QED
        BY <1>5, <1>8, <1>9, <3>1, <3>2, <3>3, <3>4 DEF Copied
    <2>2. CASE p # p0
      <3>1. share[p] = x
        BY <1>10, <1>14, <2>2
      <3>2. \/ \E r \in rows : r.content = x /\ PathOf(r, project) = p
            \/ KnownLeftover(x) \/ Copied(c, p, x)
        BY <1>1, <1>2, <3>1, FileCases, NullIsNoContent
      <3>3. Copied(c, p, x) => Copied(c, p, x)'
        BY <1>1, <1>8, <1>9, <1>13 DEF Copied, SameCall
      <3> QED
        BY <1>1, <3>2, <3>3
    <2> QED
      BY <2>1, <2>2
  <1> QED
    BY <1>1, <1>2, <1>8, <1>11, <1>12, <1>14, LeftMoved

LEMMA CopyFailsLeft ==
  ASSUME FilesAssumption, LeftInv, NEW c \in Calls, CopyFails(c)
  PROVE  LeftInv'
  <1>1. call[c].step = "copying" /\ call[c].left > 0 /\ Underway(c)
        /\ Becomes(c, [call[c] EXCEPT !.step = "raised", !.copied = {}])
        /\ UNCHANGED <<presence, quotation, rows, share, project>>
    BY DEF CopyFails, Underway
  <1>2. call[c] \in CallStates /\ Leaves(c) /\ Alone(c)
    BY <1>1, IsAlone DEF LeftInv, TypeOK
  <1>3. PICK s \in CallStates :
          /\ Becomes(c, s) /\ s.step = "raised" /\ s.left = call[c].left
          /\ s.copied = {} /\ s.hidden = call[c].hidden /\ s.op = call[c].op
    BY <1>1, <1>2, NewRaised
  <1>4. TypeOK'
    BY <1>1, <1>3, MoveTyped DEF LeftInv, TypeOK
  <1>5. call'[c] = s
    BY <1>3, CallIs DEF LeftInv, TypeOK
  <1>6. Leaves(c)'
    BY <1>1, <1>2, <1>3, <1>5 DEF Leaves, Underway
  <1>7. ASSUME NEW p \in Paths, NEW x \in Contents, share'[p] = x
        PROVE  \/ \E r \in rows' : r.content = x /\ PathOf(r, project) = p
               \/ KnownLeftover(x) \/ Copied(c, p, x)'
    <2>1. \/ \E r \in rows : r.content = x /\ PathOf(r, project) = p
          \/ KnownLeftover(x) \/ Copied(c, p, x)
      BY <1>1, <1>2, <1>7, FileCases, NullIsNoContent
    <2>2. Copied(c, p, x) => Copied(c, p, x)'
      BY <1>1, <1>3, <1>5 DEF Copied, PathFor
    <2> QED
      BY <1>1, <2>1, <2>2
  <1> QED
    BY <1>1, <1>2, <1>3, <1>4, <1>6, <1>7, LeftMoved

LEMMA RefuseCopiesLeft ==
  ASSUME FilesAssumption, LeftInv, NEW c \in Calls, RefuseCopies(c)
  PROVE  LeftInv'
  <1>1. call[c].step = "copying" /\ call[c].left = 0 /\ Underway(c)
        /\ Becomes(c, [call[c] EXCEPT !.step = "raised"])
        /\ UNCHANGED <<presence, quotation, rows, share, project>>
    BY DEF RefuseCopies, Underway
  <1>2. TypeOK /\ Leaves(c) /\ Alone(c)
    BY <1>1, IsAlone DEF LeftInv
  <1>3. PICK s \in CallStates : Stepped(c, s, "raised")
    BY <1>1, <1>2, StepsOn DEF AllSteps
  <1>4. TypeOK'
    BY <1>1, <1>2, <1>3, MoveTyped DEF TypeOK, Stepped
  <1>5. Leaves(c)'
    BY <1>1, <1>2, <1>3 DEF Leaves, Underway, Stepped, SameCall
  <1>6. ASSUME NEW p \in Paths, NEW x \in Contents, share'[p] = x
        PROVE  \/ \E r \in rows' : r.content = x /\ PathOf(r, project) = p
               \/ KnownLeftover(x) \/ Copied(c, p, x)'
    <2>1. \/ \E r \in rows : r.content = x /\ PathOf(r, project) = p
          \/ KnownLeftover(x) \/ Copied(c, p, x)
      BY <1>1, <1>2, <1>6, FileCases, NullIsNoContent
    <2>2. Copied(c, p, x) => Copied(c, p, x)'
      BY <1>1, <1>3 DEF Copied, PathFor, Stepped, SameCall
    <2> QED
      BY <1>1, <2>1, <2>2
  <1> QED
    BY <1>1, <1>2, <1>3, <1>4, <1>5, <1>6, LeftMoved DEF Stepped

\* The project keeps one name, so that every folder is the present one.
LEMMA OneFolder ==
  ASSUME TypeOK, MaxRenames = 0
  PROVE  /\ project = 0 /\ \A c \in Calls : call[c].folder = 0
         /\ \A r \in FileRows : r.folder = 0
         /\ \A c \in Calls, r \in FileRows : TargetPath(c, r) = PathOf(r, project)
  <1>1. Projects = {0}
    BY DEF Projects
  <1>2. project = 0 /\ (\A c \in Calls : call[c].folder = 0) /\ \A r \in FileRows : r.folder = 0
    BY <1>1, StateFields, RowFields DEF TypeOK
  <1> QED
    BY <1>2 DEF TargetPath

LEMMA CommitCopiesLeft ==
  ASSUME FilesAssumption, MaxRenames = 0, LeftInv, NEW c \in Calls, CommitCopies(c)
  PROVE  LeftInv'
  <1>1. call[c].step = "copying" /\ call[c].left = 0 /\ Underway(c)
        /\ rows' = rows \union call[c].copied
        /\ UNCHANGED <<share, project>>
    BY DEF CommitCopies, Underway
  <1>2. TypeOK /\ Leaves(c) /\ Alone(c)
    BY <1>1, IsAlone DEF LeftInv
  <1>3. PICK step \in {"over", "raised"} : Becomes(c, [call[c] EXCEPT !.step = step])
    BY DEF CommitCopies
  <1>4. PICK s \in CallStates : Stepped(c, s, step)
    BY <1>2, <1>3, StepsOn DEF AllSteps
  <1>5. TypeOK'
    <2>1. presence' \in {"absent", "live", "deleted"}
          /\ quotation' \in [Quotations -> {"absent", "active", "archived", "deleted"}]
      BY <1>2 DEF CommitCopies, TypeOK
    <2>2. rows' \subseteq FileRows /\ share' \in [Paths -> Contents \union {Null}]
          /\ project' \in Projects
      BY <1>1, <1>2, StateFields DEF TypeOK
    <2> QED
      BY <1>2, <1>4, <2>1, <2>2, MoveTyped DEF Stepped
  <1>6. Leaves(c)'
    BY <1>1, <1>2, <1>4 DEF Leaves, Underway, Stepped, SameCall
  <1>7. ASSUME NEW p \in Paths, NEW x \in Contents, share'[p] = x
        PROVE  \/ \E r \in rows' : r.content = x /\ PathOf(r, project) = p
               \/ KnownLeftover(x)
    <2>1. \/ \E r \in rows : r.content = x /\ PathOf(r, project) = p
          \/ KnownLeftover(x) \/ Copied(c, p, x)
      BY <1>1, <1>2, <1>7, FileCases, NullIsNoContent
    <2>2. ASSUME Copied(c, p, x)
          PROVE  \E r \in rows' : r.content = x /\ PathOf(r, project) = p
      <3>1. PICK r \in call[c].copied : r.content = x /\ PathFor(c, r.name) = p
        BY <1>1, <2>2 DEF Copied
      <3>2. r \in FileRows
        BY <1>2, StateFields DEF TypeOK
      <3>3. r.owner = call[c].owner
        BY <1>2 DEF Leaves
      <3>4. PathOf(r, project) = PathFor(c, r.name)
        BY <1>2, <3>2, <3>3, OneFolder DEF PathOf, PathFor
      <3> QED
        BY <1>1, <3>1, <3>4
    <2> QED
      BY <1>1, <2>1, <2>2
  <1> QED
    BY <1>1, <1>2, <1>4, <1>5, <1>6, <1>7, LeftMoved DEF Stepped

LEMMA CleanUpLeft ==
  ASSUME FilesAssumption, LeftInv, NEW c \in Calls, CleanUp(c)
  PROVE  LeftInv'
  <1>1. call[c].op \in Uploads /\ call[c].step = "raised" /\ Underway(c)
        /\ Becomes(c, [call[c] EXCEPT !.step = "failed"])
        /\ UNCHANGED <<presence, quotation, rows, project>>
    BY DEF CleanUp, Underway
  <1>2. TypeOK /\ Leaves(c) /\ Alone(c)
    BY <1>1, IsAlone DEF LeftInv
  <1>3. PICK s \in CallStates : Stepped(c, s, "failed")
    BY <1>1, <1>2, StepsOn DEF AllSteps
  <1>4. share' \in [Paths -> Contents \union {Null}]
    BY <1>2 DEF CleanUp, TypeOK
  <1>5. TypeOK'
    BY <1>1, <1>2, <1>3, <1>4, MoveTyped DEF TypeOK, Stepped
  <1>6. Leaves(c)'
    BY <1>2, <1>3 DEF Leaves, Underway, Stepped, SameCall
  <1>7. ASSUME NEW p \in Paths, NEW x \in Contents, share'[p] = x
        PROVE  \/ \E r \in rows' : r.content = x /\ PathOf(r, project) = p
               \/ KnownLeftover(x) \/ KnownLeftover(x)'
    <2>1. /\ share[p] = x
          /\ Compensated(c) => ~\E r \in call[c].copied : p = PathFor(c, r.name)
      BY <1>2, <1>7, NullIsNoContent DEF CleanUp, TypeOK
    <2>2. \/ \E r \in rows : r.content = x /\ PathOf(r, project) = p
          \/ KnownLeftover(x) \/ Copied(c, p, x)
      BY <1>1, <1>2, <2>1, FileCases, NullIsNoContent
    <2>3. ASSUME Copied(c, p, x)
          PROVE  KnownLeftover(x)'
      <3>1. x.call = c /\ (call[c].left > 0 \/ call[c].op \in {"create", "save"})
        BY <1>1, <2>1, <2>3 DEF Copied, Compensated
      <3> QED
        BY <1>3, <3>1 DEF KnownLeftover, Stepped, SameCall
    <2> QED
      BY <1>1, <2>2, <2>3
  <1> QED
    BY <1>1, <1>2, <1>3, <1>5, <1>6, <1>7, LeftMoved DEF Stepped

-----------------------------------------------------------------------------
(* Deletions.                                                              *)

\* What a call hid stays accounted for while its share, rows and target do.
LEMMA HiddenStays ==
  ASSUME LeftInv, NEW c \in Calls, Alone(c), Underway(c), TypeOK',
         NEW s \in CallStates, Becomes(c, s),
         s.target = call[c].target, UNCHANGED <<share, project>>,
         rows \ call[c].target \subseteq rows',
         NEW h \in Paths \X Contents, HiddenAccounted(c, h)
  PROVE  HiddenAccounted(c, h)'
  <1>1. call'[c] = s /\ \A d \in Calls \ {c} : call'[d] = call[d]
    BY CallIs DEF LeftInv, TypeOK
  <1>2. h[2] \in Contents
    OBVIOUS
  <1>3. KnownLeftover(h[2]) => KnownLeftover(h[2])'
    <2>1. call[c].step # "failed"
      BY DEF Underway
    <2> QED
      BY <1>1, <1>2, <2>1, KnownStays
  <1>4. \A r \in rows \ call[c].target : r \in rows' \ call'[c].target
    BY <1>1
  <1> QED
    BY <1>1, <1>3, <1>4 DEF HiddenAccounted

LEMMA CheckDeletionLeft ==
  ASSUME FilesAssumption, MaxRenames = 0, LeftInv, NEW c \in Calls, CheckDeletion(c)
  PROVE  LeftInv'
  <1>1. call[c].step = "hiding" /\ Underway(c)
        /\ Becomes(c, [call[c] EXCEPT !.step = "checked"])
        /\ UNCHANGED <<presence, quotation, rows, share, project>>
    BY DEF CheckDeletion, Underway
  <1>2. TypeOK /\ Leaves(c) /\ Alone(c)
    BY <1>1, IsAlone DEF LeftInv
  <1>3. PICK s \in CallStates : Stepped(c, s, "checked")
    BY <1>1, <1>2, StepsOn DEF AllSteps
  <1>4. TypeOK'
    BY <1>1, <1>2, <1>3, MoveTyped DEF TypeOK, Stepped
  <1>5. \A r \in call[c].target : share[PathOf(r, project)] = Null
    <2>1. TAKE r \in call[c].target
    <2>2. TargetPath(c, r) = PathOf(r, project)
      BY <1>2, OneFolder, StateFields DEF TypeOK
    <2>3. CASE TargetPath(c, r) \in HiddenFrom(c)
      BY <1>1, <1>2, <2>2, <2>3 DEF HiddenFrom, Leaves, HiddenAccounted
    <2> QED
      BY <2>2, <2>3 DEF CheckDeletion, AllHidden
  <1>6. ASSUME NEW h \in call[c].hidden
        PROVE  HiddenAccounted(c, h)'
    <2>1. h \in Paths \X Contents /\ HiddenAccounted(c, h)
      BY <1>1, <1>2, StateFields DEF TypeOK, Leaves
    <2> QED
      BY <1>1, <1>2, <1>3, <1>4, <2>1, HiddenStays DEF Stepped, SameCall
  <1>7. Leaves(c)'
    BY <1>1, <1>2, <1>3, <1>5, <1>6 DEF Leaves, Underway, Stepped, SameCall
  <1>8. ASSUME NEW p \in Paths, NEW x \in Contents, share'[p] = x
        PROVE  \/ \E r \in rows' : r.content = x /\ PathOf(r, project) = p
               \/ KnownLeftover(x)
    BY <1>1, <1>2, <1>8, FileCases, NullIsNoContent DEF Copied
  <1> QED
    BY <1>1, <1>2, <1>3, <1>4, <1>7, <1>8, LeftMoved DEF Stepped

LEMMA RefuseDeletionLeft ==
  ASSUME FilesAssumption, LeftInv, NEW c \in Calls, RefuseDeletion(c)
  PROVE  LeftInv'
  <1>1. call[c].step \in {"hiding", "checked"} /\ Underway(c)
        /\ Becomes(c, [call[c] EXCEPT !.step = "raised"])
        /\ UNCHANGED <<presence, quotation, rows, share, project>>
    BY DEF RefuseDeletion, Underway
  <1>2. TypeOK /\ Leaves(c) /\ Alone(c)
    BY <1>1, IsAlone DEF LeftInv
  <1>3. PICK s \in CallStates : Stepped(c, s, "raised")
    BY <1>1, <1>2, StepsOn DEF AllSteps
  <1>4. TypeOK'
    BY <1>1, <1>2, <1>3, MoveTyped DEF TypeOK, Stepped
  <1>5. ASSUME NEW h \in call[c].hidden
        PROVE  HiddenAccounted(c, h)'
    <2>1. h \in Paths \X Contents /\ HiddenAccounted(c, h)
      BY <1>1, <1>2, StateFields DEF TypeOK, Leaves
    <2> QED
      BY <1>1, <1>2, <1>3, <1>4, <2>1, HiddenStays DEF Stepped, SameCall
  <1>6. Leaves(c)'
    BY <1>1, <1>2, <1>3, <1>5 DEF Leaves, Underway, Stepped, SameCall
  <1>7. ASSUME NEW p \in Paths, NEW x \in Contents, share'[p] = x
        PROVE  \/ \E r \in rows' : r.content = x /\ PathOf(r, project) = p
               \/ KnownLeftover(x)
    BY <1>1, <1>2, <1>7, FileCases, NullIsNoContent DEF Copied
  <1> QED
    BY <1>1, <1>2, <1>3, <1>4, <1>6, <1>7, LeftMoved DEF Stepped

LEMMA CommitDeletionLeft ==
  ASSUME FilesAssumption, LeftInv, NEW c \in Calls, CommitDeletion(c)
  PROVE  LeftInv'
  <1>1. call[c].step = "checked" /\ Underway(c) /\ UNCHANGED <<presence, share, project>>
    BY DEF CommitDeletion, Underway
  <1>2. TypeOK /\ Leaves(c) /\ Alone(c)
    BY <1>1, IsAlone DEF LeftInv
  <1>3. PICK step \in {"committed", "raised"} : Becomes(c, [call[c] EXCEPT !.step = step])
    BY DEF CommitDeletion
  <1>4. PICK s \in CallStates : Stepped(c, s, step)
    BY <1>2, <1>3, StepsOn DEF AllSteps
  <1>5. rows' = rows \ call[c].target
    BY <1>1, <1>2 DEF CommitDeletion, Leaves
  <1>6. TypeOK'
    <2>1. quotation' \in [Quotations -> {"absent", "active", "archived", "deleted"}]
      BY <1>2 DEF CommitDeletion, TypeOK
    <2> QED
      BY <1>1, <1>2, <1>4, <1>5, <2>1, MoveTyped DEF TypeOK, Stepped
  <1>7. ASSUME NEW h \in call[c].hidden
        PROVE  HiddenAccounted(c, h)'
    <2>1. h \in Paths \X Contents /\ HiddenAccounted(c, h)
      BY <1>1, <1>2, StateFields DEF TypeOK, Leaves
    <2> QED
      BY <1>1, <1>2, <1>4, <1>5, <1>6, <2>1, HiddenStays DEF Stepped, SameCall
  <1>8. Leaves(c)'
    BY <1>1, <1>2, <1>4, <1>7 DEF Leaves, Underway, Stepped, SameCall
  <1>9. ASSUME NEW p \in Paths, NEW x \in Contents, share'[p] = x
        PROVE  \/ \E r \in rows' : r.content = x /\ PathOf(r, project) = p
               \/ KnownLeftover(x)
    <2>1. \/ \E r \in rows : r.content = x /\ PathOf(r, project) = p
          \/ KnownLeftover(x)
      BY <1>1, <1>2, <1>9, FileCases, NullIsNoContent DEF Copied
    <2>2. \A r \in call[c].target : share[PathOf(r, project)] = Null
      BY <1>1, <1>2 DEF Leaves
    <2> QED
      BY <1>1, <1>5, <1>9, <2>1, <2>2, NullIsNoContent
  <1> QED
    BY <1>1, <1>2, <1>4, <1>6, <1>8, <1>9, LeftMoved DEF Stepped

LEMMA HideLeft ==
  ASSUME FilesAssumption, MaxRenames = 0, LeftInv, NEW c \in Calls,
         NEW r \in call[c].target, HideFile(c, r)
  PROVE  LeftInv'
  <1> DEFINE p0 == TargetPath(c, r)
  <1> DEFINE new == [call[c] EXCEPT !.hidden = @ \union {<<p0, share[p0]>>}]
  <1>1. /\ call[c].step = "hiding" /\ Underway(c)
        /\ UNCHANGED <<presence, quotation, rows, project>>
        /\ share[p0] # Null /\ share' = [share EXCEPT ![p0] = Null]
        /\ Becomes(c, new)
    BY DEF HideFile, Underway
  <1>2. TypeOK /\ Leaves(c) /\ Alone(c) /\ call[c] \in CallStates
    BY <1>1, IsAlone DEF LeftInv, TypeOK
  <1>3. p0 \in Paths
    <2>1. r \in FileRows
      BY <1>2, StateFields
    <2>2. Place(r.owner) \in {"attachments", "supplier"} /\ r.name \in Names
          /\ r.folder \in Projects /\ call[c].folder \in Projects
      BY <1>2, <2>1, RowFields, StateFields DEF Place
    <2> QED
      BY <2>2 DEF TargetPath, PathOf, Paths
  <1> HIDE DEF p0
  <1>4. PICK x0 \in Contents : x0 = share[p0]
    BY <1>1, <1>2, <1>3 DEF TypeOK
  <1>5. PICK s \in CallStates :
          /\ Becomes(c, s) /\ s.step = "hiding" /\ SameCall(s, call[c])
          /\ s.left = call[c].left /\ s.name = call[c].name /\ s.copied = call[c].copied
          /\ s.hidden = call[c].hidden \union {<<p0, x0>>}
    <2>1. new \in CallStates
      <3>1. <<p0, share[p0]>> \in Paths \X Contents
        BY <1>3, <1>4
      <3>2. call[c].hidden \union {<<p0, share[p0]>>} \in SUBSET (Paths \X Contents)
        BY <1>2, <3>1, StateFields
      <3> QED
        BY <1>2, <3>2, NewHidden
    <2>2. /\ new.step = "hiding" /\ SameCall(new, call[c])
          /\ new.left = call[c].left /\ new.name = call[c].name /\ new.copied = call[c].copied
          /\ new.hidden = call[c].hidden \union {<<p0, x0>>}
      BY <1>1, <1>2, <1>4 DEF CallStates, SameCall
    <2>3. Becomes(c, new)
      BY <1>1
    <2> QED
      BY <2>1, <2>2, <2>3
  <1> HIDE DEF new
  <1>6. call'[c] = s /\ \A d \in Calls \ {c} : call'[d] = call[d]
    BY <1>2, <1>5, CallIs DEF TypeOK
  <1>7. share' \in [Paths -> Contents \union {Null}] /\ share'[p0] = Null
        /\ \A p \in Paths \ {p0} : share'[p] = share[p]
    BY <1>1, <1>2, <1>3 DEF TypeOK
  <1>8. TypeOK'
    BY <1>1, <1>2, <1>5, <1>7, MoveTyped DEF TypeOK
  <1>9. ASSUME NEW x \in Contents, KnownLeftover(x)
        PROVE  KnownLeftover(x)'
    <2>1. call[c].step # "failed"
      BY <1>1
    <2> QED
      BY <1>6, <1>9, <2>1, KnownStays
  <1>10. ASSUME NEW p \in Paths, NEW x \in Contents, share[p] = x
         PROVE  \/ \E q \in rows : q.content = x /\ PathOf(q, project) = p
                \/ KnownLeftover(x)
    BY <1>1, <1>2, <1>10, FileCases, NullIsNoContent DEF Copied
  <1>11. ASSUME NEW h \in s.hidden
         PROVE  HiddenAccounted(c, h)'
    <2>1. CASE h = <<p0, x0>>
      <3>1. \/ \E q \in rows : q.content = x0 /\ PathOf(q, project) = p0
            \/ KnownLeftover(x0)'
        BY <1>3, <1>4, <1>9, <1>10
      <3> QED
        BY <1>1, <1>5, <1>6, <1>7, <2>1, <3>1 DEF HiddenAccounted, SameCall
    <2>2. CASE h \in call[c].hidden
      <3>1. h \in Paths \X Contents /\ HiddenAccounted(c, h)
        BY <1>1, <1>2, <2>2, StateFields DEF Leaves
      <3>2. h[1] \in Paths /\ h[2] \in Contents
        BY <3>1
      <3>3. share'[h[1]] = Null
        BY <1>7, <3>1, <3>2 DEF HiddenAccounted
      <3> QED
        BY <1>1, <1>5, <1>6, <1>9, <3>1, <3>2, <3>3 DEF HiddenAccounted, SameCall
    <2> QED
      BY <1>5, <2>1, <2>2
  <1>12. Leaves(c)'
    BY <1>1, <1>2, <1>5, <1>6, <1>11 DEF Leaves, Underway, SameCall
  <1>13. ASSUME NEW p \in Paths, NEW x \in Contents, share'[p] = x
         PROVE  \/ \E q \in rows' : q.content = x /\ PathOf(q, project) = p
                \/ KnownLeftover(x)
    <2>1. share[p] = x
      BY <1>7, <1>13, NullIsNoContent
    <2> QED
      BY <1>1, <1>10, <2>1
  <1> QED
    BY <1>1, <1>2, <1>5, <1>8, <1>12, <1>13, LeftMoved

LEMMA PurgeLeft ==
  ASSUME FilesAssumption, LeftInv, NEW c \in Calls, Purge(c) \/ PurgeFails(c)
  PROVE  LeftInv'
  <1>1. call[c].op \in FileDeletions /\ call[c].step = "committed" /\ Underway(c)
        /\ UNCHANGED <<presence, quotation, rows, share, project>>
    BY DEF Purge, PurgeFails, Underway
  <1>2. TypeOK /\ Leaves(c) /\ Alone(c) /\ call[c] \in CallStates
    BY <1>1, IsAlone DEF LeftInv, TypeOK
  <1>3. PICK step \in {"over", "raised"}, left \in SUBSET call[c].hidden :
          Becomes(c, [call[c] EXCEPT !.step = step, !.hidden = left])
    BY DEF Purge, PurgeFails
  <1> DEFINE new == [call[c] EXCEPT !.step = step, !.hidden = left]
  <1>4. PICK s \in CallStates :
          /\ Becomes(c, s) /\ s.step = step /\ SameCall(s, call[c])
          /\ s.left = call[c].left /\ s.name = call[c].name /\ s.copied = call[c].copied
          /\ s.hidden \subseteq call[c].hidden
    <2>1. new \in CallStates
      BY <1>2, <1>3 DEF CallStates
    <2>2. /\ new.step = step /\ SameCall(new, call[c])
          /\ new.left = call[c].left /\ new.name = call[c].name /\ new.copied = call[c].copied
          /\ new.hidden \subseteq call[c].hidden
      BY <1>2, <1>3 DEF CallStates, SameCall
    <2>3. Becomes(c, new)
      BY <1>3
    <2> QED
      BY <2>1, <2>2, <2>3
  <1> HIDE DEF new
  <1>5. call'[c] = s
    BY <1>2, <1>4, CallIs DEF TypeOK
  <1>6. TypeOK'
    BY <1>1, <1>2, <1>4, MoveTyped DEF TypeOK
  <1>7. ASSUME NEW h \in s.hidden
        PROVE  HiddenAccounted(c, h)'
    <2>1. h \in Paths \X Contents /\ HiddenAccounted(c, h)
      BY <1>1, <1>2, <1>4, StateFields DEF Leaves
    <2> QED
      BY <1>1, <1>2, <1>4, <1>6, <2>1, HiddenStays DEF SameCall
  <1>8. Leaves(c)'
    BY <1>1, <1>2, <1>4, <1>5, <1>7 DEF Leaves, Underway, SameCall
  <1>9. ASSUME NEW p \in Paths, NEW x \in Contents, share'[p] = x
        PROVE  \/ \E r \in rows' : r.content = x /\ PathOf(r, project) = p
               \/ KnownLeftover(x)
    <2>1. call[c].op # "delete request"
      BY <1>1 DEF FileDeletions
    <2> QED
      BY <1>1, <1>2, <1>9, <2>1, FileCases, NullIsNoContent DEF Copied
  <1> QED
    BY <1>1, <1>2, <1>4, <1>6, <1>8, <1>9, LeftMoved

LEMMA RestoreLeft ==
  ASSUME FilesAssumption, LeftInv, NEW c \in Calls, RestoreHidden(c)
  PROVE  LeftInv'
  <1> DEFINE Hid(p) == \E h \in call[c].hidden : h[1] = p
  <1> DEFINE Last(p) == CHOOSE h \in call[c].hidden : h[1] = p
  <1> DEFINE new == [call[c] EXCEPT !.step = "failed", !.hidden = {}]
  <1>1. call[c].op \in FileDeletions /\ call[c].step = "raised" /\ Underway(c)
        /\ Becomes(c, new) /\ UNCHANGED <<presence, quotation, rows, project>>
        /\ share' = [p \in Paths |-> IF Hid(p) THEN Last(p)[2] ELSE share[p]]
    BY DEF RestoreHidden, Underway
  <1>2. TypeOK /\ Leaves(c) /\ Alone(c) /\ call[c] \in CallStates
    BY <1>1, IsAlone DEF LeftInv, TypeOK
  <1>3. PICK s \in CallStates :
          /\ Becomes(c, s) /\ s.step = "failed" /\ SameCall(s, call[c])
          /\ s.left = call[c].left /\ s.name = call[c].name /\ s.copied = call[c].copied
    <2>1. new \in CallStates
      BY <1>2 DEF CallStates
    <2>2. /\ new.step = "failed" /\ SameCall(new, call[c])
          /\ new.left = call[c].left /\ new.name = call[c].name /\ new.copied = call[c].copied
      BY <1>2 DEF CallStates, SameCall
    <2>3. Becomes(c, new)
      BY <1>1
    <2> QED
      BY <2>1, <2>2, <2>3
  <1> HIDE DEF new
  <1>4. call'[c] = s
    BY <1>2, <1>3, CallIs DEF TypeOK
  <1>5. \A p \in Paths : Hid(p) => Last(p) \in call[c].hidden /\ Last(p)[1] = p
    OBVIOUS
  <1> HIDE DEF Hid, Last
  <1>6. \A h \in call[c].hidden : h[2] \in Contents /\ HiddenAccounted(c, h)
    BY <1>1, <1>2, StateFields DEF Leaves
  <1>7. share' \in [Paths -> Contents \union {Null}]
    BY <1>1, <1>2, <1>5, <1>6 DEF TypeOK
  <1>8. TypeOK'
    BY <1>1, <1>2, <1>3, <1>7, MoveTyped DEF TypeOK
  <1>9. Leaves(c)'
    BY <1>2, <1>3, <1>4 DEF Leaves, Underway, SameCall
  <1>10. ASSUME NEW p \in Paths, NEW x \in Contents, share'[p] = x
         PROVE  \/ \E r \in rows' : r.content = x /\ PathOf(r, project) = p
                \/ KnownLeftover(x) \/ KnownLeftover(x)'
    <2>1. CASE Hid(p)
      <3>1. PICK h \in call[c].hidden : h[1] = p /\ h[2] = x
        BY <1>1, <1>5, <1>10, <2>1
      <3>2. CASE \E r \in call[c].target : r.content = x
        <4>1. call'[c].target = call[c].target /\ call'[c].op \in FileDeletions
              /\ call'[c].step = "failed"
          BY <1>1, <1>3, <1>4 DEF SameCall
        <4> QED
          BY <3>2, <4>1 DEF KnownLeftover
      <3> QED
        BY <1>1, <1>6, <3>1, <3>2 DEF HiddenAccounted
    <2>2. CASE ~Hid(p)
      <3>1. share[p] = x /\ call[c].op \notin Uploads
        BY <1>1, <1>10, <2>2 DEF FileDeletions, Uploads
      <3> QED
        BY <1>1, <1>2, <3>1, FileCases, NullIsNoContent DEF Copied
    <2> QED
      BY <2>1, <2>2
  <1> QED
    BY <1>1, <1>2, <1>3, <1>8, <1>9, <1>10, LeftMoved

-----------------------------------------------------------------------------
(* Calls begin, and the request goes.                                      *)

\* A call begins with nothing copied and nothing hidden.
Fresh(t) ==
    /\ t.copied = {} /\ t.name = Null /\ t.hidden = {} /\ t.step \in {"copying", "hiding"}
    /\ t.step = "copying" => t.op \in Uploads
    /\ t.op = "delete quotation" => t.target = {r \in rows : r.owner = t.owner}

LEMMA FreshBegins ==
  ASSUME FilesAssumption, TypeOK, NEW c \in Calls, Begin(c), ~DeleteRequest(c)
  PROVE  /\ \E t : Becomes(c, t) /\ Fresh(t)
         /\ UNCHANGED <<presence, quotation, rows, share, project>>
  <1>1. ASSUME NEW op \in FileDeletions, NEW owner \in Owners, NEW target \in SUBSET rows,
               op = "delete quotation" => target = {r \in rows : r.owner = owner}
        PROVE  Fresh([Idle EXCEPT !.op = op, !.owner = owner, !.step = "hiding",
                                  !.folder = project, !.target = target])
    BY <1>1 DEF Fresh, Idle
  <1>2. ASSUME NEW op \in Uploads, NEW owner, NEW n
        PROVE  /\ Fresh([Idle EXCEPT !.op = op, !.owner = owner, !.step = "copying",
                                     !.left = n, !.folder = project])
               /\ Fresh([Idle EXCEPT !.op = op, !.step = "copying", !.left = n,
                                     !.folder = project])
    BY DEF Fresh, Idle, Uploads
  <1>3. ASSUME NEW op \in FileDeletions, NEW owner \in Owners,
               NEW target \in SUBSET {r \in rows : r.owner = owner},
               BeginDeletion(c, op, owner, target)
        PROVE  /\ \E t : Becomes(c, t) /\ Fresh(t)
               /\ UNCHANGED <<presence, quotation, rows, share, project>>
    <2>1. target \in SUBSET rows
          /\ (op = "delete quotation" => target = {r \in rows : r.owner = owner})
      BY <1>3 DEF BeginDeletion
    <2>2. Becomes(c, [Idle EXCEPT !.op = op, !.owner = owner, !.step = "hiding",
                                  !.folder = project, !.target = target])
          /\ UNCHANGED <<presence, quotation, rows, share, project>>
      BY <1>3 DEF BeginDeletion
    <2> QED
      BY <1>1, <2>1, <2>2
  <1>4. ASSUME NEW n \in 0 .. MaxCopies,
               \/ BeginCreate(c, n)
               \/ \E op \in {"save", "upload attachments"} : BeginAttach(c, op, n)
               \/ \E q \in Quotations : BeginQuotation(c, q, n) \/ BeginUpload(c, q, n)
        PROVE  /\ \E t : Becomes(c, t) /\ Fresh(t)
               /\ UNCHANGED <<presence, quotation, rows, share, project>>
    <2>1. \E op \in Uploads, owner \in Owners :
            /\ \/ Becomes(c, [Idle EXCEPT !.op = op, !.step = "copying", !.left = n,
                                          !.folder = project])
               \/ Becomes(c, [Idle EXCEPT !.op = op, !.owner = owner, !.step = "copying",
                                          !.left = n, !.folder = project])
            /\ UNCHANGED <<presence, quotation, rows, share, project>>
      BY <1>4 DEF BeginCreate, BeginAttach, BeginQuotation, BeginUpload, Uploads, Owners
    <2> QED
      BY <1>2, <2>1
  <1> QED
    BY <1>3, <1>4 DEF Begin

LEMMA MayBeginAlone ==
  ASSUME ~Overlap, TypeOK, NEW c \in Calls, Begin(c)
  PROVE  call[c].step = "idle" /\ Alone(c)
  <1>1. MayBegin(c)
    BY DEF Begin, BeginCreate, BeginAttach, BeginQuotation, BeginUpload, BeginDeletion,
           DeleteRequest
  <1> QED
    BY <1>1 DEF MayBegin, Alone

LEMMA BeginLeft ==
  ASSUME FilesAssumption, ~Overlap, LeftInv, NEW c \in Calls, Begin(c), ~DeleteRequest(c)
  PROVE  LeftInv'
  <1>1. TypeOK /\ TypeOK' /\ call[c].step = "idle" /\ Alone(c)
    BY TypesStart, MayBeginAlone DEF LeftInv
  <1>2. PICK t : Becomes(c, t) /\ Fresh(t)
    BY <1>1, FreshBegins
  <1>3. UNCHANGED <<presence, quotation, rows, share, project>>
    BY <1>1, FreshBegins
  <1>4. call'[c] = t
    BY <1>1, <1>2 DEF Becomes, TypeOK
  <1>5. t \in CallStates
    BY <1>1, <1>4 DEF TypeOK
  <1>6. Leaves(c)'
    BY <1>2, <1>3, <1>4 DEF Leaves, Fresh, Underway
  <1>7. ASSUME NEW p \in Paths, NEW x \in Contents, share'[p] = x
        PROVE  \/ \E r \in rows' : r.content = x /\ PathOf(r, project) = p
               \/ KnownLeftover(x)
    BY <1>1, <1>3, <1>7, FileCases, NullIsNoContent DEF Copied
  <1> QED
    BY <1>1, <1>2, <1>3, <1>5, <1>6, <1>7, LeftMoved

LEMMA DeleteRequestLeft ==
  ASSUME FilesAssumption, ~Overlap, LeftInv, NEW c \in Calls, DeleteRequest(c)
  PROVE  LeftInv'
  <1>1. TypeOK /\ TypeOK' /\ call[c].step = "idle" /\ Alone(c)
    <2>1. Begin(c)
      BY DEF Begin
    <2> QED
      BY <2>1, TypesStart, MayBeginAlone DEF LeftInv
  <1>2. PICK step \in {"committed", "failed"} :
          Becomes(c, [Idle EXCEPT !.op = "delete request", !.step = step, !.folder = project])
    BY DEF DeleteRequest
  <1>3. UNCHANGED <<share, project>>
    BY DEF DeleteRequest
  <1>4. PICK t \in CallStates :
          /\ Becomes(c, t) /\ call'[c] = t /\ t.op = "delete request" /\ t.step = step
          /\ t.copied = {} /\ t.name = Null /\ t.hidden = {}
    <2> DEFINE new == [Idle EXCEPT !.op = "delete request", !.step = step, !.folder = project]
    <2>1. new.op = "delete request" /\ new.step = step
          /\ new.copied = {} /\ new.name = Null /\ new.hidden = {}
      BY DEF Idle
    <2>2. Becomes(c, new)
      BY <1>2
    <2> HIDE DEF new
    <2>3. call'[c] = new
      BY <1>1, <2>2 DEF Becomes, TypeOK
    <2>4. new \in CallStates
      BY <1>1, <2>3 DEF TypeOK
    <2> QED
      BY <2>1, <2>2, <2>3, <2>4
  <1>5. Leaves(c)'
    BY <1>4 DEF Leaves, Underway
  <1>6. ASSUME NEW p \in Paths, NEW x \in Contents, share'[p] = x
        PROVE  KnownLeftover(x)' \/ (t.op = "delete request" /\ t.step = "committed")
    BY <1>2, <1>4 DEF KnownLeftover
  <1> QED
    BY <1>1, <1>3, <1>4, <1>5, <1>6, LeftMoved

LEMMA RemoveFailsLeft ==
  ASSUME FilesAssumption, LeftInv, NEW c \in Calls, RemoveFolderFails(c)
  PROVE  LeftInv'
  <1>1. call[c].op = "delete request" /\ call[c].step = "committed" /\ Underway(c)
        /\ Becomes(c, [call[c] EXCEPT !.step = "failed"])
        /\ UNCHANGED <<presence, quotation, rows, share, project>>
    BY DEF RemoveFolderFails, Underway
  <1>2. TypeOK /\ Leaves(c) /\ Alone(c)
    BY <1>1, IsAlone DEF LeftInv
  <1>3. PICK s \in CallStates : Stepped(c, s, "failed")
    BY <1>1, <1>2, StepsOn DEF AllSteps
  <1>4. TypeOK'
    BY <1>1, <1>2, <1>3, MoveTyped DEF TypeOK, Stepped
  <1>5. Leaves(c)'
    BY <1>2, <1>3 DEF Leaves, Underway, Stepped, SameCall
  <1>6. ASSUME NEW p \in Paths, NEW x \in Contents, share'[p] = x
        PROVE  KnownLeftover(x)'
    BY <1>1, <1>3 DEF KnownLeftover, Stepped, SameCall
  <1> QED
    BY <1>1, <1>2, <1>3, <1>4, <1>5, <1>6, LeftMoved DEF Stepped

LEMMA RemoveLeft ==
  ASSUME FilesAssumption, MaxRenames = 0, LeftInv, NEW c \in Calls, RemoveFolder(c)
  PROVE  LeftInv'
  <1> DEFINE Rest(d) == {h \in call[d].hidden : h[1].project # call[c].folder}
  <1> DEFINE over == [call[c] EXCEPT !.step = "over"]
  <1> DEFINE other(d) == [call[d] EXCEPT !.hidden = Rest(d)]
  <1>1. call[c].step = "committed" /\ Underway(c)
        /\ UNCHANGED <<presence, quotation, rows, project>>
        /\ share' = [p \in Paths |-> IF p.project = call[c].folder THEN Null ELSE share[p]]
        /\ call' = [d \in Calls |-> IF d = c THEN over ELSE other(d)]
    BY DEF RemoveFolder, Underway
  <1>2. TypeOK /\ Leaves(c) /\ Alone(c) /\ \A d \in Calls : call[d] \in CallStates
    BY <1>1, IsAlone DEF LeftInv, TypeOK
  <1>3. /\ over \in CallStates /\ over.step = "over"
        /\ over.copied = call[c].copied /\ over.owner = call[c].owner
        /\ over.name = call[c].name /\ over.left = call[c].left
    BY <1>2 DEF CallStates
  <1>4. ASSUME NEW d \in Calls
        PROVE  /\ other(d) \in CallStates /\ other(d).step = call[d].step
               /\ other(d).copied = call[d].copied /\ other(d).owner = call[d].owner
               /\ other(d).name = call[d].name /\ other(d).left = call[d].left
    <2>1. call[d] \in CallStates
      BY <1>2
    <2>2. Rest(d) \in SUBSET (Paths \X Contents)
      BY <2>1, StateFields
    <2>3. other(d) \in CallStates
      BY <2>1, <2>2, NewHidden
    <2> QED
      BY <2>1, <2>3 DEF CallStates
  <1> HIDE DEF over, other, Rest
  <1>5. /\ call' \in [Calls -> CallStates] /\ call'[c] = over
        /\ \A d \in Calls \ {c} : call'[d] = other(d)
    BY <1>1, <1>3, <1>4
  <1>6. \A p \in Paths : share'[p] = Null
    BY <1>1, <1>2, OneFolder, PathFields DEF Projects
  <1>7. share' \in [Paths -> Contents \union {Null}]
    BY <1>1, <1>2 DEF TypeOK
  <1>8. TypeOK'
    BY <1>1, <1>2, <1>5, <1>7 DEF TypeOK
  <1>9. \A d \in Calls : ~Underway(d)'
    BY <1>2, <1>3, <1>4, <1>5 DEF Alone, Underway
  <1>10. ASSUME NEW d \in Calls
         PROVE  Leaves(d)'
    <2>1. Leaves(d) /\ ~Underway(d)'
      BY <1>9 DEF LeftInv
    <2>2. call'[d].copied = call[d].copied /\ call'[d].owner = call[d].owner
          /\ call'[d].name = call[d].name /\ call'[d].left = call[d].left
      BY <1>3, <1>4, <1>5
    <2> QED
      BY <2>1, <2>2 DEF Leaves
  <1>11. OneAtATime' /\ FilesAccounted'
    BY <1>6, <1>9, NullIsNoContent DEF OneAtATime, FilesAccounted
  <1> QED
    BY <1>8, <1>10, <1>11 DEF LeftInv

\* Nothing depends on the states of the quotations.
LEMMA LeftStays ==
  ASSUME LeftInv, TypeOK', UNCHANGED <<rows, share, project, call>>
  PROVE  LeftInv'
  <1>1. \A c \in Calls : Underway(c)' <=> Underway(c)
    BY DEF Underway
  <1>2. OneAtATime'
    BY <1>1 DEF LeftInv, OneAtATime
  <1>3. ASSUME NEW x
        PROVE  KnownLeftover(x)' <=> KnownLeftover(x)
    BY DEF KnownLeftover
  <1>4. ASSUME NEW c \in Calls, NEW h
        PROVE  HiddenAccounted(c, h)' <=> HiddenAccounted(c, h)
    BY <1>3 DEF HiddenAccounted, PathOf
  <1>5. ASSUME NEW r
        PROVE  PathOf(r, project)' = PathOf(r, project)
    BY DEF PathOf
  <1>6. ASSUME NEW c \in Calls
        PROVE  Leaves(c)'
    <2>1. Leaves(c)
      BY DEF LeftInv
    <2>2. Underway(c)' => \A h \in call'[c].hidden : HiddenAccounted(c, h)'
      BY <1>1, <1>4, <2>1 DEF Leaves
    <2> QED
      BY <1>1, <1>5, <2>1, <2>2 DEF Leaves
  <1>7. ASSUME NEW c \in Calls, NEW p \in Paths, NEW x \in Contents
        PROVE  Copied(c, p, x)' <=> Copied(c, p, x)
    BY DEF Copied, PathFor
  <1>8. ASSUME NEW p \in Paths, NEW x \in Contents
        PROVE  Accounted(p, x)' <=> Accounted(p, x)
    BY <1>3, <1>5, <1>7 DEF Accounted
  <1>9. FilesAccounted'
    BY <1>8 DEF LeftInv, FilesAccounted
  <1> QED
    BY <1>2, <1>6, <1>9 DEF LeftInv

LEMMA ToggleLeft ==
  ASSUME LeftInv, NEW q \in Quotations, ToggleArchived(q)
  PROVE  LeftInv'
  <1>1. UNCHANGED <<presence, rows, share, project, call>>
    BY DEF ToggleArchived
  <1>2. TypeOK'
    BY <1>1 DEF LeftInv, TypeOK, ToggleArchived
  <1> QED
    BY <1>1, <1>2, LeftStays

LEMMA LeftKept ==
  ASSUME FilesAssumption, InTurn, LeftInv, [Next]_vars
  PROVE  LeftInv'
  <1>1. ~Overlap /\ MaxRenames = 0 /\ ~Crashes
    BY DEF InTurn
  <1>2. CASE UNCHANGED vars
    <2>1. TypeOK'
      BY <1>2 DEF vars, LeftInv, TypeOK
    <2> QED
      BY <1>2, <2>1, LeftStays DEF vars
  <1>3. ASSUME NEW c \in Calls, Begin(c)
        PROVE  LeftInv'
    BY <1>1, <1>3, BeginLeft, DeleteRequestLeft
  <1>4. ASSUME NEW c \in Calls,
               \/ ChooseName(c) \/ CopyFile(c) \/ CopyFails(c)
               \/ CommitCopies(c) \/ RefuseCopies(c) \/ CleanUp(c)
        PROVE  LeftInv'
    BY <1>1, <1>4, ChooseLeft, CopyLeft, CopyFailsLeft, CommitCopiesLeft, RefuseCopiesLeft,
       CleanUpLeft
  <1>5. ASSUME NEW c \in Calls,
               \/ \E r \in call[c].target : HideFile(c, r)
               \/ CheckDeletion(c) \/ CommitDeletion(c) \/ RefuseDeletion(c)
               \/ Purge(c) \/ PurgeFails(c) \/ RestoreHidden(c)
        PROVE  LeftInv'
    BY <1>1, <1>5, HideLeft, CheckDeletionLeft, CommitDeletionLeft, RefuseDeletionLeft,
       PurgeLeft, RestoreLeft
  <1>6. ASSUME NEW c \in Calls, RemoveFolder(c) \/ RemoveFolderFails(c)
        PROVE  LeftInv'
    BY <1>1, <1>6, RemoveLeft, RemoveFailsLeft
  <1>7. \A c \in Calls : ~Crash(c)
    BY <1>1 DEF Crash
  <1>8. ASSUME NEW q \in Quotations, ToggleArchived(q)
        PROVE  LeftInv'
    BY <1>8, ToggleLeft
  <1>9. ~RenameProject
    BY <1>1 DEF RenameProject, LeftInv, TypeOK, Projects
  <1> QED
    BY <1>2, <1>3, <1>4, <1>5, <1>6, <1>7, <1>8, <1>9 DEF Next

LEMMA InitiallyLeft ==
  ASSUME FilesAssumption, Init
  PROVE  LeftInv
  <1>1. TypeOK
    BY IdleTyped, NullIsNoContent DEF Init, TypeOK
  <1>2. \A c \in Calls : call[c] = Idle
    BY DEF Init
  <1>3. Idle.copied = {} /\ Idle.name = Null /\ Idle.step = "idle"
    BY DEF Idle
  <1>4. OneAtATime /\ \A c \in Calls : Leaves(c)
    BY <1>2, <1>3 DEF OneAtATime, Leaves, Underway
  <1>5. FilesAccounted
    BY NullIsNoContent DEF Init, FilesAccounted
  <1> QED
    BY <1>1, <1>4, <1>5 DEF LeftInv

\* Calls that follow one another leave nothing unknown behind, whether their
\* commits answer or not and whichever names their files get: once all are over,
\* a file on the share is registered, or one of those that the services do not
\* clean up (_cleanup_copied_files, _restore_quarantined_file, rmtree).
THEOREM NothingElseRemains ==
  ASSUME FilesAssumption, InTurn
  PROVE  Spec => []OnlyKnownLeftovers
  <1>1. Init => LeftInv
    BY InitiallyLeft
  <1>2. LeftInv /\ [Next]_vars => LeftInv'
    BY LeftKept
  <1>3. ASSUME LeftInv
        PROVE  OnlyKnownLeftovers
    <2> SUFFICES ASSUME \A c \in Calls : ~Underway(c), NEW p \in Paths, share[p] # Null
                 PROVE  \/ \E r \in rows : r.content = share[p] /\ PathOf(r, project) = p
                        \/ KnownLeftover(share[p])
      BY DEF OnlyKnownLeftovers
    <2>1. PICK x \in Contents : x = share[p]
      BY <1>3 DEF LeftInv, TypeOK
    <2>2. Accounted(p, x)
      BY <1>3, <2>1 DEF LeftInv, FilesAccounted
    <2> QED
      BY <2>1, <2>2 DEF Accounted, Copied, Underway
  <1> QED
    BY <1>1, <1>2, <1>3, PTL DEF Spec
=============================================================================
