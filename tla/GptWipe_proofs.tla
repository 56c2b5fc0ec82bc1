---------------------------- MODULE GptWipe_proofs ----------------------------
(***************************************************************************)
(* Proofs about wipe_and_create_gpt and create_gpt_with_partition, for     *)
(* every stick, table length and sequence of failures, kills and pulls:    *)
(* what is reported is on the medium, and nothing else is touched.         *)
(***************************************************************************)
EXTENDS GptWipe, TLAPS

\* What this attempt writes in sector s.
Image(s) == Table(IF s = 0 THEN "mbr" ELSE IF IsHeader(s) THEN "hdr" ELSE "ent")

\* Disk d holds this attempt's MBR, and its table in the sectors S.
Fresh(d, S) ==
  /\ 0 < stick.size => d[0] = Image(0)
  /\ \A s \in S : s < stick.size /\ d[s] = Image(s)

\* What the stages know: a stick pulled during an attempt does not come back before
\* the attempt is over, and a table is written only where there is room for one.
Staged ==
  /\ pc # "idle" => (plugged <=> ~pulled)
  /\ pc \in {"new", "mbr", "gpt"} => result = "none"
  /\ pc \in {"mbr", "gpt"} \/ result = "ok" => ~TooSmall(stick.reported)

\* What is written so far is in the cache, as long as the stick is in its port; what
\* was synced on Linux, and what was closed on macOS, is on the medium too.
Stored ==
  /\ pc = "gpt" /\ plugged => Fresh(cache, TableSectors \ todo)
  /\ pc = "close" /\ result = "ok" =>
       /\ backend = "linux" \/ plugged => Fresh(cache, TableSectors)
       /\ backend = "linux" => Fresh(media, TableSectors)
  /\ Reported => Fresh(cache, TableSectors) /\ Fresh(media, TableSectors)

\* The inductive invariant.
IInv == TypeOK /\ Staged /\ OnlyTablesTouched /\ Stored

-----------------------------------------------------------------------------
\* The numbers are numbers.
LEMMA Numbers ==
  ASSUME TypeOK
  PROVE  /\ Entries \in Nat \ {0} /\ HostSector \in Nat \ {0} /\ MaxAttempts \in Nat
         /\ stick.size \in Nat /\ stick.reported \in Nat /\ attempt \in 0 .. MaxAttempts
BY GptAssumption DEF TypeOK

\* The header and the array of each copy, in the units write_into uses.
LEMMA CopyLayout ==
  ASSUME NEW n \in Nat
  PROVE  /\ HeaderAt(1, 1, n) = 1 /\ HeaderAt(2, 1, n) = n - 1
         /\ EntriesAt(1, 1, n) = 2 .. Entries + 1
         /\ EntriesAt(2, 1, n) = n - 1 - Entries .. n - 2
<1>1. Entries \in Nat
  BY GptAssumption
<1>2. RoundUp(Entries, 1) = Entries
  BY <1>1 DEF RoundUp
<1>3. HeaderAt(1, 1, n) = 1 /\ HeaderAt(2, 1, n) = n - 1
  BY DEF HeaderAt
<1>4. EntriesAt(1, 1, n) = 2 * 1 .. 2 * 1 + Entries - 1
  BY DEF EntriesAt
<1>5. EntriesAt(2, 1, n) = n - 1 - Entries .. n - 1 - Entries + Entries - 1
  BY <1>2 DEF EntriesAt
<1>6. 2 * 1 + Entries - 1 = Entries + 1 /\ 2 * 1 = 2 /\ n - 1 - Entries + Entries - 1 = n - 2
  BY <1>1
<1> QED
  BY <1>3, <1>4, <1>5, <1>6

\* The sectors of the table lie at the two ends.
LEMMA TableLayout ==
  ASSUME stick.reported \in Nat
  PROVE  \A s : s \in TableSectors <=>
                  s \in 1 .. Entries + 1 \/ s \in stick.reported - 1 - Entries .. stick.reported - 1
<1> DEFINE n == stick.reported
<1>1. TableSectors = ({HeaderAt(1, 1, n)} \cup EntriesAt(1, 1, n))
                     \cup ({HeaderAt(2, 1, n)} \cup EntriesAt(2, 1, n))
  BY DEF TableSectors
<1>2. TableSectors = ({1} \cup 2 .. Entries + 1) \cup ({n - 1} \cup n - 1 - Entries .. n - 2)
  BY <1>1, CopyLayout
<1>3. Entries \in Nat \ {0} /\ n \in Nat
  BY GptAssumption
<1>4. {1} \cup 2 .. Entries + 1 = 1 .. Entries + 1
  BY <1>3
<1>5. {n - 1} \cup n - 1 - Entries .. n - 2 = n - 1 - Entries .. n - 1
  BY <1>3
<1> QED
  BY <1>2, <1>4, <1>5

\* Where a table fits, its sectors are on the reported device and the MBR's is none.
LEMMA TableFits ==
  ASSUME stick.reported \in Nat, ~TooSmall(stick.reported)
  PROVE  /\ TableSectors \subseteq 1 .. stick.reported - 1
         /\ stick.reported - 1 \in TableSectors /\ 0 \notin TableSectors
<1>1. Entries \in Nat \ {0} /\ stick.reported >= 2 * Entries + 3
  BY GptAssumption DEF TooSmall
<1> QED
  BY <1>1, TableLayout

\* What was on the stick is content.
LEMMA OldContent ==
  ASSUME NEW st
  PROVE  Initially(st) \in [Sector(st.size) -> Content]
BY GptAssumption DEF Initially, Content, Data

\* Tables of this attempt are content.
LEMMA TableContent ==
  ASSUME TypeOK, NEW k \in {"mbr", "hdr", "ent"}
  PROVE  Table(k) \in Content
BY Numbers DEF Table, Content

-----------------------------------------------------------------------------
\* A call on a stick begins and ends with the types in order.
LEMMA TypeOfCalls ==
  ASSUME TypeOK, Start \/ NewFrom \/ IoError \/ Close \/ Kill
  PROVE  TypeOK'
<1>1. CASE Start
  <2>1. /\ pc' = "new" /\ result' = "none" /\ pc = "idle"
        /\ UNCHANGED <<stick, backend, cache, media, todo>>
    BY <1>1 DEF Start
  <2>2. plugged' = plugged /\ pulled' = FALSE
    BY <1>1 DEF Start
  <2>3. attempt' \in 0 .. MaxAttempts
    BY <1>1, Numbers DEF Start
  <2>4. todo' \subseteq (IF pc' = "gpt" THEN TableSectors' ELSE {})
    BY <2>1 DEF TypeOK
  <2>5. cache' \in [Sector(stick'.size) -> Content] /\ media' \in [Sector(stick'.size) -> Content]
    BY <2>1 DEF TypeOK
  <2> QED
    BY <2>1, <2>2, <2>3, <2>4, <2>5 DEF TypeOK
<1>2. CASE NewFrom
  BY <1>2, Numbers DEF NewFrom, env, TypeOK, TableSectors
<1>3. CASE IoError
  BY <1>3, Numbers DEF IoError, IoErrorCode, env, TypeOK, TableSectors
<1>4. CASE Close \/ Kill
  BY <1>4, Numbers DEF Close, Kill, Drained, env, TypeOK, TableSectors
<1> QED
  BY <1>1, <1>2, <1>3, <1>4

\* So do the writes and what happens to the stick.
LEMMA TypeOfWrites ==
  ASSUME TypeOK, Staged,
         \/ WriteMbr \/ Sync \/ Pull \/ Plug
         \/ \E s \in todo : WriteTable(s)
         \/ \E s \in Sector(stick.size) : Flush(s)
  PROVE  TypeOK'
<1>1. CASE WriteMbr
  <2>1. cache' \in [Sector(stick.size) -> Content]
    BY <1>1, TableContent DEF WriteMbr, TypeOK
  <2> QED
    BY <1>1, <2>1 DEF WriteMbr, env, TypeOK, TableSectors
<1>2. ASSUME NEW s \in todo, WriteTable(s) PROVE TypeOK'
  <2>1. cache' \in [Sector(stick.size) -> Content]
    BY <1>2, TableContent DEF WriteTable, TypeOK
  <2> QED
    BY <1>2, <2>1 DEF WriteTable, env, TypeOK, TableSectors
<1>3. CASE Sync
  BY <1>3 DEF Sync, Synced, env, TypeOK, TableSectors
<1>4. ASSUME NEW s \in Sector(stick.size), Flush(s) PROVE TypeOK'
  BY <1>4 DEF Flush, env, TypeOK, TableSectors
<1>5. CASE Pull
  BY <1>5 DEF Pull, TypeOK, TableSectors
<1>6. CASE Plug
  BY <1>6 DEF Plug, TypeOK, TableSectors
<1> QED
  BY <1>1, <1>2, <1>3, <1>4, <1>5, <1>6

\* Every step keeps the types.
LEMMA NextType == TypeOK /\ Staged /\ [Next]_vars => TypeOK'
<1> SUFFICES ASSUME TypeOK, Staged, [Next]_vars PROVE TypeOK'
  OBVIOUS
<1>1. CASE UNCHANGED vars
  BY <1>1 DEF vars, TypeOK, TableSectors
<1> QED
  BY <1>1, TypeOfCalls, TypeOfWrites DEF Next

\* Every step keeps what the stages know.
LEMMA NextStaged == TypeOK /\ Staged /\ [Next]_vars => Staged'
<1> SUFFICES ASSUME TypeOK, Staged, [Next]_vars PROVE Staged'
  OBVIOUS
<1>1. CASE Start
  <2>1. pc' = "new" /\ result' = "none" /\ plugged'
    BY <1>1 DEF Start
  <2>2. pulled' = FALSE
    BY <1>1 DEF Start
  <2> QED
    BY <2>1, <2>2 DEF Staged
<1>2. CASE NewFrom
  BY <1>2 DEF NewFrom, env, Staged, TypeOK, TooSmall
<1>3. CASE WriteMbr
  BY <1>3 DEF WriteMbr, env, Staged, TypeOK, TooSmall
<1>4. CASE \E s \in todo : WriteTable(s)
  BY <1>4 DEF WriteTable, env, Staged, TypeOK, TooSmall
<1>5. CASE Sync \/ IoError \/ Close \/ Kill
  BY <1>5 DEF Sync, IoError, IoErrorCode, Close, Kill, env, Staged, TypeOK, TooSmall
<1>6. CASE \E s \in Sector(stick.size) : Flush(s)
  BY <1>6 DEF Flush, env, Staged, TypeOK, TooSmall
<1>7. CASE Pull \/ Plug
  BY <1>7 DEF Pull, Plug, Staged, TypeOK, TooSmall
<1>8. CASE UNCHANGED vars
  BY <1>8 DEF vars, Staged, TypeOK, TooSmall
<1> QED
  BY <1>1, <1>2, <1>3, <1>4, <1>5, <1>6, <1>7, <1>8 DEF Next

-----------------------------------------------------------------------------
\* The sectors no table needs, all of them where there is no room for one.
Others == {s \in Sector(stick.size) :
             stick.reported < 2 * Entries + 3 \/ s \notin {0} \cup TableSectors}

\* Every step leaves the other sectors as they were before the first wipe.
LEMMA NextTouched ==
  TypeOK /\ Staged /\ OnlyTablesTouched /\ [Next]_vars => OnlyTablesTouched'
<1> SUFFICES ASSUME TypeOK, Staged, OnlyTablesTouched, [Next]_vars PROVE OnlyTablesTouched'
  OBVIOUS
<1>1. stick' = stick
  BY DEF Next, Start, NewFrom, WriteMbr, WriteTable, Sync, IoError, Close, Kill, Flush, Pull,
         Plug, env, vars
<1>2. ASSUME NEW s \in Others
      PROVE  s \in Sector(stick.size) /\ cache[s] = Initially(stick)[s] /\ media[s] = cache[s]
  BY <1>2 DEF Others, OnlyTablesTouched
<1>3. cache \in [Sector(stick.size) -> Content] /\ media \in [Sector(stick.size) -> Content]
  BY DEF TypeOK
<1>4. ASSUME NEW s \in Others PROVE cache'[s] = cache[s] /\ media'[s] = media[s]
  <2>1. CASE WriteMbr
    <3>1. s # 0
      BY <2>1, Numbers DEF WriteMbr, Staged, TooSmall, Others
    <3> QED
      BY <1>2, <1>3, <2>1, <3>1 DEF WriteMbr
  <2>2. ASSUME NEW t \in todo, WriteTable(t) PROVE cache'[s] = cache[s] /\ media'[s] = media[s]
    <3>1. s # t
      BY <2>2, Numbers DEF WriteTable, Staged, TooSmall, Others, TypeOK
    <3> QED
      BY <1>2, <1>3, <2>2, <3>1 DEF WriteTable
  <2>3. CASE Sync \/ Close \/ Kill
    <3>1. cache' = cache /\ media' \in {cache, media}
      BY <2>3 DEF Sync, Synced, Close, Kill, Drained
    <3> QED
      BY <1>2, <3>1
  <2>4. ASSUME NEW t \in Sector(stick.size), Flush(t)
        PROVE  cache'[s] = cache[s] /\ media'[s] = media[s]
    BY <1>2, <1>3, <2>4 DEF Flush
  <2>5. CASE Pull
    BY <1>2, <2>5 DEF Pull
  <2>6. CASE Start \/ NewFrom \/ IoError \/ Plug \/ UNCHANGED vars
    <3>1. cache' = cache /\ media' = media
      BY <2>6 DEF Start, NewFrom, IoError, Plug, vars
    <3> QED
      BY <3>1
  <2> QED
    BY <2>1, <2>2, <2>3, <2>4, <2>5, <2>6 DEF Next
<1>5. ASSUME NEW s \in Others
      PROVE  cache'[s] = Initially(stick)[s] /\ media'[s] = cache'[s]
  BY <1>2, <1>4
<1> QED
  BY <1>1, <1>5 DEF OnlyTablesTouched, Others, TableSectors

-----------------------------------------------------------------------------
\* Within an attempt, what is to be written where does not change.
LEMMA SameImage ==
  ASSUME UNCHANGED <<stick, attempt>>
  PROVE  TableSectors' = TableSectors /\ \A s : Image(s)' = Image(s)
BY DEF TableSectors, Image, Table, IsHeader

\* The MBR comes first.
LEMMA MbrStored ==
  ASSUME TypeOK, Stored, WriteMbr
  PROVE  Stored'
<1>1. /\ UNCHANGED <<stick, attempt>> /\ todo' = TableSectors /\ pc' = "gpt"
      /\ cache' = [cache EXCEPT ![0] = Table("mbr")]
  BY DEF WriteMbr, env
<1>2. TableSectors' = TableSectors /\ Image(0)' = Table("mbr")
  BY <1>1, SameImage DEF Image
<1>3. TableSectors' \ todo' = {}
  BY <1>1, <1>2
<1>4. 0 < stick.size => cache'[0] = Table("mbr")
  BY <1>1, Numbers DEF TypeOK, Sector
<1>5. Fresh(cache, TableSectors \ todo)'
  BY <1>1, <1>2, <1>3, <1>4 DEF Fresh
<1>6. ~Reported'
  BY <1>1 DEF Reported
<1> QED
  BY <1>1, <1>5, <1>6, Zenon DEF Stored

\* Then the sectors of the table, each in its place.
LEMMA TableStored ==
  ASSUME TypeOK, Staged, Stored, NEW t \in todo, WriteTable(t)
  PROVE  Stored'
<1>1. /\ UNCHANGED <<stick, attempt, plugged>> /\ todo' = todo \ {t} /\ pc = "gpt" /\ pc' = "gpt"
      /\ cache' = [cache EXCEPT ![t] = Table(IF IsHeader(t) THEN "hdr" ELSE "ent")]
      /\ t < stick.size /\ plugged
  BY DEF WriteTable, env
<1>2. TableSectors' = TableSectors /\ \A s : Image(s)' = Image(s)
  BY <1>1, SameImage
<1>3. Fresh(cache, TableSectors \ todo)
  BY <1>1, Zenon DEF Stored
<1>4. t \in TableSectors /\ t # 0 /\ t \in Sector(stick.size)
  <2>1. t \in TableSectors
    BY <1>1 DEF TypeOK
  <2>2. t \in 1 .. stick.reported - 1
    BY <1>1, <2>1, Numbers, TableFits DEF Staged
  <2> QED
    BY <1>1, <2>1, <2>2, Numbers DEF Sector
<1>5. cache'[t] = Image(t) /\ \A s \in Sector(stick.size) \ {t} : cache'[s] = cache[s]
  BY <1>1, <1>4 DEF TypeOK, Image
<1>6. 0 < stick.size => cache'[0] = Image(0)
  BY <1>3, <1>4, <1>5, Numbers DEF Fresh, Sector
<1>7. ASSUME NEW s \in TableSectors' \ todo' PROVE s < stick.size /\ cache'[s] = Image(s)
  <2>1. CASE s = t
    BY <1>1, <1>5, <2>1
  <2>2. CASE s # t
    <3>1. s \in TableSectors \ todo
      BY <1>1, <1>2, <2>2
    <3>2. s < stick.size /\ cache[s] = Image(s) /\ s \in TableSectors
      BY <1>3, <3>1 DEF Fresh
    <3>3. s \in Sector(stick.size)
      <4>1. s \in 1 .. stick.reported - 1
        BY <1>1, <3>2, Numbers, TableFits DEF Staged
      <4> QED
        BY <3>2, <4>1, Numbers DEF Sector
    <3> QED
      BY <1>5, <2>2, <3>2, <3>3
  <2> QED
    BY <2>1, <2>2
<1>8. Fresh(cache, TableSectors \ todo)'
  BY <1>1, <1>2, <1>6, <1>7 DEF Fresh
<1>9. ~Reported'
  BY <1>1 DEF Reported
<1> QED
  BY <1>1, <1>8, <1>9, Zenon DEF Stored

\* The sync, which drains the cache on Linux.
LEMMA SyncStored ==
  ASSUME TypeOK, Stored, Sync
  PROVE  Stored'
<1>1. /\ UNCHANGED <<stick, attempt, cache, backend>> /\ todo = {} /\ pc = "gpt" /\ pc' = "close"
  BY DEF Sync, env
<1>2. TableSectors' = TableSectors /\ \A s : Image(s)' = Image(s)
  BY <1>1, SameImage
<1>3. plugged' = plugged /\ (backend = "linux" => plugged /\ media' = cache)
  BY DEF Sync, Synced, env
<1>4. plugged => Fresh(cache, TableSectors)
  <2>1. TableSectors \ todo = TableSectors
    BY <1>1
  <2> QED
    BY <1>1, <2>1, Zenon DEF Stored
<1>5. Fresh(cache, TableSectors) => Fresh(cache, TableSectors)'
  BY <1>1, <1>2 DEF Fresh
<1>6. backend = "linux" /\ Fresh(cache, TableSectors) => Fresh(media, TableSectors)'
  BY <1>1, <1>2, <1>3 DEF Fresh
<1>7. ~Reported'
  BY <1>1 DEF Reported
<1>8. backend' = backend /\ pc' = "close"
  BY <1>1
<1>9. pc' # "gpt"
  BY <1>1
<1> QED
  BY <1>3, <1>4, <1>5, <1>6, <1>7, <1>8, <1>9, Zenon DEF Stored

\* The close, which drains it on macOS.
LEMMA CloseStored ==
  ASSUME TypeOK, Staged, Stored, Close
  PROVE  Stored'
<1>1. /\ UNCHANGED <<stick, attempt, cache, backend, result>> /\ pc = "close" /\ pc' = "idle"
  BY DEF Close, env
<1>2. TableSectors' = TableSectors /\ \A s : Image(s)' = Image(s)
  BY <1>1, SameImage
<1>3. /\ UNCHANGED <<plugged, pulled>>
      /\ media' = IF backend = "macos" /\ plugged THEN cache ELSE media
  BY DEF Close, Drained, env
<1>4. Reported' => result = "ok" /\ (backend = "macos" => ~pulled)
  BY <1>1, <1>3 DEF Reported
<1>5. plugged <=> ~pulled
  BY <1>1, Zenon DEF Staged
<1>6. result = "ok" /\ backend = "linux" =>
        Fresh(cache, TableSectors) /\ Fresh(media, TableSectors) /\ media' = media
  BY <1>1, <1>3 DEF Stored
<1>7. result = "ok" /\ backend = "macos" /\ plugged => Fresh(cache, TableSectors) /\ media' = cache
  BY <1>1, <1>3 DEF Stored
<1>8. backend \in {"linux", "macos"}
  BY DEF TypeOK
<1>9. Reported' => Fresh(cache, TableSectors) /\ (media' = cache \/ (media' = media /\ Fresh(media, TableSectors)))
  BY <1>4, <1>5, <1>6, <1>7, <1>8, Zenon
<1>10. Fresh(cache, TableSectors) => Fresh(cache, TableSectors)'
  BY <1>1, <1>2 DEF Fresh
<1>11. Fresh(cache, TableSectors) /\ media' = cache => Fresh(media, TableSectors)'
  BY <1>1, <1>2 DEF Fresh
<1>12. Fresh(media, TableSectors) /\ media' = media => Fresh(media, TableSectors)'
  BY <1>1, <1>2 DEF Fresh
<1>13. pc' # "gpt" /\ pc' # "close"
  BY <1>1
<1> QED
  BY <1>9, <1>10, <1>11, <1>12, <1>13, Zenon DEF Stored

\* A sector the cache gives up on its own.
LEMMA FlushStored ==
  ASSUME TypeOK, Stored, NEW t \in Sector(stick.size), Flush(t)
  PROVE  Stored'
<1>1. /\ UNCHANGED <<stick, backend, cache, pc, todo, attempt, result>>
      /\ UNCHANGED <<plugged, pulled>>
      /\ media' = [media EXCEPT ![t] = cache[t]]
  BY DEF Flush, env
<1>2. TableSectors' = TableSectors /\ \A s : Image(s)' = Image(s)
  BY <1>1, SameImage
<1>3. \A s : media'[s] = media[s] \/ media'[s] = cache[s]
  BY <1>1 DEF TypeOK
<1>4. Fresh(cache, TableSectors \ todo) => Fresh(cache, TableSectors \ todo)'
  BY <1>1, <1>2 DEF Fresh
<1>5. Fresh(cache, TableSectors) => Fresh(cache, TableSectors)'
  BY <1>1, <1>2 DEF Fresh
<1>6. Fresh(cache, TableSectors) /\ Fresh(media, TableSectors) => Fresh(media, TableSectors)'
  BY <1>1, <1>2, <1>3 DEF Fresh
<1>7. Reported' <=> Reported
  BY <1>1 DEF Reported
<1>8. pc' = pc /\ result' = result /\ backend' = backend /\ plugged' = plugged
  BY <1>1
<1> QED
  BY <1>4, <1>5, <1>6, <1>7, <1>8, Zenon DEF Stored

\* Pulling the stick loses what was in the cache only.
LEMMA PullStored ==
  ASSUME TypeOK, Stored, Pull
  PROVE  Stored'
<1>1. /\ UNCHANGED <<stick, backend, media, pc, attempt, result>> /\ cache' = media
      /\ plugged' = FALSE /\ pulled' = (pulled \/ pc # "idle")
  BY DEF Pull
<1>2. TableSectors' = TableSectors /\ \A s : Image(s)' = Image(s)
  BY <1>1, SameImage
<1>3. Fresh(media, TableSectors) => Fresh(media, TableSectors)' /\ Fresh(cache, TableSectors)'
  BY <1>1, <1>2 DEF Fresh
<1>4. Reported' => Reported
  BY <1>1 DEF Reported
<1>5. pc' = pc /\ result' = result /\ backend' = backend /\ ~plugged'
  BY <1>1
<1> QED
  BY <1>3, <1>4, <1>5, Zenon DEF Stored

\* Every step keeps what is stored.
LEMMA NextStored == TypeOK /\ Staged /\ Stored /\ [Next]_vars => Stored'
<1> SUFFICES ASSUME TypeOK, Staged, Stored, [Next]_vars PROVE Stored'
  OBVIOUS
<1>1. CASE Start \/ NewFrom \/ IoError \/ Kill
  <2>1. pc' # "gpt" /\ (pc' = "close" => result' # "ok") /\ (pc' = "idle" => result' # "ok")
    BY <1>1 DEF Start, NewFrom, IoError, IoErrorCode, Kill, Staged
  <2>2. ~Reported'
    BY <2>1 DEF Reported
  <2> QED
    BY <2>1, <2>2, Zenon DEF Stored
<1>2. CASE Plug
  <2>1. /\ UNCHANGED <<stick, backend, cache, media, attempt, result, pc>> /\ pc = "idle"
        /\ pulled' = pulled
    BY <1>2 DEF Plug
  <2>2. TableSectors' = TableSectors /\ \A s : Image(s)' = Image(s)
    BY <2>1, SameImage
  <2>3. /\ Fresh(cache, TableSectors) => Fresh(cache, TableSectors)'
        /\ Fresh(media, TableSectors) => Fresh(media, TableSectors)'
    BY <2>1, <2>2 DEF Fresh
  <2>4. Reported' <=> Reported
    BY <2>1 DEF Reported
  <2>5. pc' # "gpt" /\ pc' # "close"
    BY <2>1
  <2> QED
    BY <2>3, <2>4, <2>5, Zenon DEF Stored
<1>3. CASE UNCHANGED vars
  <2>1. /\ UNCHANGED <<stick, backend, cache, media, attempt, result, pc, todo>>
        /\ UNCHANGED <<plugged, pulled>>
    BY <1>3 DEF vars
  <2>2. TableSectors' = TableSectors /\ \A s : Image(s)' = Image(s)
    BY <2>1, SameImage
  <2>3. /\ Fresh(cache, TableSectors) => Fresh(cache, TableSectors)'
        /\ Fresh(cache, TableSectors \ todo) => Fresh(cache, TableSectors \ todo)'
        /\ Fresh(media, TableSectors) => Fresh(media, TableSectors)'
    BY <2>1, <2>2 DEF Fresh
  <2>4. Reported' <=> Reported
    BY <2>1 DEF Reported
  <2>5. pc' = pc /\ result' = result /\ backend' = backend /\ plugged' = plugged
    BY <2>1
  <2> QED
    BY <2>3, <2>4, <2>5, Zenon DEF Stored
<1> QED
  BY <1>1, <1>2, <1>3, MbrStored, TableStored, SyncStored, CloseStored, FlushStored, PullStored
  DEF Next

-----------------------------------------------------------------------------
\* Before the first wipe.
LEMMA InitSafe == Init => IInv
<1> SUFFICES ASSUME Init PROVE IInv
  OBVIOUS
<1>1. Initially(stick) \in [Sector(stick.size) -> Content]
  BY OldContent
<1>2. TypeOK
  <2>1. attempt \in 0 .. MaxAttempts /\ todo \subseteq {}
    BY GptAssumption DEF Init
  <2>2. plugged \in BOOLEAN /\ pulled \in BOOLEAN
    BY Zenon DEF Init
  <2>3. /\ stick \in Sticks /\ backend \in {"linux", "macos"}
        /\ cache = Initially(stick) /\ media = Initially(stick)
        /\ pc = "idle" /\ result = "none"
    BY DEF Init
  <2> QED
    BY <1>1, <2>1, <2>2, <2>3 DEF TypeOK
<1>3. pc = "idle" /\ result = "none"
  BY DEF Init
<1>4. Staged
  BY <1>3 DEF Staged
<1>5. ~Reported /\ pc # "gpt" /\ pc # "close"
  BY <1>3 DEF Reported
<1>6. Stored
  BY <1>5, Zenon DEF Stored
<1>7. OnlyTablesTouched
  BY DEF Init, OnlyTablesTouched
<1> QED
  BY <1>2, <1>4, <1>6, <1>7 DEF IInv

\* Every step keeps the inductive invariant.
LEMMA NextSafe == IInv /\ [Next]_vars => IInv'
BY NextType, NextStaged, NextTouched, NextStored DEF IInv

\* The types are kept, no sector but the table's is touched and what the stages store
\* is stored, whatever fails, is killed or pulled and however often the call is made.
THEOREM WipeSafe == Spec => []IInv
<1>1. Init => IInv
  BY InitSafe
<1>2. IInv /\ [Next]_vars => IInv'
  BY NextSafe
<1> QED
  BY <1>1, <1>2, PTL DEF Spec

\* The variables have their types, and outside write_into nothing is left to write.
THEOREM TypesKept == Spec => []TypeOK
<1>1. IInv => TypeOK
  BY DEF IInv
<1> QED
  BY <1>1, WipeSafe, PTL

\* A wipe touches the table's sectors and no other; a device too small for a table is
\* refused before anything is written.
THEOREM NothingElseTouched == Spec => []OnlyTablesTouched
<1>1. IInv => OnlyTablesTouched
  BY DEF IInv
<1> QED
  BY <1>1, WipeSafe, PTL

-----------------------------------------------------------------------------
\* A fresh disk that reports no less than it has is exactly as large as it reports.
LEMMA FreshHasTheSize ==
  ASSUME TypeOK, ~TooSmall(stick.reported), NEW d, Fresh(d, TableSectors),
         stick.reported >= stick.size
  PROVE  stick.size = stick.reported
<1>1. stick.reported - 1 \in TableSectors
  BY Numbers, TableFits
<1>2. stick.reported - 1 < stick.size
  BY <1>1 DEF Fresh
<1> QED
  BY <1>2, Numbers

\* A host with blocks of 512 bytes finds both copies where write_into put them.
LEMMA HostFindsCopies ==
  ASSUME HostSector = 1, TypeOK, ~TooSmall(stick.reported), stick.size = stick.reported,
         NEW d, Fresh(d, TableSectors)
  PROVE  \A c \in {1, 2} : CopyOf(d, c, attempt)
<1> DEFINE n == stick.reported
<1>1. Entries \in Nat \ {0} /\ n \in Nat /\ n >= 2 * Entries + 3
  BY Numbers DEF TooSmall
<1>2. \A s : IsHeader(s) <=> s = 1 \/ s = n - 1
  BY <1>1, CopyLayout DEF IsHeader
<1>3. \A s \in TableSectors : d[s] = Table(IF s = 0 THEN "mbr" ELSE IF IsHeader(s) THEN "hdr" ELSE "ent")
  BY DEF Fresh, Image
<1>4. ASSUME NEW s \in {1, n - 1} PROVE d[s] = [gen |-> attempt, kind |-> "hdr"]
  <2>1. s \in TableSectors /\ s # 0
    BY <1>1, TableLayout
  <2> QED
    BY <1>2, <1>3, <2>1 DEF Table
<1>5. ASSUME NEW s, s \in 2 .. Entries + 1 \/ s \in n - 1 - Entries .. n - 2
      PROVE  d[s] = [gen |-> attempt, kind |-> "ent"]
  <2>1. s \in TableSectors /\ s # 0 /\ s # 1 /\ s # n - 1
    BY <1>1, <1>5, TableLayout
  <2> QED
    BY <1>2, <1>3, <2>1 DEF Table
<1>6. /\ HeaderAt(1, HostSector, stick.size) = 1 /\ HeaderAt(2, HostSector, stick.size) = n - 1
      /\ EntriesAt(1, HostSector, stick.size) = 2 .. Entries + 1
      /\ EntriesAt(2, HostSector, stick.size) = n - 1 - Entries .. n - 2
  BY <1>1, CopyLayout
<1>7. CopyOf(d, 1, attempt)
  BY <1>4, <1>5, <1>6 DEF CopyOf
<1>8. CopyOf(d, 2, attempt)
  BY <1>4, <1>5, <1>6 DEF CopyOf
<1> QED
  BY <1>7, <1>8

\* Nothing of an older table is left on a fresh disk: outside the sectors of the new
\* one there was none.
LEMMA NothingStale ==
  ASSUME HostSector = 1, TypeOK, OnlyTablesTouched, ~TooSmall(stick.reported),
         stick.size = stick.reported, Fresh(media, TableSectors),
         NEW s \in Sector(stick.size), media[s].kind # "data"
  PROVE  media[s].gen = attempt
<1> DEFINE n == stick.reported
<1>1. Entries \in Nat \ {0} /\ n \in Nat /\ n >= 2 * Entries + 3
  BY Numbers DEF TooSmall
<1>2. CASE s \in {0} \cup TableSectors
  <2>1. media[s] = Image(s)
    BY <1>1, <1>2 DEF Fresh
  <2> QED
    BY <2>1 DEF Image, Table
<1>3. CASE s \notin {0} \cup TableSectors
  <2>1. media[s] = Initially(stick)[s]
    BY <1>3 DEF OnlyTablesTouched
  <2>2. \A c \in {1, 2} : s # HeaderAt(c, HostSector, stick.size)
                         /\ s \notin EntriesAt(c, HostSector, stick.size)
    BY <1>3 DEF TableSectors
  <2>3. Initially(stick)[s] = Data
    BY <1>3, <2>2 DEF Initially
  <2> QED
    BY <2>1, <2>3 DEF Data
<1> QED
  BY <1>2, <1>3

\* On a host with blocks of 512 bytes, the only size gptman's tables are laid out for:
\* what is reported is durable, whatever was flushed, failed, killed or pulled before.
THEOREM ReportedStays ==
  ASSUME HostSector = 1
  PROVE  Spec => []ReportedIsDurable
<1>1. IInv => ReportedIsDurable
  <2> SUFFICES ASSUME IInv, Reported, stick.reported >= stick.size
               PROVE  /\ \A c \in {1, 2} : CopyOf(media, c, attempt)
                      /\ media[0] = Table("mbr")
                      /\ \A s \in Sector(stick.size) :
                           media[s].kind # "data" => media[s].gen = attempt
    BY DEF ReportedIsDurable
  <2>1. TypeOK /\ Staged /\ Stored /\ OnlyTablesTouched
    BY DEF IInv
  <2>2. Fresh(media, TableSectors) /\ ~TooSmall(stick.reported)
    BY <2>1, Zenon DEF Staged, Stored, Reported
  <2>3. stick.size = stick.reported
    BY <2>1, <2>2, FreshHasTheSize
  <2>4. \A c \in {1, 2} : CopyOf(media, c, attempt)
    BY <2>1, <2>2, <2>3, HostFindsCopies
  <2>5. media[0] = Table("mbr")
    BY <2>1, <2>2, <2>3, Numbers DEF Fresh, Image, TooSmall
  <2>6. ASSUME NEW s \in Sector(stick.size), media[s].kind # "data"
        PROVE  media[s].gen = attempt
    BY <2>1, <2>2, <2>3, <2>6, NothingStale
  <2> QED
    BY <2>4, <2>5, <2>6
<1> QED
  BY <1>1, WipeSafe, PTL
=============================================================================
