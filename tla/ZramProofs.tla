--------------------------- MODULE ZramProofs ---------------------------
(***************************************************************************)
(* The compressed page store implements a map from index to page, for any  *)
(* set of pages, any lengths, size classes and generation width.           *)
(***************************************************************************)
EXTENDS Zram, TLAPS

\* What an entry says of the bytes in its slot: they are the payload of some page, in
\* the encoding the entry records.
Holds(i, p) ==
    /\ p \in Inputs /\ PageLen[p] <= PAGE_SIZE
    /\ pages[i].encoding = encoding(p)
    /\ storage[pages[i].place] = payload(p)

ZInv ==
    /\ ZramTypeOK
    /\ SlotsOwned
    /\ \A i \in DOMAIN pages : i < max_pages /\ \E p \in Inputs : Holds(i, p)

\* A place is a slot of an existing class.
LEMMA PlaceParts == \A s \in Places : s[1] \in Class /\ s[2] \in Zspages
BY DEF Places

\* The generation after one that fits in a u32 fits in a u32 and is not zero.
LEMMA NextGeneration ==
    \A g \in 0 .. GenMod - 1 : next_generation(g) \in 1 .. GenMod - 1
BY DeviceAssumption DEF next_generation

\* The payload of a page has a positive length, and decoding it by the encoding of
\* the page gives the page back.
LEMMA PayloadRoundTrip ==
    ASSUME NEW p \in Inputs, NEW entry, entry.encoding = encoding(p)
    PROVE  /\ stored_len(p) \in Nat \ {0}
           /\ payload(p) \in [page : Inputs \cup {NoPage}, form : Form]
           /\ encoding(p) \in {"Raw", "Lz4"}
           /\ decoded(entry, payload(p)).form = "plain"
           /\ decoded(entry, payload(p)).page = p
<1>1. CASE encoding(p) = "Lz4"
  BY <1>1, PageAssumption DEF stored_len, payload, compress, decoded, decompress, Form
<1>2. CASE encoding(p) # "Lz4"
  <2>1. encoding(p) = "Raw"  BY <1>2 DEF encoding
  <2> QED  BY <1>2, <2>1, PageAssumption DEF stored_len, payload, to_vec, decoded, Form
<1> QED  BY <1>1, <1>2

\* What load_page returns for an entry that holds page p
LEMMA LoadedPage ==
    ASSUME NEW i \in DOMAIN pages, NEW p, Holds(i, p),
           is_valid(pages[i], slot_lengths, slot_generations)
    PROVE  loaded(i) = Ok(p)
<1>1. p \in Inputs /\ pages[i].encoding = encoding(p)  BY DEF Holds
<1>2. /\ decoded(pages[i], payload(p)).form = "plain"
      /\ decoded(pages[i], payload(p)).page = p
  BY <1>1, PayloadRoundTrip
<1> QED  BY <1>2 DEF Holds, loaded
-----------------------------------------------------------------------------
\* The places a call frees: that of the entry of i, if there is one.
Freed(i) == {s \in Places : i \in DOMAIN pages /\ s = pages[i].place}

\* The slots after the slots of U were filled with length len and those of F freed
SlotsAfter(U, len, F) ==
    /\ slot_lengths' = [q \in Places |-> IF q \in F THEN 0 ELSE IF q \in U THEN len ELSE slot_lengths[q]]
    /\ slot_generations' = [q \in Places |-> IF q \in F \cup U THEN next_generation(slot_generations[q])
                                             ELSE slot_generations[q]]
    /\ free_list' = [q \in Places |-> IF q \in F THEN free_list[q] + 1
                                      ELSE IF q \in U THEN free_list[q] - 1 ELSE free_list[q]]

\* Filling a free slot and then freeing that of the replaced entry touches two
\* different slots, and the free succeeds.
LEMMA StoreSlots ==
    ASSUME ZInv, NEW i, NEW s \in Places, NEW len, free_list[s] > 0,
           LET generation == next_generation(slot_generations[s])
               lengths == [slot_lengths EXCEPT ![s] = len]
               gens    == [slot_generations EXCEPT ![s] = generation]
               free_entries == [free_list EXCEPT ![s] = @ - 1]
           IN  IF i \in DOMAIN pages
                 THEN free(pages[i], lengths, gens, free_entries)
                 ELSE /\ slot_lengths' = lengths
                      /\ slot_generations' = gens
                      /\ free_list' = free_entries
    PROVE  SlotsAfter({s}, len, Freed(i)) /\ s \notin Freed(i)
<1>1. slot_lengths[s] = 0  BY DEF ZInv, SlotsOwned
<1> USE DEF ZInv, ZramTypeOK
<1>2. CASE i \notin DOMAIN pages
  BY <1>2 DEF SlotsAfter, Freed
<1>3. CASE i \in DOMAIN pages
  <2> DEFINE o == pages[i].place
  <2>1. o \in Places /\ slot_lengths[o] # 0 /\ slot_generations[o] = pages[i].generation
    BY <1>3 DEF Entry, SlotsOwned, is_valid
  <2>2. o # s  BY <1>1, <2>1
  <2>3. Freed(i) = {o}  BY <1>3, <2>1 DEF Freed
  <2>4. is_valid(pages[i], [slot_lengths EXCEPT ![s] = len],
                 [slot_generations EXCEPT ![s] = next_generation(slot_generations[s])])
    BY <2>1, <2>2 DEF is_valid
  <2>5. /\ slot_lengths' = [[slot_lengths EXCEPT ![s] = len] EXCEPT ![o] = 0]
        /\ slot_generations' = [[slot_generations EXCEPT ![s] = next_generation(slot_generations[s])]
                                   EXCEPT ![o] = next_generation(@)]
        /\ free_list' = [[free_list EXCEPT ![s] = @ - 1] EXCEPT ![o] = @ + 1]
    BY <1>3, <2>4 DEF free
  <2> QED  BY <2>1, <2>2, <2>3, <2>5, ZenonT(30) DEF SlotsAfter
<1> QED  BY <1>2, <1>3

\* So does invalidate_page, without a slot to fill.
LEMMA InvalidateSlots ==
    ASSUME ZInv, NEW i \in DOMAIN pages,
           free(pages[i], slot_lengths, slot_generations, free_list)
    PROVE  /\ SlotsAfter({}, 0, Freed(i))
           /\ is_valid(pages[i], slot_lengths, slot_generations)
<1> DEFINE o == pages[i].place
<1>1. o \in Places /\ is_valid(pages[i], slot_lengths, slot_generations)
  BY DEF ZInv, ZramTypeOK, Entry, SlotsOwned
<1>2. Freed(i) = {o}  BY <1>1 DEF Freed
<1>3. /\ slot_lengths' = [slot_lengths EXCEPT ![o] = 0]
      /\ slot_generations' = [slot_generations EXCEPT ![o] = next_generation(@)]
      /\ free_list' = [free_list EXCEPT ![o] = @ + 1]
  BY <1>1 DEF free
<1> QED  BY <1>1, <1>2, <1>3, ZenonT(30) DEF SlotsAfter, ZInv, ZramTypeOK

\* The slots keep their types, and the free lists keep matching the lengths.
LEMMA SlotsKeepTypes ==
    ASSUME ZInv, NEW i, NEW U, NEW len \in Nat,
           SlotsAfter(U, len, Freed(i)),
           \A s \in U : s \in Places /\ free_list[s] > 0 /\ len # 0 /\ len <= SIZE_CLASSES[s[1]]
    PROVE  /\ slot_lengths' \in [Places -> Nat]
           /\ \A s \in Places : slot_lengths'[s] <= SIZE_CLASSES[s[1]]
           /\ slot_generations' \in [Places -> 0 .. GenMod - 1]
           /\ free_list' \in [Places -> Nat]
           /\ \A s \in Places : free_list'[s] = IF slot_lengths'[s] = 0 THEN 1 ELSE 0
<1>1. \A s \in Places : SIZE_CLASSES[s[1]] \in Nat
  BY PlaceParts, ClassAssumption, PageAssumption
<1>2. \A s \in Places : next_generation(slot_generations[s]) \in 0 .. GenMod - 1
  BY NextGeneration, DeviceAssumption DEF ZInv, ZramTypeOK
<1>3. \A s \in Freed(i) : s \in Places /\ slot_lengths[s] # 0 /\ free_list[s] = 0
  BY DEF Freed, ZInv, SlotsOwned, is_valid
<1>4. \A s \in U : free_list[s] = 1 /\ s \notin Freed(i)
  BY <1>3 DEF ZInv, SlotsOwned
<1>5. \A s \in Places : /\ slot_lengths[s] \in Nat /\ slot_lengths[s] <= SIZE_CLASSES[s[1]]
                        /\ slot_generations[s] \in 0 .. GenMod - 1
                        /\ free_list[s] = IF slot_lengths[s] = 0 THEN 1 ELSE 0
  BY DEF ZInv, ZramTypeOK, SlotsOwned
<1>6. slot_lengths' \in [Places -> Nat]  BY <1>5 DEF SlotsAfter
<1>7. \A s \in Places : slot_lengths'[s] <= SIZE_CLASSES[s[1]]
  BY <1>1, <1>5 DEF SlotsAfter
<1>8. slot_generations' \in [Places -> 0 .. GenMod - 1]
  BY <1>2, <1>5 DEF SlotsAfter
<1>9. \A s \in Places : free_list'[s] = IF slot_lengths'[s] = 0 THEN 1 ELSE 0
  BY <1>3, <1>4, <1>5 DEF SlotsAfter
<1>10. free_list' \in [Places -> Nat]
  <2>1. free_list' = [q \in Places |-> free_list'[q]]  BY DEF SlotsAfter
  <2>2. \A q \in Places : free_list'[q] \in Nat  BY <1>9
  <2> QED  BY <2>1, <2>2
<1> QED  BY <1>6, <1>7, <1>8, <1>9, <1>10

\* An entry that a call does not concern keeps its handle valid and its bytes.
LEMMA OthersUntouched ==
    ASSUME ZInv, NEW i, NEW j \in DOMAIN pages, j # i, NEW U, NEW len,
           SlotsAfter(U, len, Freed(i)), \A s \in U : free_list[s] > 0
    PROVE  /\ pages[j].place \notin U \cup Freed(i)
           /\ is_valid(pages[j], slot_lengths', slot_generations')
<1>1. /\ pages[j].place \in Places
      /\ is_valid(pages[j], slot_lengths, slot_generations)
      /\ free_list[pages[j].place] = 0
  BY DEF ZInv, ZramTypeOK, Entry, SlotsOwned, is_valid
<1>2. pages[j].place \notin U  BY <1>1
<1>3. pages[j].place \notin Freed(i)  BY DEF Freed, ZInv, SlotsOwned
<1> QED  BY <1>1, <1>2, <1>3 DEF SlotsAfter, is_valid
-----------------------------------------------------------------------------
\* The branch of store_page that stores p, in slot s.
Stores(i, p, s) ==
    /\ size_class_index(s[1], stored_len(p))
    /\ free_list[s] > 0
    /\ zspages' = [zspages EXCEPT ![s[1]] = IF s[2] = @ THEN @ + 1 ELSE @]
    /\ storage' = [storage EXCEPT ![s] = payload(p)]
    /\ pages' = [j \in DOMAIN pages \cup {i} |->
                   IF j = i THEN [place |-> s, generation |-> next_generation(slot_generations[s]),
                                  encoding |-> encoding(p)]
                   ELSE pages[j]]
    /\ SlotsAfter({s}, stored_len(p), Freed(i))
    /\ s \notin Freed(i)

\* store_page refuses the page or stores it in some free slot.
LEMMA StoreCases ==
    ASSUME ZInv, NEW i, NEW p, store_page(i, p)
    PROVE  \/ /\ i >= max_pages \/ PageLen[p] > PAGE_SIZE
              /\ reply' = Err(IF i >= max_pages THEN "PageIndexOutOfRange" ELSE "PageTooLarge")
              /\ UNCHANGED <<zsVars, pages>>
           \/ /\ i < max_pages /\ PageLen[p] <= PAGE_SIZE /\ reply' = Ok(NoPage)
              /\ \E s \in Places : Stores(i, p, s)
<1>1. CASE /\ i >= max_pages \/ PageLen[p] > PAGE_SIZE
           /\ reply' = Err(IF i >= max_pages THEN "PageIndexOutOfRange" ELSE "PageTooLarge")
           /\ UNCHANGED <<zsVars, pages>>
  BY <1>1
<1>2. CASE ~(/\ i >= max_pages \/ PageLen[p] > PAGE_SIZE
             /\ reply' = Err(IF i >= max_pages THEN "PageIndexOutOfRange" ELSE "PageTooLarge")
             /\ UNCHANGED <<zsVars, pages>>)
  <2>1. i < max_pages /\ PageLen[p] <= PAGE_SIZE /\ reply' = Ok(NoPage)
    BY <1>2, ZenonT(30) DEF store_page
  <2>2. PICK s \in Places :
          LET generation == next_generation(slot_generations[s])
              entry   == [place |-> s, generation |-> generation, encoding |-> encoding(p)]
              lengths == [slot_lengths EXCEPT ![s] = stored_len(p)]
              gens    == [slot_generations EXCEPT ![s] = generation]
              free_entries == [free_list EXCEPT ![s] = @ - 1]
          IN  /\ size_class_index(s[1], stored_len(p))
              /\ takes_from(s[1], s[2])
              /\ free_list[s] > 0
              /\ zspages' = [zspages EXCEPT ![s[1]] = IF s[2] = @ THEN @ + 1 ELSE @]
              /\ storage' = [storage EXCEPT ![s] = payload(p)]
              /\ pages' = [j \in DOMAIN pages \cup {i} |-> IF j = i THEN entry ELSE pages[j]]
              /\ IF i \in DOMAIN pages
                   THEN free(pages[i], lengths, gens, free_entries)
                   ELSE /\ slot_lengths' = lengths
                        /\ slot_generations' = gens
                        /\ free_list' = free_entries
    BY <1>2, ZenonT(30) DEF store_page
  <2>3. SlotsAfter({s}, stored_len(p), Freed(i)) /\ s \notin Freed(i)
    BY <2>2, StoreSlots, ZenonT(30)
  <2> QED  BY <2>1, <2>2, <2>3, ZenonT(30) DEF Stores
<1> QED  BY <1>1, <1>2

\* Storing keeps what every other entry holds, and makes the entry of i hold p.
LEMMA StoreHolds ==
    ASSUME ZInv, NEW i, NEW p \in Inputs, PageLen[p] <= PAGE_SIZE,
           NEW s \in Places, Stores(i, p, s)
    PROVE  /\ Holds(i, p)'
           /\ \A j \in DOMAIN pages \ {i} : \A q : Holds(j, q) => Holds(j, q)'
<1>1. Holds(i, p)'
  BY DEF Stores, Holds, ZInv, ZramTypeOK
<1>2. ASSUME NEW j \in DOMAIN pages \ {i}, NEW q, Holds(j, q) PROVE Holds(j, q)'
  <2>1. pages[j].place \notin {s}
    BY <1>2, OthersUntouched DEF Stores
  <2>2. pages'[j] = pages[j] /\ storage'[pages[j].place] = storage[pages[j].place]
    BY <2>1 DEF Stores, ZInv, ZramTypeOK
  <2> QED  BY <1>2, <2>2 DEF Holds
<1> QED  BY <1>1, <1>2

\* Storing keeps the invariant.
LEMMA StoreStep ==
    ASSUME ZInv, NEW i \in Indexes, i < max_pages, NEW p \in Inputs, PageLen[p] <= PAGE_SIZE,
           NEW s \in Places, Stores(i, p, s)
    PROVE  ZInv'
<1> DEFINE entry == [place |-> s, generation |-> next_generation(slot_generations[s]),
                     encoding |-> encoding(p)]
<1>1. /\ stored_len(p) \in Nat \ {0} /\ encoding(p) \in {"Raw", "Lz4"}
      /\ payload(p) \in [page : Inputs \cup {NoPage}, form : Form]
  BY PayloadRoundTrip, entry.encoding = encoding(p), ZenonT(30)
<1>2. s[1] \in Class /\ s[2] \in Zspages  BY PlaceParts
<1>3. stored_len(p) <= SIZE_CLASSES[s[1]]
  BY <1>1, <1>2, ClassAssumption, PageAssumption DEF Stores, size_class_index
<1>4. /\ slot_lengths' \in [Places -> Nat]
      /\ \A q \in Places : slot_lengths'[q] <= SIZE_CLASSES[q[1]]
      /\ slot_generations' \in [Places -> 0 .. GenMod - 1]
      /\ free_list' \in [Places -> Nat]
      /\ \A q \in Places : free_list'[q] = IF slot_lengths'[q] = 0 THEN 1 ELSE 0
  BY <1>1, <1>3, SlotsKeepTypes DEF Stores
<1>5. DOMAIN pages' = DOMAIN pages \cup {i} /\ pages'[i] = entry
      /\ \A j \in DOMAIN pages \ {i} : pages'[j] = pages[j]
  BY DEF Stores
<1>6. entry \in Entry
  BY <1>1, NextGeneration DEF ZInv, ZramTypeOK, Entry
<1>7. ZramTypeOK'
  <2>1. zspages' \in [Class -> 0 .. MaxZspages]
    BY <1>2, DeviceAssumption DEF Stores, ZInv, ZramTypeOK, Zspages
  <2>2. storage' \in [Places -> [page : Inputs \cup {NoPage}, form : Form]]
    BY <1>1 DEF Stores, ZInv, ZramTypeOK
  <2>3. DOMAIN pages' \subseteq Indexes /\ \A j \in DOMAIN pages' : pages'[j] \in Entry
    BY <1>5, <1>6 DEF ZInv, ZramTypeOK
  <2> QED  BY <1>4, <2>1, <2>2, <2>3 DEF ZramTypeOK
<1>8. is_valid(pages'[i], slot_lengths', slot_generations')
  BY <1>1, <1>5 DEF Stores, SlotsAfter, is_valid
<1>9. \A j \in DOMAIN pages \ {i} : /\ pages[j].place \notin {s} \cup Freed(i)
                                    /\ is_valid(pages[j], slot_lengths', slot_generations')
  BY OthersUntouched DEF Stores
<1>10. \A q \in Places : slot_lengths'[q] # 0 => \E j \in DOMAIN pages' : pages'[j].place = q
  <2> SUFFICES ASSUME NEW q \in Places, slot_lengths'[q] # 0, q # s
               PROVE  \E j \in DOMAIN pages' : pages'[j].place = q
    BY <1>5
  <2>1. slot_lengths[q] # 0 /\ q \notin Freed(i)  BY DEF Stores, SlotsAfter
  <2>2. PICK j \in DOMAIN pages : pages[j].place = q  BY <2>1 DEF ZInv, SlotsOwned
  <2>3. j # i  BY <2>1, <2>2 DEF Freed
  <2> QED  BY <1>5, <2>2, <2>3
<1>11. SlotsOwned'
  <2>1. \A j \in DOMAIN pages' : is_valid(pages'[j], slot_lengths', slot_generations')
    BY <1>5, <1>8, <1>9
  <2>2. \A j, k \in DOMAIN pages' : pages'[j].place = pages'[k].place => j = k
    BY <1>5, <1>9 DEF ZInv, SlotsOwned
  <2> QED  BY <1>4, <1>10, <2>1, <2>2 DEF SlotsOwned, is_valid
<1>12. \A j \in DOMAIN pages' : j < max_pages /\ \E q \in Inputs : Holds(j, q)'
  BY <1>5, StoreHolds, ZenonT(30) DEF ZInv
<1> QED  BY <1>7, <1>11, <1>12 DEF ZInv

\* The branch of invalidate_page that removes an entry.
Removes(i) ==
    /\ pages' = [j \in DOMAIN pages \ {i} |-> pages[j]]
    /\ SlotsAfter({}, 0, Freed(i))
    /\ UNCHANGED <<zspages, storage>>

\* invalidate_page finds nothing, or removes an entry and frees its slot without error.
LEMMA InvalidateCases ==
    ASSUME ZInv, NEW i, invalidate_page(i)
    PROVE  /\ reply' = Ok(NoPage)
           /\ \/ i \notin DOMAIN pages /\ UNCHANGED <<zsVars, pages>>
              \/ i \in DOMAIN pages /\ Removes(i)
<1>1. CASE i \notin DOMAIN pages
  BY <1>1 DEF invalidate_page
<1>2. CASE i \in DOMAIN pages
  BY <1>2, InvalidateSlots DEF invalidate_page, Removes
<1> QED  BY <1>1, <1>2

\* Removing an entry keeps the invariant and what the others hold.
LEMMA InvalidateStep ==
    ASSUME ZInv, NEW i \in DOMAIN pages, Removes(i)
    PROVE  ZInv' /\ \A j \in DOMAIN pages \ {i} : \A q : Holds(j, q) => Holds(j, q)'
<1>1. /\ slot_lengths' \in [Places -> Nat]
      /\ \A q \in Places : slot_lengths'[q] <= SIZE_CLASSES[q[1]]
      /\ slot_generations' \in [Places -> 0 .. GenMod - 1]
      /\ free_list' \in [Places -> Nat]
      /\ \A q \in Places : free_list'[q] = IF slot_lengths'[q] = 0 THEN 1 ELSE 0
  BY SlotsKeepTypes DEF Removes
<1>2. DOMAIN pages' = DOMAIN pages \ {i} /\ \A j \in DOMAIN pages \ {i} : pages'[j] = pages[j]
  BY DEF Removes
<1>3. ZramTypeOK'
  BY <1>1, <1>2 DEF Removes, ZInv, ZramTypeOK
<1>4. \A j \in DOMAIN pages \ {i} : is_valid(pages[j], slot_lengths', slot_generations')
  BY OthersUntouched DEF Removes
<1>5. \A q \in Places : slot_lengths'[q] # 0 => \E j \in DOMAIN pages' : pages'[j].place = q
  <2> SUFFICES ASSUME NEW q \in Places, slot_lengths'[q] # 0
               PROVE  \E j \in DOMAIN pages' : pages'[j].place = q
    OBVIOUS
  <2>1. slot_lengths[q] # 0 /\ q \notin Freed(i)  BY DEF Removes, SlotsAfter
  <2>2. PICK j \in DOMAIN pages : pages[j].place = q  BY <2>1 DEF ZInv, SlotsOwned
  <2>3. j # i  BY <2>1, <2>2 DEF Freed
  <2> QED  BY <1>2, <2>2, <2>3
<1>6. SlotsOwned'
  <2>1. \A j \in DOMAIN pages' : is_valid(pages'[j], slot_lengths', slot_generations')
    BY <1>2, <1>4
  <2>2. \A j, k \in DOMAIN pages' : pages'[j].place = pages'[k].place => j = k
    BY <1>2 DEF ZInv, SlotsOwned
  <2> QED  BY <1>1, <1>5, <2>1, <2>2 DEF SlotsOwned, is_valid
<1>7. \A j \in DOMAIN pages \ {i} : \A q : Holds(j, q) => Holds(j, q)'
  BY <1>2 DEF Removes, Holds
<1> QED  BY <1>2, <1>3, <1>6, <1>7 DEF ZInv

\* The invariant holds of an empty device.
LEMMA ZInvInit == ZramInit => ZInv
<1> SUFFICES ASSUME ZramInit PROVE ZInv
  OBVIOUS
<1>1. \A s \in Places : SIZE_CLASSES[s[1]] \in Nat
  BY PlaceParts, ClassAssumption, PageAssumption
<1>2. ZramTypeOK
  BY <1>1, DeviceAssumption DEF ZramInit, ZramTypeOK, Form
<1>3. SlotsOwned
  BY DEF ZramInit, SlotsOwned
<1> QED  BY <1>2, <1>3 DEF ZInv, ZramInit

\* A step that leaves the slots and the entries alone keeps the invariant.
LEMMA ZInvStutter == ZInv /\ UNCHANGED <<zsVars, pages>> => ZInv'
BY DEF ZInv, ZramTypeOK, SlotsOwned, Holds, is_valid, zsVars

\* Every operation of ZramDevice keeps the invariant.
LEMMA ZInvStep == ZInv /\ [ZramNext]_zramVars => ZInv'
<1> SUFFICES ASSUME ZInv, [ZramNext]_zramVars PROVE ZInv'
  OBVIOUS
<1>1. ASSUME NEW i \in Indexes, load_page(i) PROVE ZInv'
  BY <1>1, ZInvStutter DEF load_page
<1>2. ASSUME NEW i \in Indexes, invalidate_page(i) PROVE ZInv'
  BY <1>2, InvalidateCases, InvalidateStep, ZInvStutter
<1>3. ASSUME NEW i \in Indexes, NEW p \in Inputs, store_page(i, p) PROVE ZInv'
  BY <1>3, StoreCases, StoreStep, ZInvStutter
<1>4. CASE UNCHANGED zramVars
  BY <1>4, ZInvStutter DEF zramVars
<1> QED  BY <1>1, <1>2, <1>3, <1>4 DEF ZramNext

\* Whatever is stored, replaced and invalidated, every entry owns its slot, no slot is
\* shared or lost, and no payload is longer than its slot.
THEOREM ZramSlotsOwned == ZramSpec => [](ZramTypeOK /\ SlotsOwned)
BY ZInvInit, ZInvStep, PTL DEF ZramSpec, ZInv

\* The bytes of one slot end where the next begins or the zspage ends.
LEMMA SlotFits ==
    ASSUME NEW size \in Nat \ {0}, NEW bytes \in Nat, size <= bytes, NEW n \in Nat,
           n < (IF bytes \div size > 1 THEN bytes \div size ELSE 1)
    PROVE  n * size + size <= bytes
<1> DEFINE d == bytes \div size
<1>1. d \in Nat /\ size * d <= bytes  OBVIOUS
<1>2. CASE n = 0  BY <1>2
<1>3. CASE n # 0
  <2>1. n + 1 <= d  BY <1>1, <1>3
  <2>2. \A a, b, c \in Nat : a <= b => c * a <= c * b  OBVIOUS
  <2>3. size * (n + 1) <= size * d  BY <1>1, <2>1, <2>2
  <2>4. n * size + size = size * (n + 1)  OBVIOUS
  <2>5. size * (n + 1) \in Nat /\ size * d \in Nat  BY <1>1
  <2> HIDE DEF d
  <2> QED  BY <1>1, <2>3, <2>4, <2>5
<1> QED  BY <1>2, <1>3

\* No payload reaches beyond the storage of its zspage: the slices that allocate
\* writes and read copies are in bounds, for any table of size classes.
THEOREM ZramSlicesInBounds ==
    ZramSpec => [](\A s \in Places : s[3] * SIZE_CLASSES[s[1]] + slot_lengths[s]
                                        <= PAGE_SIZE * pages_per_zspage(SIZE_CLASSES[s[1]]))
<1> DEFINE InBounds == \A s \in Places : s[3] * SIZE_CLASSES[s[1]] + slot_lengths[s]
                                          <= PAGE_SIZE * pages_per_zspage(SIZE_CLASSES[s[1]])
<1>1. ZramTypeOK => InBounds
  <2> SUFFICES ASSUME ZramTypeOK, NEW s \in Places
               PROVE  s[3] * SIZE_CLASSES[s[1]] + slot_lengths[s]
                        <= PAGE_SIZE * pages_per_zspage(SIZE_CLASSES[s[1]])
    OBVIOUS
  <2> DEFINE size == SIZE_CLASSES[s[1]]
             bytes == PAGE_SIZE * pages_per_zspage(size)
  <2>1. s[1] \in Class /\ s[3] \in 0 .. slots(s[1]) - 1  BY DEF Places
  <2>2. size \in Nat \ {0} /\ size <= PAGE_SIZE  BY <2>1, ClassAssumption, PageAssumption
  <2>3. bytes \in Nat /\ size <= bytes  BY <2>2, PageAssumption DEF pages_per_zspage
  <2>4. slots(s[1]) = IF bytes \div size > 1 THEN bytes \div size ELSE 1  BY DEF slots
  <2>5. bytes \div size \in Int  BY <2>2, <2>3
  <2> HIDE DEF bytes
  <2>6. s[3] \in Nat /\ s[3] < (IF bytes \div size > 1 THEN bytes \div size ELSE 1)
    BY <2>1, <2>4, <2>5
  <2>7. s[3] * size + size <= bytes  BY <2>2, <2>3, <2>6, SlotFits
  <2>8. slot_lengths[s] \in Nat /\ slot_lengths[s] <= size  BY DEF ZramTypeOK
  <2>9. s[3] * size \in Nat  BY <2>2, <2>6
  <2>10. s[3] * size + slot_lengths[s] <= bytes  BY <2>2, <2>3, <2>7, <2>8, <2>9
  <2> QED  BY <2>10 DEF bytes
<1> QED  BY <1>1, ZramSlotsOwned, PTL
-----------------------------------------------------------------------------
(* The refinement: store[i] is what load_page(i) would return.              *)

Contents ==
    /\ \A i \in DOMAIN pages : \A p : Holds(i, p) => loaded(i) = Ok(p)
    /\ \A i : i \notin DOMAIN pages => loaded(i) = Err("MissingPage")

\* An entry loads the page it holds, in every state that satisfies the invariant.
LEMMA InvContents == ZInv => Contents
<1> SUFFICES ASSUME ZInv PROVE Contents
  OBVIOUS
<1>1. ASSUME NEW i \in DOMAIN pages, NEW p, Holds(i, p) PROVE loaded(i) = Ok(p)
  BY <1>1, LoadedPage DEF ZInv, SlotsOwned
<1>2. ASSUME NEW i, i \notin DOMAIN pages PROVE loaded(i) = Err("MissingPage")
  BY <1>2 DEF loaded
<1> QED  BY <1>1, <1>2 DEF Contents

\* The same after a step.
LEMMA InvContentsNext == ZInv' => Contents'
BY InvContents, PTL

\* A call that keeps the entry of j and what it holds keeps what load_page returns.
LEMMA SameLoaded ==
    ASSUME ZInv, ZInv', NEW j, j \in DOMAIN pages <=> j \in DOMAIN pages',
           \A q : j \in DOMAIN pages /\ Holds(j, q) => Holds(j, q)'
    PROVE  loaded(j)' = loaded(j)
<1>1. Contents /\ Contents'  BY InvContents, InvContentsNext
<1>2. CASE j \notin DOMAIN pages
  BY <1>1, <1>2 DEF Contents
<1>3. CASE j \in DOMAIN pages
  <2>1. PICK q \in Inputs : Holds(j, q)  BY <1>3 DEF ZInv
  <2>2. loaded(j) = Ok(q)  BY <1>1, <1>3, <2>1 DEF Contents
  <2>3. Holds(j, q)'  BY <1>3, <2>1
  <2>4. loaded(j)' = Ok(q)  BY <1>1, <1>3, <2>3 DEF Contents
  <2> QED  BY <2>2, <2>4
<1> QED  BY <1>2, <1>3

Mapped == [i \in {i \in Indexes : i < max_pages} |-> loaded(i)[2]]

\* An empty device is an empty map.
LEMMA MapInit == ZramInit => PS!Init
<1> SUFFICES ASSUME ZramInit PROVE PS!Init
  OBVIOUS
<1>1. Contents  BY ZInvInit, InvContents
<1>2. \A i : loaded(i)[2] = NoPage  BY <1>1 DEF Contents, ZramInit, Err
<1> QED  BY <1>2 DEF PS!Init, PS!NoPage, PS!Ok, ZramInit, Ok, NoPage

\* load_page answers from the map.
LEMMA LoadMaps ==
    ASSUME ZInv, NEW i \in Indexes, load_page(i)
    PROVE  PS!load_page(i)
<1>1. Mapped' = Mapped
  BY DEF load_page, Mapped, loaded, zsVars, is_valid, decoded
<1>2. Contents  BY InvContents
<1>3. CASE i \notin DOMAIN pages
  <2>1. reply' = Err("MissingPage") /\ loaded(i)[2] = NoPage
    BY <1>2, <1>3 DEF Contents, load_page, Err
  <2> QED  BY <1>1, <2>1 DEF PS!load_page, PS!Err, PS!NoPage, Err, NoPage, Mapped
<1>4. CASE i \in DOMAIN pages
  <2>1. PICK p \in Inputs : Holds(i, p)  BY <1>4 DEF ZInv
  <2>2. i < max_pages /\ reply' = Ok(p) /\ loaded(i)[2] = p /\ p # NoPage
    BY <1>2, <1>4, <2>1, PageAssumption DEF Contents, load_page, Ok, ZInv
  <2> QED  BY <1>1, <2>2 DEF PS!load_page, PS!Ok, PS!NoPage, Ok, NoPage, Mapped
<1> QED  BY <1>3, <1>4

\* invalidate_page removes the index from the map.
LEMMA InvalidateMaps ==
    ASSUME ZInv, ZInv', NEW i \in Indexes, invalidate_page(i)
    PROVE  PS!invalidate_page(i)
<1>1. reply' = Ok(NoPage)  BY InvalidateCases
<1>2. Contents /\ Contents'  BY InvContents, InvContentsNext
<1>3. /\ i \notin DOMAIN pages'
      /\ \A j : j # i => (j \in DOMAIN pages <=> j \in DOMAIN pages')
      /\ \A j \in DOMAIN pages \ {i} : \A q : Holds(j, q) => Holds(j, q)'
  <2>1. CASE i \notin DOMAIN pages /\ UNCHANGED <<zsVars, pages>>
    BY <2>1 DEF Holds, zsVars
  <2>2. CASE i \in DOMAIN pages /\ Removes(i)
    BY <2>2, InvalidateStep DEF Removes
  <2> QED  BY <2>1, <2>2, InvalidateCases
<1>4. loaded(i)'[2] = NoPage  BY <1>2, <1>3 DEF Contents, Err
<1>5. \A j : j # i => loaded(j)' = loaded(j)
  BY <1>3, SameLoaded
<1>6. Mapped' = [j \in {j \in Indexes : j < max_pages} |-> IF j = i THEN NoPage ELSE Mapped[j]]
  BY <1>4, <1>5 DEF Mapped
<1> QED  BY <1>1, <1>6 DEF PS!invalidate_page, PS!Ok, PS!NoPage, Ok, NoPage, Mapped

\* store_page enters the page in the map, or refuses it and leaves the map alone.
LEMMA StoreMaps ==
    ASSUME ZInv, ZInv', NEW i \in Indexes, NEW p \in Inputs, store_page(i, p)
    PROVE  PS!store_page(i, p)
<1>0. i \in Nat /\ max_pages \in Nat /\ PageLen[p] \in Nat /\ PAGE_SIZE \in Nat
  BY DeviceAssumption, PageAssumption
<1>1. CASE /\ i >= max_pages \/ PageLen[p] > PAGE_SIZE
           /\ reply' = Err(IF i >= max_pages THEN "PageIndexOutOfRange" ELSE "PageTooLarge")
           /\ UNCHANGED <<zsVars, pages>>
  <2>1. Mapped' = Mapped  BY <1>1 DEF Mapped, loaded, zsVars, is_valid, decoded
  <2> QED  BY <1>0, <1>1, <2>1 DEF PS!store_page, PS!Err, PS!NoPage, Err, NoPage, Mapped
<1>2. ASSUME i < max_pages, PageLen[p] <= PAGE_SIZE, reply' = Ok(NoPage),
             NEW s \in Places, Stores(i, p, s)
      PROVE  PS!store_page(i, p)
  <2>1. /\ Holds(i, p)'
        /\ \A j \in DOMAIN pages \ {i} : \A q : Holds(j, q) => Holds(j, q)'
    BY <1>2, StoreHolds
  <2>2. i \in DOMAIN pages' /\ \A j : j # i => (j \in DOMAIN pages <=> j \in DOMAIN pages')
    BY <1>2 DEF Stores
  <2>3. loaded(i)'[2] = p  BY <2>1, <2>2, InvContentsNext DEF Contents, Ok
  <2>4. \A j : j # i => loaded(j)' = loaded(j)  BY <2>1, <2>2, SameLoaded
  <2>5. Mapped' = [Mapped EXCEPT ![i] = p]  BY <2>3, <2>4, ZenonT(30) DEF Mapped
  <2> QED  BY <1>0, <1>2, <2>5 DEF PS!store_page, PS!Ok, PS!NoPage, Ok, NoPage, Mapped
<1> QED  BY <1>1, <1>2, StoreCases

\* Every operation is the operation of the map.
LEMMA MapStep == ZInv /\ ZInv' /\ [ZramNext]_zramVars => [PS!Next]_<<Mapped, reply>>
<1> SUFFICES ASSUME ZInv, ZInv', [ZramNext]_zramVars PROVE [PS!Next]_<<Mapped, reply>>
  OBVIOUS
<1> DEFINE Index == {i \in Indexes : i < max_pages}
           Others == {i \in Indexes : i >= max_pages}
           Small == {p \in Inputs : PageLen[p] <= PAGE_SIZE}
           Large == {p \in Inputs : PageLen[p] > PAGE_SIZE}
<1>1. Indexes \subseteq Index \cup Others  BY DeviceAssumption
<1>2. Inputs \subseteq Small \cup Large  BY PageAssumption
<1>3. ASSUME NEW i \in Indexes, load_page(i) PROVE PS!Next
  BY <1>1, <1>3, LoadMaps DEF PS!Next
<1>4. ASSUME NEW i \in Indexes, invalidate_page(i) PROVE PS!Next
  BY <1>1, <1>4, InvalidateMaps DEF PS!Next
<1>5. ASSUME NEW i \in Indexes, NEW p \in Inputs, store_page(i, p) PROVE PS!Next
  BY <1>1, <1>2, <1>5, StoreMaps DEF PS!Next
<1>6. CASE UNCHANGED zramVars
  BY <1>6 DEF zramVars, zsVars, Mapped, loaded, is_valid, decoded
<1> QED  BY <1>3, <1>4, <1>5, <1>6 DEF ZramNext

\* The compressed page store implements a map from index to page.
THEOREM ZramStoresPages == ZramSpec => StoresPages
<1>1. ZramInit => PS!Init  BY MapInit
<1>2. ZInv /\ ZInv' /\ [ZramNext]_zramVars => [PS!Next]_<<Mapped, reply>>  BY MapStep
<1> QED  BY <1>1, <1>2, ZInvInit, ZInvStep, PTL DEF ZramSpec, StoresPages, PS!Spec, Mapped
=============================================================================
