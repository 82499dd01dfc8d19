------------------------------- MODULE Zram -------------------------------
(***************************************************************************)
(* The compressed page store (kernel/zram.rs): ZramDevice, which maps page *)
(* indexes to handles, over ZsAllocator, which keeps payloads in the slots *)
(* of zspages, one pool per size class.  Every operation has &mut self, so *)
(* an operation is a step; ZswapCache only counts hits and misses on top.  *)
(*                                                                         *)
(* A slot is named by its class, zspage and index.  A free list is the     *)
(* number of its entries for each slot: which free slot pop returns is     *)
(* left open.  A zspage that does not exist yet looks as ZsPage::new makes *)
(* it.  The counters of ZramStats are left out.                            *)
(***************************************************************************)
EXTENDS Integers, FiniteSets

CONSTANTS
    Inputs,         \* the pages callers store
    PageLen,        \* page -> its length
    CompressedLen,  \* page -> the length lz4_flex::compress gives
    PAGE_SIZE,
    NumClasses, SIZE_CLASSES,   \* class -> slot size
    max_pages,
    Indexes,        \* the page indexes callers use
    GenMod,         \* 2^32: generations are u32
    MaxZspages      \* bound on the zspages of a class

Class == 0 .. NumClasses - 1
Zspages == 0 .. MaxZspages - 1
NoPage == "NoPage"

ASSUME PageAssumption == /\ PAGE_SIZE \in Nat \ {0}
                         /\ NoPage \notin Inputs
                         /\ PageLen \in [Inputs -> Nat \ {0}]
                         /\ CompressedLen \in [Inputs -> Nat \ {0}]
ASSUME ClassAssumption == /\ NumClasses \in Nat
                          /\ SIZE_CLASSES \in [Class -> 1 .. PAGE_SIZE]
                          /\ \E k \in Class : SIZE_CLASSES[k] = PAGE_SIZE
ASSUME DeviceAssumption == /\ max_pages \in Nat /\ Indexes \subseteq Nat
                           /\ GenMod \in Nat /\ GenMod > 2
                           /\ MaxZspages \in Nat

pages_per_zspage(slot_size) == IF slot_size <= 512 THEN 1 ELSE IF slot_size <= 2048 THEN 2 ELSE 4

\* (bytes / slot_size).max(1)
slots(k) ==
    LET n == (PAGE_SIZE * pages_per_zspage(SIZE_CLASSES[k])) \div SIZE_CLASSES[k]
    IN  IF n > 1 THEN n ELSE 1

Places == UNION {{k} \X Zspages \X (0 .. slots(k) - 1) : k \in Class}

VARIABLES
    zspages,            \* class -> the number of zspages in its pool
    slot_lengths, slot_generations, free_list,
    storage,            \* what the bytes of a slot hold
    pages,              \* ZramDevice::pages
    reply               \* the Result of the last call

zsVars == <<zspages, slot_lengths, slot_generations, free_list, storage>>
zramVars == <<zsVars, pages, reply>>

Ok(p) == <<"Ok", p>>
Err(e) == <<e, NoPage>>
Form == {"none", "plain", "lz4"}

ZramInit ==
    /\ zspages = [k \in Class |-> 0]
    /\ slot_lengths = [s \in Places |-> 0]
    /\ slot_generations = [s \in Places |-> 0]
    /\ free_list = [s \in Places |-> 1]
    /\ storage = [s \in Places |-> [page |-> NoPage, form |-> "none"]]
    /\ pages = [i \in {} |-> 0]
    /\ reply = Ok(NoPage)
-----------------------------------------------------------------------------
(* compress and decompress of lz4_flex; the choice of the encoding          *)

compress(p)   == [page |-> p, form |-> "lz4"]
to_vec(p)     == [page |-> p, form |-> "plain"]
decompress(b) == [b EXCEPT !.form = IF b.form = "lz4" THEN "plain" ELSE "none"]

encoding(p) ==
    IF CompressedLen[p] < PageLen[p] /\ CompressedLen[p] <= PAGE_SIZE THEN "Lz4" ELSE "Raw"
payload(p)    == IF encoding(p) = "Lz4" THEN compress(p) ELSE to_vec(p)
stored_len(p) == IF encoding(p) = "Lz4" THEN CompressedLen[p] ELSE PageLen[p]

\* Mutant: what fills a slot of the largest class is taken to be raw.
decoded_by_class(entry, b) == IF SIZE_CLASSES[entry.place[1]] = PAGE_SIZE THEN b ELSE decompress(b)

\* The bytes load_page returns for an entry
decoded(entry, b) == IF entry.encoding = "Raw" THEN b ELSE decompress(b)
-----------------------------------------------------------------------------
(* ZsPage and ZsAllocator                                                   *)

\* Mutant: the counter does not wrap.
next_generation_unwrapped(g) == g + 1

\* nonzero_generation(g.wrapping_add(1))
next_generation(g) == IF g + 1 = GenMod THEN 1 ELSE g + 1

\* size_class_index returns k.
size_class_index(k, size) ==
    SIZE_CLASSES[k] >= size /\ \A j \in Class : j < k => SIZE_CLASSES[j] < size

has_free(k, z) == \E s \in 0 .. slots(k) - 1 : free_list[<<k, z, s>>] > 0

\* Mutant: only the zspage made last is tried.
takes_from_last(k, z) == /\ has_free(k, z)
                         /\ IF zspages[k] > 0 /\ has_free(k, zspages[k] - 1)
                              THEN z = zspages[k] - 1 ELSE z = zspages[k]

\* ZsAllocator::store takes a slot of the first zspage that has one, else of a new one.
takes_from(k, z) ==
    /\ z <= zspages[k]
    /\ has_free(k, z)
    /\ \A y \in Zspages : y < z => ~has_free(k, y)

\* The check ZsPage::read and ZsPage::free make of a handle
is_valid(h, lengths, gens) == gens[h.place] = h.generation /\ lengths[h.place] # 0

\* Mutant: the length, which tells a used slot from a free one, is not reset.
free_length_kept(h, lengths, gens, free_entries) ==
    /\ slot_lengths' = lengths
    /\ slot_generations' = [gens EXCEPT ![h.place] = next_generation(@)]
    /\ free_list' = [free_entries EXCEPT ![h.place] = @ + 1]

\* ZsAllocator::free of handle h, from the given lengths, generations and free lists.
\* Its error changes nothing.
free(h, lengths, gens, free_entries) ==
    IF is_valid(h, lengths, gens)
      THEN /\ slot_lengths' = [lengths EXCEPT ![h.place] = 0]
           /\ slot_generations' = [gens EXCEPT ![h.place] = next_generation(@)]
           /\ free_list' = [free_entries EXCEPT ![h.place] = @ + 1]
      ELSE /\ slot_lengths' = lengths
           /\ slot_generations' = gens
           /\ free_list' = free_entries
-----------------------------------------------------------------------------
(* ZramDevice                                                               *)

store_page(i, p) ==
    \/ /\ i >= max_pages \/ PageLen[p] > PAGE_SIZE
       /\ reply' = Err(IF i >= max_pages THEN "PageIndexOutOfRange" ELSE "PageTooLarge")
       /\ UNCHANGED <<zsVars, pages>>
    \/ /\ i < max_pages /\ PageLen[p] <= PAGE_SIZE
       /\ \E s \in Places :
            LET generation == next_generation(slot_generations[s])
                entry   == [place |-> s, generation |-> generation, encoding |-> encoding(p)]
                lengths == [slot_lengths EXCEPT ![s] = stored_len(p)]
                gens    == [slot_generations EXCEPT ![s] = generation]
                free_entries == [free_list EXCEPT ![s] = @ - 1]
            IN  /\ size_class_index(s[1], stored_len(p))
                /\ takes_from(s[1], s[2])
                /\ free_list[s] > 0
                /\ zspages' = [zspages EXCEPT ![s[1]] = IF s[2] = @ THEN @ + 1 ELSE @]
                /\ storage' = [storage EXCEPT ![s] = payload(p)]
                /\ pages' = [j \in DOMAIN pages \cup {i} |-> IF j = i THEN entry ELSE pages[j]]
                /\ IF i \in DOMAIN pages
                     THEN free(pages[i], lengths, gens, free_entries)
                     ELSE /\ slot_lengths' = lengths
                          /\ slot_generations' = gens
                          /\ free_list' = free_entries
       /\ reply' = Ok(NoPage)

\* What load_page(i) returns
loaded(i) ==
    IF i \notin DOMAIN pages THEN Err("MissingPage")
    ELSE IF ~is_valid(pages[i], slot_lengths, slot_generations) THEN Err("InvalidHandle")
    ELSE LET b == decoded(pages[i], storage[pages[i].place])
         IN  IF b.form = "plain" THEN Ok(b.page) ELSE Err("DecompressionFailed")

load_page(i) ==
    /\ reply' = loaded(i)
    /\ UNCHANGED <<zsVars, pages>>

invalidate_page(i) ==
    \/ /\ i \notin DOMAIN pages
       /\ reply' = Ok(NoPage)
       /\ UNCHANGED <<zsVars, pages>>
    \/ /\ i \in DOMAIN pages
       /\ pages' = [j \in DOMAIN pages \ {i} |-> pages[j]]
       /\ free(pages[i], slot_lengths, slot_generations, free_list)
       /\ reply' = IF is_valid(pages[i], slot_lengths, slot_generations)
                     THEN Ok(NoPage) ELSE Err("InvalidHandle")
       /\ UNCHANGED <<zspages, storage>>

ZramNext ==
    \E i \in Indexes :
      \/ load_page(i) \/ invalidate_page(i)
      \/ \E p \in Inputs : store_page(i, p)

ZramSpec == ZramInit /\ [][ZramNext]_zramVars
-----------------------------------------------------------------------------
(* Properties                                                               *)

Entry == [place : Places, generation : 1 .. GenMod - 1, encoding : {"Raw", "Lz4"}]

\* Lengths fit their slots, so that no payload runs into the next slot, generations
\* stay within a u32 and a handle never has generation 0, that of an unused slot.
ZramTypeOK ==
    /\ zspages \in [Class -> 0 .. MaxZspages]
    /\ slot_lengths \in [Places -> Nat]
    /\ \A s \in Places : slot_lengths[s] <= SIZE_CLASSES[s[1]]
    /\ slot_generations \in [Places -> 0 .. GenMod - 1]
    /\ free_list \in [Places -> Nat]
    /\ storage \in [Places -> [page : Inputs \cup {NoPage}, form : Form]]
    /\ DOMAIN pages \subseteq Indexes /\ \A i \in DOMAIN pages : pages[i] \in Entry

\* Every entry of ZramDevice::pages owns its slot: its handle is valid and no other
\* entry has the slot; a used slot belongs to some entry; a slot is on the free list
\* once if it is free and not at all if it is used.  Replacing a page, which takes
\* the new slot before it frees the old one, neither aliases nor leaks.
SlotsOwned ==
    /\ \A i \in DOMAIN pages : is_valid(pages[i], slot_lengths, slot_generations)
    /\ \A i, j \in DOMAIN pages : pages[i].place = pages[j].place => i = j
    /\ \A s \in Places : slot_lengths[s] # 0 => \E i \in DOMAIN pages : pages[i].place = s
    /\ \A s \in Places : free_list[s] = IF slot_lengths[s] = 0 THEN 1 ELSE 0

\* First fit bounds the memory of the store: a pool grows only when all its slots are
\* in use, so no sequence of stores and invalidations makes it need more zspages
\* than max_pages pages fill, and one.
ZspagesBounded == \A k \in Class : zspages[k] <= max_pages \div slots(k) + 1

\* The store implements a map from page index to page: loading returns the page last
\* stored, whatever was stored, replaced and invalidated in between and whichever
\* encoding each page got.
PS == INSTANCE PageStore WITH
        Index  <- {i \in Indexes : i < max_pages},
        Others <- {i \in Indexes : i >= max_pages},
        Pages  <- {p \in Inputs : PageLen[p] <= PAGE_SIZE},
        TooLarge <- {p \in Inputs : PageLen[p] > PAGE_SIZE},
        store  <- [i \in {i \in Indexes : i < max_pages} |-> loaded(i)[2]]

StoresPages == PS!Spec
=============================================================================
