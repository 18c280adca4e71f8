------------------------------ MODULE Catalogue ------------------------------
(***************************************************************************)
(* The catalogue: fetched in two requests (util/http.cpp, xtream/          *)
(* xtream_client.cpp), indexed and filtered for the browser (core/         *)
(* channel_index.cpp).  A body is read in pieces until no more is said to  *)
(* be there, which is also how a query that fails ends it.                 *)
(*                                                                         *)
(* An entry of a list is [id, category, hit]: hit says that its name holds *)
(* what may be typed into the search field; NoId that it has no id.  The   *)
(* lists a provider may send are constants.  A JSON array that stops short *)
(* cannot be parsed.  Connection hands the catalogue over.                 *)
(***************************************************************************)
EXTENDS Integers, Sequences, Subsequences

CONSTANTS CategoryLists, ChannelLists, NoId

Lists   == CategoryLists \cup ChannelLists
Entries == UNION {{list[i] : i \in DOMAIN list} : list \in Lists}

ASSUME CatalogueAssumption == \A list \in Lists : list \in Seq(Entries)

VARIABLES
  request,            \* under way: "None", "Categories" or "Streams"
  sending,            \* the list the provider sends, or NotAList
  received,           \* pieces of it in body; the last closes the array
  out,                \* the worker's Catalog
  offered,            \* history: the lists sent in this fetch
  channels_,          \* the index: categories, channels and their search keys
  indexed,            \* history: the lists sent in the fetch that is indexed
  search              \* search_: what is typed

fetchVars     == <<request, sending, received, out, offered>>
catalogueVars == <<fetchVars, channels_, indexed, search>>

NotAList  == [list |-> << >>, array |-> FALSE]
AList(s)  == [list |-> s, array |-> TRUE]
NoCatalog == [categories |-> << >>, channels |-> << >>]
Searches  == {"", "typed"}

Hits(entries) == [i \in DOMAIN entries |-> entries[i].hit]

Index(catalog) == [categories |-> catalog.categories, channels |-> catalog.channels,
                   category_keys |-> Hits(catalog.categories),
                   channel_keys |-> Hits(catalog.channels)]

CatalogueInit ==
  /\ request = "None" /\ sending = NotAList /\ received = 0
  /\ out = NoCatalog /\ offered = NoCatalog
  /\ channels_ = Index(NoCatalog) /\ indexed = NoCatalog /\ search = ""

-----------------------------------------------------------------------------
(* util/http.cpp get.                                                      *)

Pieces(answer) == Len(answer.list) + 1

\* The provider begins to answer; a request it refuses is GetFails.
Receives(lists) ==
  /\ received' = 0
  /\ sending' \in {NotAList} \cup {AList(s) : s \in lists}

ReadPiece ==
  /\ request # "None" /\ received < Pieces(sending)
  /\ received' = received + 1
  /\ UNCHANGED <<request, sending, out, offered, channels_, indexed, search>>

\* The fetch is over without a catalogue; what it has read of it is dropped
\* with the error.
Abandon ==
  /\ request' = "None" /\ received' = 0 /\ sending' = NotAList
  /\ UNCHANGED <<out, offered, channels_, indexed, search>>

\* No connection, another status than 200, or a read that fails.
GetFails == request # "None" /\ Abandon

\* The body is over when the pieces are, or when asking for more fails.
BodyEnds == request # "None"

\* Mutant: what has arrived of the list is taken.
ParsesPrefix(answer, pieces) == answer.array
Parses(answer, pieces) == answer.array /\ pieces = Pieces(answer)

\* The list as the worker sees it: of a body cut short, its first entries.
Parsed == [i \in {k \in DOMAIN sending.list : k <= received} |-> sending.list[i]]

-----------------------------------------------------------------------------
(* fetch_catalog.                                                          *)

\* Mutant: an entry that has no id is taken as well.
AnyEntry(list) == list
Identified(list) == MembersAt(list, {i \in DOMAIN list : list[i].id # NoId})

BeginFetch ==
  /\ request = "None" /\ request' = "Categories"
  /\ Receives(CategoryLists) /\ out' = NoCatalog /\ offered' = NoCatalog
  /\ UNCHANGED <<channels_, indexed, search>>

CannotParse ==
  /\ BodyEnds /\ ~Parses(sending, received) /\ Abandon

TakeCategories ==
  /\ request = "Categories" /\ BodyEnds /\ Parses(sending, received)
  /\ out' = [out EXCEPT !.categories = Identified(Parsed)]
  /\ offered' = [offered EXCEPT !.categories = sending.list]
  /\ request' = "Streams" /\ Receives(ChannelLists)
  /\ UNCHANGED <<channels_, indexed, search>>

\* Mutant: the keys are those of the catalogue before.
KeysKept(catalog) ==
  [Index(catalog) EXCEPT !.channel_keys =
     [i \in DOMAIN catalog.channels |->
        IF i \in DOMAIN channels_.channel_keys THEN channels_.channel_keys[i]
        ELSE catalog.channels[i].hit]]
Reset(catalog) == Index(catalog)

\* Both lists are there; finish_connect resets the index with them.
TakeChannels ==
  /\ request = "Streams" /\ BodyEnds /\ Parses(sending, received)
  /\ LET catalog == [out EXCEPT !.channels = Identified(Parsed)]
     IN  out' = catalog /\ channels_' = Reset(catalog)
  /\ offered' = [offered EXCEPT !.channels = sending.list]
  /\ indexed' = offered'
  /\ request' = "None" /\ received' = 0 /\ sending' = NotAList
  /\ UNCHANGED search

-----------------------------------------------------------------------------
(* The browser.                                                            *)

TypeSearch ==
  /\ search' \in Searches
  /\ UNCHANGED <<fetchVars, channels_, indexed>>

\* sign_out
ForgetCatalogue ==
  /\ request = "None"
  /\ channels_' = Reset(NoCatalog) /\ indexed' = NoCatalog /\ search' = ""
  /\ UNCHANGED fetchVars

\* Mutant: the last category of an id takes its channels.
LastSlot(id) == {i \in DOMAIN channels_.categories :
                   /\ channels_.categories[i].id = id
                   /\ \A j \in DOMAIN channels_.categories :
                        j > i => channels_.categories[j].id # id}

\* slot_of_category: emplace leaves an id that is there alone.
Slot(id) == {i \in DOMAIN channels_.categories :
               /\ channels_.categories[i].id = id
               /\ \A j \in 1 .. i - 1 : channels_.categories[j].id # id}

Matches(i, slots) ==
  \/ search = ""
  \/ channels_.channel_keys[i]
  \/ \E s \in slots : channels_.category_keys[s]

Group(category, channels) == [category |-> category, channels |-> channels]

\* A group for each category, and one past them for the channels whose
\* category was never declared.
NoGroups ==
  [k \in 1 .. Len(channels_.categories) + 1 |->
     Group(IF k \in DOMAIN channels_.categories THEN channels_.categories[k].id ELSE NoId,
           << >>)]

Into(slots) == IF slots = {} THEN Len(channels_.categories) + 1 ELSE CHOOSE s \in slots : TRUE

Place(groups, i) ==
  LET channel == channels_.channels[i]
      slots   == Slot(channel.category)
  IN  IF Matches(i, slots)
      THEN [groups EXCEPT ![Into(slots)] = Group(@.category, Append(@.channels, channel))]
      ELSE groups

\* std::erase_if of the groups that hold nothing.
Nonempty(groups) == MembersAt(groups, {k \in DOMAIN groups : groups[k].channels # << >>})

\* filtered: one pass over the channels.
Groups ==
  LET groups[n \in 0 .. Len(channels_.channels)] ==
        IF n = 0 THEN NoGroups ELSE Place(groups[n - 1], n)
  IN  groups

Filtered == Nonempty(Groups[Len(channels_.channels)])

-----------------------------------------------------------------------------

CatalogueNext ==
  \/ BeginFetch \/ ReadPiece \/ GetFails \/ CannotParse \/ TakeCategories \/ TakeChannels
  \/ TypeSearch \/ ForgetCatalogue

CatalogueSpec == CatalogueInit /\ [][CatalogueNext]_catalogueVars

-----------------------------------------------------------------------------
(* Properties.                                                             *)

\* Nothing arrives unless it was asked for, and no more than is sent; every
\* entry of the index has its key.
CatalogueTypeOK ==
  /\ request \in {"None", "Categories", "Streams"} /\ received \in 0 .. Pieces(sending)
  /\ request = "None" => sending = NotAList /\ received = 0
  /\ DOMAIN channels_.category_keys = DOMAIN channels_.categories
  /\ DOMAIN channels_.channel_keys = DOMAIN channels_.channels
  /\ search \in Searches

(* The browser shows of a catalogue that was received whole, both lists of *)
(* it, every channel that is searched for once: under the first category   *)
(* declared with its id, in the provider's order, those of no declared     *)
(* category last; a connection that breaks shows nothing of the new        *)
(* catalogue, and the search never looks at the names of an older one.     *)
BrowserShowsTheCatalogue ==
  LET Real(list)   == MembersAt(list, {i \in DOMAIN list : list[i].id # NoId})
      categories   == Real(indexed.categories)
      offers       == Real(indexed.channels)
      Home(ch)     == {c \in DOMAIN categories :
                         /\ categories[c].id = ch.category
                         /\ \A b \in 1 .. c - 1 : categories[b].id # ch.category}
      Found(ch)    == search = "" \/ ch.hit \/ \E c \in Home(ch) : categories[c].hit
      Under(homes) == MembersAt(offers, {i \in DOMAIN offers :
                                           Found(offers[i]) /\ Home(offers[i]) = homes})
      declared     == [c \in DOMAIN categories |-> Group(categories[c].id, Under({c}))]
  IN  Filtered = Nonempty(Append(declared, Group(NoId, Under({}))))
=============================================================================
