------------------------------- MODULE Listing -------------------------------
(***************************************************************************)
(* The product listing: what a category or a search shows, the choices its *)
(* sidebar offers, and what is left once the shopper ticks some            *)
(* (src/apps/catalog/filters.py, catalog/search.py, catalog/views.py,      *)
(* catalog/models.py, catalog/admin.py), while staff edit the catalogue.   *)
(*                                                                         *)
(* A selection is a function from the questions of the sidebar to the      *)
(* values ticked; prices, sorting and pages are left out.                  *)
(***************************************************************************)
EXTENDS Integers, FiniteSets

CONSTANTS
  Item,         \* products: [category, brand, name]
  Piece,        \* variants: [item, size, color]
  Shelf,        \* categories, each with the set of its children
  Tag,          \* attribute values: [code, value]
  Term,         \* search terms
  Hits(_, _)    \* a product matches a term

VARIABLES
  live,       \* products that are published and active
  sold,       \* variants with nothing left to sell
  active,     \* variants on sale
  tags,       \* ProductAttribute: <<product, tag>>
  listing,    \* what the page in front of the shopper was built from
  ticked,     \* what the shopper ticked on it
  found       \* the products it then showed

listVars == <<live, sold, active, tags, listing, ticked, found>>
catalogue == <<live, sold, active, tags>>

Question == {"brand", "size", "color", "availability"} \cup {t.code : t \in Tag}

NoneTicked == [q \in Question |-> {}]
NoListing == [category |-> "all", term |-> "none", asked |-> FALSE]

\* Category.descendant_ids: the category and ten levels below it.
Below[n \in 0 .. 10] ==
  [c \in DOMAIN Shelf |->
     IF n = 0 THEN {c}
     ELSE {c} \cup UNION {Below[n - 1][child] : child \in Shelf[c]}]

\* get_base_queryset and search_products: published products of the category's
\* subtree that match the term; an empty term matches all.
Base(category, term) ==
  {i \in live :
     /\ category = "all" \/ i.category \in Below[10][category]
     /\ term = "none" \/ Hits(term, i)}

OnSale(i) == {p \in active : p.item = i}

\* One filter() of apply_filters.  Each joins the variants or the tags anew:
\* size and colour may be met by different variants of a product.
Meets(i, q, values) ==
  \/ values = {}
  \/ CASE q = "brand" -> i.brand \in values
       [] q = "size" -> \E p \in OnSale(i) : p.size \in values
       [] q = "color" -> \E p \in OnSale(i) : p.color \in values
       [] q = "availability" -> \E p \in OnSale(i) : p \notin sold
       [] OTHER -> \E t \in Tag : /\ t.code = q /\ t.value \in values
                                  /\ <<i, t>> \in tags

\* apply_filters: the answers to one question widen, the questions narrow.
ApplyFilters(base, selection) ==
  {i \in base : \A q \in Question : Meets(i, q, selection[q])}

\* Mutant: the variants of the sidebar are not asked whether they are on sale.
FacetPiecesAll(base) == {p \in Piece : p.item \in base}

\* facet_options: the variants whose sizes and colours the sidebar lists.
FacetPieces(base) == {p \in active : p.item \in base}

\* facet_options and attribute_facets: the values in use among the products of
\* the page before anything was ticked.
Facets(base) ==
  [q \in Question |->
     CASE q = "brand" -> {i.brand : i \in base} \ {""}
       [] q = "size" -> {p.size : p \in FacetPieces(base)} \ {""}
       [] q = "color" -> {p.color : p \in FacetPieces(base)} \ {""}
       [] q = "availability" -> {}
       [] OTHER -> {t.value : t \in {u \in Tag : u.code = q /\
                                       \E i \in base : <<i, u>> \in tags}}]

\* How many products the sidebar says an answer has (brands and tags).
CountOf(base, q, value) ==
  IF q = "brand" THEN Cardinality({i \in base : i.brand = value})
  ELSE Cardinality({i \in base : \E t \in Tag :
                      t.code = q /\ t.value = value /\ <<i, t>> \in tags})

ListingInit ==
  /\ live = Item /\ sold = {} /\ active = Piece
  /\ tags \in SUBSET (Item \X Tag)
  /\ listing = NoListing /\ ticked = NoneTicked /\ found = {}

\* Staff publish or archive, switch a variant on or off, tag a product.
Toggle(set, x) == IF x \in set THEN set \ {x} ELSE set \cup {x}

PublishOrArchive(i) ==
  /\ live' = Toggle(live, i)
  /\ UNCHANGED <<sold, active, tags, listing, ticked, found>>

SwitchVariant(p) ==
  /\ active' = Toggle(active, p)
  /\ UNCHANGED <<live, sold, tags, listing, ticked, found>>

SellOutOrRestock(p) ==
  /\ sold' = Toggle(sold, p)
  /\ UNCHANGED <<live, active, tags, listing, ticked, found>>

\* The page is opened, with nothing ticked.
Open(category, term) ==
  /\ listing' = [category |-> category, term |-> term, asked |-> TRUE]
  /\ ticked' = NoneTicked
  /\ found' = Base(category, term)
  /\ UNCHANGED catalogue

\* One more answer is ticked, and the page built again.
Tick(q, value) ==
  /\ listing.asked
  /\ value \notin ticked[q]
  /\ ticked' = [ticked EXCEPT ![q] = @ \cup {value}]
  /\ found' = ApplyFilters(Base(listing.category, listing.term), ticked')
  /\ UNCHANGED <<catalogue, listing>>

ListingNext ==
  \/ \E i \in Item : PublishOrArchive(i)
  \/ \E p \in Piece : SwitchVariant(p) \/ SellOutOrRestock(p)
  \/ \E category \in DOMAIN Shelf \cup {"all"}, term \in Term \cup {"none"} :
       Open(category, term)
  \/ \E q \in Question :
       \E value \in Facets(Base(listing.category, listing.term))[q]
                    \cup {v \in {"in_stock"} : q = "availability"} :
         Tick(q, value)

ListingSpec == ListingInit /\ [][ListingNext]_listVars

-----------------------------------------------------------------------------
(* Properties.                                                             *)

\* Types.
ListingTypeOK ==
  /\ live \subseteq Item /\ active \subseteq Piece /\ sold \subseteq Piece
  /\ found \subseteq Item
  /\ ticked \in [Question -> SUBSET ({i.brand : i \in Item}
                   \cup {p.size : p \in Piece} \cup {p.color : p \in Piece}
                   \cup {t.value : t \in Tag} \cup {"in_stock"})]

\* Whatever staff did to the catalogue, every answer the sidebar offers, taken
\* alone, leaves a page that is not empty, and the count beside a brand or an
\* attribute value is the number of products on it (filters.py:297-301:
\* "Offering a value nothing matches is a dead end").
NoDeadEnds ==
  LET base == Base(listing.category, listing.term)
  IN  \A q \in Question : \A value \in Facets(base)[q] :
        LET page == ApplyFilters(base, [NoneTicked EXCEPT ![q] = {value}])
        IN  /\ page # {}
            /\ q \notin {"size", "color"} =>
                 CountOf(base, q, value) = Cardinality(page)
=============================================================================
