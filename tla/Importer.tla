------------------------------ MODULE Importer ------------------------------
(***************************************************************************)
(* The bulk product upload: a dry run that reports, and a run that writes  *)
(* all rows or none (src/apps/catalog/importer.py, catalog/signals.py,     *)
(* catalog/management/commands/import_products.py).                        *)
(*                                                                         *)
(* A row is what the two runs can tell apart: the product's SKU, the size  *)
(* and colour taken as one option, whether its fields parse, and its stock.*)
(* Staff may edit the catalogue between the two runs.                      *)
(***************************************************************************)
EXTENDS Integers, Sequences

CONSTANTS
  Sku,       \* product codes
  Option,    \* size and colour of a variant
  Label(_),  \* the slug of an option, the end of the variant's own SKU
  Stocks,    \* stock columns: negative, zero or positive
  MaxLines   \* bound: rows of a file

ASSUME ImporterAssumption ==
  /\ Stocks \subseteq Int
  /\ MaxLines \in Nat

SheetRow == [sku : Sku, option : Option, good : BOOLEAN, stock : Stocks]
File == UNION {[1 .. n -> SheetRow] : n \in 0 .. MaxLines}

VARIABLES
  products,  \* products of the catalogue
  variants,  \* its variants: <<sku, option>>
  shelves,   \* quantity_available of the variants
  file,      \* the uploaded file
  announced, \* the report of the dry run
  result,    \* the report of the real run
  edited     \* staff edited the catalogue in between

importVars == <<products, variants, shelves, file, announced, result, edited>>

\* ImportReport.
Report == [errors : Nat, newProducts : Nat, oldProducts : Nat,
           newVariants : Nat, oldVariants : Nat]
Blank == [errors |-> 0, newProducts |-> 0, oldProducts |-> 0,
          newVariants |-> 0, oldVariants |-> 0]
NoReport == [Blank EXCEPT !.errors = -1]

Key(row) == <<row.sku, row.option>>

\* Where a run stands: its report, what it has seen, and its writes.
Start(rows) ==
  [report |-> IF rows = <<>> THEN [Blank EXCEPT !.errors = 1] ELSE Blank,
   seenProducts |-> {}, seenVariants |-> {},
   products |-> products, variants |-> variants, shelves |-> shelves]

Refuse(run) == [run EXCEPT !.report.errors = @ + 1]

\* The dry run asks of the catalogue what the real run would find.
Counted(run, row) ==
  LET first == row.sku \notin run.seenProducts
      known == row.sku \in run.products
      there == Key(row) \in run.variants
  IN  [run EXCEPT
         !.seenProducts = @ \cup {row.sku},
         !.report.newProducts = @ + IF first /\ ~known THEN 1 ELSE 0,
         !.report.oldProducts = @ + IF first /\ known THEN 1 ELSE 0,
         !.report.newVariants = @ + IF there THEN 0 ELSE 1,
         !.report.oldVariants = @ + IF there THEN 1 ELSE 0]

\* Mutant: a product is counted once per row.
CountedPerRow(run, row) ==
  LET known == row.sku \in run.products
      there == Key(row) \in run.variants
  IN  [run EXCEPT
         !.seenProducts = @ \cup {row.sku},
         !.report.newProducts = @ + IF known THEN 0 ELSE 1,
         !.report.oldProducts = @ + IF known THEN 1 ELSE 0,
         !.report.newVariants = @ + IF there THEN 0 ELSE 1,
         !.report.oldVariants = @ + IF there THEN 1 ELSE 0]

\* A row of the real run is counted the same way.
CountedWritten(run, row) == Counted(run, row)

\* The variant's own SKU is unique, its stock may not be negative.
Writable(run, row) ==
  /\ \A v \in run.variants :
       v[1] = row.sku /\ v # Key(row) => Label(v[2]) # Label(row.option)
  /\ row.stock >= 0

\* update_or_create of both; a stock of zero leaves the shelf as it is, and
\* a variant that is new has an inventory row of its own.
RowWritten(run, row) ==
  [CountedWritten(run, row) EXCEPT
     !.products = @ \cup {row.sku},
     !.variants = @ \cup {Key(row)},
     !.shelves = IF row.stock > 0 THEN [@ EXCEPT ![Key(row)] = row.stock] ELSE @]

\* _run: a repeated variant and a bad row are errors, and the next row's turn.
RunRow(run, row, write) ==
  LET seen == [run EXCEPT !.seenVariants = @ \cup {Key(row)}]
  IN  IF Key(row) \in run.seenVariants THEN Refuse(run)
      ELSE IF ~row.good THEN Refuse(seen)
      ELSE IF ~write THEN Counted(seen, row)
      ELSE IF Writable(seen, row) THEN RowWritten(seen, row)
      ELSE Refuse(seen)

\* The rows in turn.
Run(rows, write) ==
  LET after[n \in 0 .. Len(rows)] ==
        IF n = 0 THEN Start(rows) ELSE RunRow(after[n - 1], rows[n], write)
  IN  after[Len(rows)]

ImporterInit ==
  /\ products \in SUBSET Sku
  /\ variants \in SUBSET (products \X Option)
  /\ \A v, w \in variants : v[1] = w[1] /\ Label(v[2]) = Label(w[2]) => v = w
  /\ shelves = [v \in Sku \X Option |-> 0]
  /\ file = <<>>
  /\ announced = NoReport /\ result = NoReport /\ edited = FALSE

\* preview: nothing is written.
Preview(rows) ==
  /\ announced = NoReport
  /\ file' = rows
  /\ announced' = Run(rows, FALSE).report
  /\ UNCHANGED <<products, variants, shelves, result, edited>>

\* commit: all rows, or the catalogue as it was.
CommitFile ==
  LET run == Run(file, TRUE)
  IN  /\ announced # NoReport /\ result = NoReport
      /\ result' = run.report
      /\ IF run.report.errors = 0
           THEN /\ products' = run.products /\ variants' = run.variants
                /\ shelves' = run.shelves
           ELSE UNCHANGED <<products, variants, shelves>>
      /\ UNCHANGED <<file, announced, edited>>

\* Staff add or take away a product or a variant.
EditCatalogue ==
  /\ edited' = TRUE
  /\ announced # NoReport /\ result = NoReport
  /\ \/ \E s \in Sku \ products : products' = products \cup {s}
                                   /\ UNCHANGED variants
     \/ \E v \in variants : variants' = variants \ {v} /\ UNCHANGED products
  /\ UNCHANGED <<shelves, file, announced, result>>

ImporterNext ==
  \/ \E rows \in File : Preview(rows)
  \/ CommitFile
  \/ EditCatalogue

ImporterSpec == ImporterInit /\ [][ImporterNext]_importVars

-----------------------------------------------------------------------------
(* Properties.                                                             *)

\* Types.
ImporterTypeOK ==
  /\ products \subseteq Sku
  /\ variants \subseteq products \X Option
  /\ shelves \in [Sku \X Option -> Nat]
  /\ file \in File
  /\ announced \in {NoReport} \cup Report /\ result \in {NoReport} \cup Report
  /\ edited \in BOOLEAN

\* With no edit between them, a file the dry run refuses the real run refuses,
\* and a file both accept does exactly what was announced; a file refused for
\* any row leaves no row behind (importer.py:10-13).  A label already taken and
\* a negative stock are found only by the real run.
PreviewPredicts ==
  result # NoReport /\ ~edited =>
    /\ announced.errors > 0 => result.errors > 0
    /\ announced.errors = 0 /\ result.errors = 0 => result = announced
=============================================================================
