------------------------------- MODULE Catalog -------------------------------
(***************************************************************************)
(* ProductsService, ProductTypesService and CategoriesService: the codes   *)
(* of categories and types, the reference CATEGORY-TYPE-NNN of a product   *)
(* drawn from them and from the counter of its type, and the import of     *)
(* products from a spreadsheet.                                            *)
(*                                                                         *)
(* The rows of a table are a sequence in the order of their creation:      *)
(* nothing is deleted.  A category is its name, which the model does not   *)
(* change; a code is its number, 1 for the base the import draws from a    *)
(* name and n for the base followed by n.  The look-up of a code before an *)
(* insert or an update of a category or type only answers earlier what the *)
(* unique keys answer, so each of those handlers is one step.              *)
(* The deactivations, which no other handler looks at, and the ENTRY       *)
(* movement of an imported product, nobody else's yet, are left out.       *)
(***************************************************************************)
EXTENDS Integers, Sequences, FiniteSetsExt

CONSTANTS
    Requests,
    CategoryNames, TypeNames,
    Codes,          \* the codes a client may give
    Given,          \* the categories there at start, with their codes
    ImportRows,     \* the file: <<category, type>> of each row
    MaxTypes, MaxProducts, MaxRecoded,  \* bounds of the model
    None

VARIABLES
    categories,     \* Category.code by name
    types,          \* the rows of ProductType
    products,       \* the rows of Product; issuer is auxiliary: the category
                    \* and the type that gave the reference
    stage, job,
    recoded,        \* auxiliary: the categories whose code, and the types whose
                    \* code or category, has changed
    moved,          \* auxiliary: the types whose category has changed
    raced           \* auxiliary: the products updated from a stale read, and
                    \* the imports beside which the catalogue has changed

vars == <<categories, types, products, stage, job, recoded, moved, raced>>

Sku == (Nat \ {0}) \X (Nat \ {0}) \X Nat
Type == [category : CategoryNames, name : TypeNames, code : Nat \ {0},
         nextProductSeq : Nat \ {0}]
Product == [category : CategoryNames, type : Nat \ {0}, sku : Sku,
            issuer : CategoryNames \X (Nat \ {0})]

NoJob == [kind |-> "none", category |-> None, categoryCode |-> 0, type |-> 0,
          typeCode |-> 0, product |-> 0, old |-> None,
          codes |-> << >>, known |-> {}, row |-> 0, errors |-> {}]

Init ==
    /\ categories = Given
    /\ types = << >>
    /\ products = << >>
    /\ stage = [r \in Requests |-> "idle"]
    /\ job = [r \in Requests |-> NoJob]
    /\ recoded = {}
    /\ moved = {}
    /\ raced = {}

Existing == {name \in CategoryNames : categories[name] # None}
TypesOf(category) == {t \in DOMAIN types : types[t].category = category}

\* The imports that are running: a change beside them marks them.
Importing(but) == {r \in Requests \ {but} : job[r].kind = "import"
                                           /\ stage[r] # "done"}
Touch(but) == raced' = raced \cup Importing(but)

-----------------------------------------------------------------------------
\* @@unique([companyId, code]) and @@unique([companyId, name])
FreeCategoryCode(code) == \A name \in Existing : categories[name] # code

AddCategory(name, code) ==
    /\ name \notin Existing
    /\ FreeCategoryCode(code)
    /\ categories' = [categories EXCEPT ![name] = code]

\* @@unique([companyId, categoryId, name]) and (.., code), of another row
FreeInCategory(t, category, name, code) ==
    \A other \in TypesOf(category) \ {t} :
        types[other].name # name /\ types[other].code # code

AddType(category, name, code) ==
    /\ Len(types) < MaxTypes
    /\ FreeInCategory(0, category, name, code)
    /\ types' = Append(types, [category |-> category, name |-> name,
                               code |-> code, nextProductSeq |-> 1])

\* POST /categories
CreateCategory(name, code) ==
    /\ AddCategory(name, code)
    /\ Touch(None)
    /\ UNCHANGED <<types, products, stage, job, recoded, moved>>

\* PATCH /categories/:id
UpdateCategory(name, code) ==
    /\ name \in Existing
    /\ FreeCategoryCode(code)
    /\ categories' = [categories EXCEPT ![name] = code]
    /\ recoded' = recoded \cup {<<name, 0>>}
    /\ Touch(None)
    /\ Cardinality(recoded') <= MaxRecoded
    /\ UNCHANGED <<types, products, stage, job, moved>>

\* POST /product-types
CreateType(category, name, code) ==
    /\ category \in Existing
    /\ AddType(category, name, code)
    /\ Touch(None)
    /\ UNCHANGED <<categories, products, stage, job, recoded, moved>>

\* PATCH /product-types/:id: the code, the category, or both.
UpdateType(t, category, code) ==
    /\ category \in Existing
    /\ <<category, code>> # <<types[t].category, types[t].code>>
    /\ FreeInCategory(t, category, types[t].name, code)
    /\ types' = [types EXCEPT ![t].category = category, ![t].code = code]
    /\ recoded' = recoded \cup {<<None, t>>}
    /\ moved' = IF category # types[t].category THEN moved \cup {t} ELSE moved
    /\ Cardinality(recoded') <= MaxRecoded
    /\ Touch(None)
    /\ UNCHANGED <<categories, products, stage, job>>

-----------------------------------------------------------------------------
\* Mutant: the number is the counter after its increment.
SeqAfterIncrement(t) == types[t].nextProductSeq + 1

\* claimSku: the counter as it was before its atomic increment.
ClaimedSeq(t) == types[t].nextProductSeq

FreeSku(sku) == \A p \in DOMAIN products : products[p].sku # sku

\* The transaction: the increment and the insert, both or, when the reference
\* is taken (P2002), neither.
AddProduct(category, categoryCode, t, typeCode) ==
    LET sku == <<categoryCode, typeCode, ClaimedSeq(t)>>
    IN  /\ Len(products) < MaxProducts
        /\ FreeSku(sku)
        /\ products' = Append(products, [category |-> category, type |-> t,
                                         sku |-> sku,
                                         issuer |-> <<category, t>>])
        /\ types' = [types EXCEPT ![t].nextProductSeq = @ + 1]

\* POST /products: getCategoryOrThrow.
ReadCategory(r, category) ==
    /\ stage[r] = "idle"
    /\ category \in Existing
    /\ job' = [job EXCEPT ![r].kind = "create", ![r].category = category,
                          ![r].categoryCode = categories[category]]
    /\ stage' = [stage EXCEPT ![r] = "readType"]
    /\ UNCHANGED <<categories, types, products, recoded, moved, raced>>

\* getTypeOrThrow: the type must belong to the category.
ReadType(r, t) ==
    /\ stage[r] = "readType"
    /\ types[t].category = job[r].category
    /\ job' = [job EXCEPT ![r].type = t, ![r].typeCode = types[t].code]
    /\ stage' = [stage EXCEPT ![r] = "insert"]
    /\ UNCHANGED <<categories, types, products, recoded, moved, raced>>

CreateProduct(r) ==
    /\ stage[r] = "insert"
    /\ AddProduct(job[r].category, job[r].categoryCode,
                  job[r].type, job[r].typeCode)
    /\ stage' = [stage EXCEPT ![r] = "done"]
    /\ job' = [job EXCEPT ![r] = NoJob]
    /\ Touch(r)
    /\ UNCHANGED <<categories, recoded, moved>>

-----------------------------------------------------------------------------
\* Mutant: a new category alone is not checked against the type kept.
AdmitsAnyCategory(product, category, t) ==
    \/ t # None /\ types[t].category =
                     (IF category # None THEN category ELSE product.category)
    \/ t = None

\* The checks of update: a type given must belong to the category given or
\* kept; the type kept must belong to a category given.
Admits(product, category, t) ==
    \/ t # None /\ types[t].category =
                     (IF category # None THEN category ELSE product.category)
    \/ t = None /\ category # None /\ types[product.type].category = category

\* PATCH /products/:id: the reads and the checks, then the write.
ReadProduct(r, p, category, t) ==
    /\ stage[r] = "idle"
    /\ Admits(products[p], category, t)
    /\ job' = [job EXCEPT ![r].kind = "update", ![r].product = p,
                          ![r].category = category,
                          ![r].type = IF t = None THEN 0 ELSE t,
                          ![r].old = products[p]]
    /\ stage' = [stage EXCEPT ![r] = "write"]
    /\ UNCHANGED <<categories, types, products, recoded, moved, raced>>

UpdateProduct(r) ==
    LET p == job[r].product
        category == IF job[r].category = None THEN products[p].category
                                              ELSE job[r].category
        t == IF job[r].type = 0 THEN products[p].type ELSE job[r].type
    IN  /\ stage[r] = "write"
        /\ products' = [products EXCEPT ![p].category = category, ![p].type = t]
        /\ raced' = raced \cup Importing(r)
                          \cup (IF products[p] # job[r].old THEN {p} ELSE {})
        /\ stage' = [stage EXCEPT ![r] = "done"]
        /\ job' = [job EXCEPT ![r] = NoJob]
        /\ UNCHANGED <<categories, types, recoded, moved>>

-----------------------------------------------------------------------------
\* POST /products/import: the categories by name, then the types by name
\* within their category.  known holds the types the import can use, as read.
ReadCategories(r) ==
    /\ stage[r] = "idle"
    /\ ImportRows # << >>
    /\ job' = [job EXCEPT ![r].kind = "import", ![r].codes = categories,
                          ![r].row = 1]
    /\ stage' = [stage EXCEPT ![r] = "readTypes"]
    /\ UNCHANGED <<categories, types, products, recoded, moved, raced>>

AsRead(t) == [id |-> t, category |-> types[t].category,
              name |-> types[t].name, code |-> types[t].code]

ReadTypes(r) ==
    /\ stage[r] = "readTypes"
    /\ job' = [job EXCEPT ![r].known = {AsRead(t) : t \in DOMAIN types}]
    /\ stage' = [stage EXCEPT ![r] = "rows"]
    /\ UNCHANGED <<categories, types, products, recoded, moved, raced>>

\* Mutant: the base of the name, whatever is taken.
BaseCodeOnly(taken) == 1

\* generateUniqueCode
UniqueCode(taken) == Min((1 .. Cardinality(taken) + 1) \ taken)

KnownCategory(r) == job[r].codes[ImportRows[job[r].row][1]] # None
CategoryCodes(r) == {job[r].codes[c] : c \in CategoryNames} \ {None}
KnownOf(r) == {k \in job[r].known : k.category = ImportRows[job[r].row][1]}
KnownTypes(r) == {k \in KnownOf(r) : k.name = ImportRows[job[r].row][2]}

\* The next row.  Whatever fails in a row is one error of the result.
NextRow(r, errors) ==
    IF job[r].row = Len(ImportRows)
    THEN /\ stage' = [stage EXCEPT ![r] = "done"]
         /\ job' = [job EXCEPT ![r] = [NoJob EXCEPT !.kind = "import",
                                                    !.errors = errors]]
    ELSE /\ job' = [job EXCEPT ![r].row = @ + 1, ![r].errors = errors]
         /\ UNCHANGED stage

RowFails(r) ==
    /\ NextRow(r, job[r].errors \cup {job[r].row})
    /\ UNCHANGED <<categories, types, products, recoded, moved, raced>>

ImportCategory(r) ==
    LET name == ImportRows[job[r].row][1]
        code == UniqueCode(CategoryCodes(r))
    IN  /\ stage[r] = "rows"
        /\ ~KnownCategory(r)
        /\ \/ /\ AddCategory(name, code)
              /\ job' = [job EXCEPT ![r].codes[name] = code]
              /\ Touch(r)
              /\ UNCHANGED <<types, products, stage, recoded, moved>>
           \/ ~(name \notin Existing /\ FreeCategoryCode(code)) /\ RowFails(r)

ImportType(r) ==
    LET category == ImportRows[job[r].row][1]
        name == ImportRows[job[r].row][2]
        code == UniqueCode({k.code : k \in KnownOf(r)})
    IN  /\ stage[r] = "rows"
        /\ KnownCategory(r)
        /\ KnownTypes(r) = {}
        /\ \/ /\ AddType(category, name, code)
              /\ job' = [job EXCEPT ![r].known = @ \cup
                           {[id |-> Len(types) + 1, category |-> category,
                             name |-> name, code |-> code]}]
              /\ Touch(r)
              /\ UNCHANGED <<categories, products, stage, recoded, moved>>
           \/ ~FreeInCategory(0, category, name, code) /\ RowFails(r)

ImportProduct(r) ==
    \E k \in KnownTypes(r) :
        LET code == job[r].codes[k.category]
        IN  /\ stage[r] = "rows"
            /\ KnownCategory(r)
            /\ \/ /\ AddProduct(k.category, code, k.id, k.code)
                  /\ NextRow(r, job[r].errors)
                  /\ Touch(r)
                  /\ UNCHANGED <<categories, recoded, moved>>
               \/ /\ ~FreeSku(<<code, k.code, ClaimedSeq(k.id)>>)
                  /\ RowFails(r)

\* A read that finds nothing, a check or a unique key that refuses, or a
\* failure: the request ends and its transaction leaves nothing.
Refuse(r) ==
    /\ stage[r] \in {"readType", "insert", "write"}
    /\ stage' = [stage EXCEPT ![r] = "done"]
    /\ job' = [job EXCEPT ![r] = NoJob]
    /\ UNCHANGED <<categories, types, products, recoded, moved, raced>>

\* The writing routes of CategoriesController and ProductTypesController.
CategoriesRoutes ==
    \E name \in CategoryNames, code \in Codes :
        CreateCategory(name, code) \/ UpdateCategory(name, code)

ProductTypesRoutes ==
    \E category \in CategoryNames, code \in Codes :
        \/ \E name \in TypeNames : CreateType(category, name, code)
        \/ \E t \in DOMAIN types : UpdateType(t, category, code)

Next ==
    \/ CategoriesRoutes
    \/ ProductTypesRoutes
    \/ \E r \in Requests :
         \/ \E category \in CategoryNames : ReadCategory(r, category)
         \/ \E t \in DOMAIN types : ReadType(r, t)
         \/ CreateProduct(r)
         \/ \E p \in DOMAIN products, category \in CategoryNames \cup {None},
               t \in DOMAIN types \cup {None} : ReadProduct(r, p, category, t)
         \/ UpdateProduct(r)
         \/ ReadCategories(r)
         \/ ReadTypes(r)
         \/ ImportCategory(r)
         \/ ImportType(r)
         \/ ImportProduct(r)
         \/ Refuse(r)

Spec == Init /\ [][Next]_vars

-----------------------------------------------------------------------------
TypeOK ==
    /\ categories \in [CategoryNames -> (Nat \ {0}) \cup {None}]
    /\ types \in Seq(Type)
    /\ products \in Seq(Product)
    /\ \A p \in DOMAIN products : products[p].type \in DOMAIN types
    /\ stage \in [Requests -> {"idle", "readType", "insert", "write",
                               "readTypes", "rows", "done"}]
    /\ recoded \subseteq ((CategoryNames \cup {None}) \X Nat)
    /\ moved \subseteq DOMAIN types
    /\ raced \subseteq Requests \cup DOMAIN products

\* previewNextSku: the reference shown for the next product of a type.
NextSku(t) == <<categories[types[t].category], types[t].code,
                types[t].nextProductSeq>>

\* The reference the next product of a type will be given is free ("la
\* référence réellement attribuée à la création reste garantie sans doublon"):
\* it is held only by a product of another type, which has changed its code or
\* its category since, or whose category has changed its code.  A held one
\* stays in the way, for its refusal takes the counter back.
NextSkuIsFree ==
    \A t \in DOMAIN types, p \in DOMAIN products :
        products[p].sku = NextSku(t) =>
            LET issuer == products[p].issuer
            IN  /\ issuer[2] # t
                /\ {<<issuer[1], 0>>, <<None, issuer[2]>>} \cap recoded # {}

\* A product's type belongs to its category ("un type doit toujours appartenir
\* à la catégorie de son article"), whatever updates and imports run, as long
\* as that type is not itself moved and no update of the product was written
\* over another.
CleanTypeInCategory ==
    \A p \in DOMAIN products \ raced :
        products[p].type \notin moved =>
            products[p].category = types[products[p].type].category

\* An import beside which nothing changes refuses no row: the codes it makes
\* up for categories and types are free, also of those it has just created,
\* unless references were left behind by codes that changed.
CleanImportRefusesNone ==
    \A r \in Requests \ raced :
        job[r].kind = "import" /\ recoded = {} => job[r].errors = {}

=============================================================================
