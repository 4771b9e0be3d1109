------------------------------ MODULE Registry ------------------------------
(***************************************************************************)
(* The registers of a company: its vehicles, assets and their maintenance, *)
(* its suppliers, customers and warehouses, and the company itself.        *)
(*                                                                         *)
(* A row keeps its unique key (a plate, a serial number, a name, a code,   *)
(* or None) and isActive; nothing is ever deleted.  The look-up of a key   *)
(* before an insert or an update only answers earlier what the unique key  *)
(* of the table answers, and a row once found stays, so each handler is    *)
(* one step.                                                               *)
(***************************************************************************)
EXTENDS Integers, Sequences

CONSTANTS
    Keys,
    MaxRows,        \* bound of the model
    None

VARIABLE rows       \* the rows of the registers, as created

Kinds == {"vehicle", "asset", "maintenance", "supplier", "customer",
          "warehouse", "company"}
\* .. those whose update accepts isActive
Reactivable == Kinds \ {"warehouse", "company"}

Of(kinds) == {i \in DOMAIN rows : rows[i].kind \in kinds}

Init == rows = << >>

\* @@unique([companyId, plate]), ([companyId, serialNumber]), ([companyId,
\* name]) and ([companyId, code]), active or not; a null key is never taken.
FreeKey(kind, key, but) ==
    key = None \/ \A i \in Of({kind}) \ {but} : rows[i].key # key

Insert(kind, key, target) ==
    /\ Len(rows) < MaxRows
    /\ FreeKey(kind, key, 0)
    /\ rows' = Append(rows, [kind |-> kind, key |-> key, target |-> target,
                             active |-> TRUE])

\* An update gives a key, a flag, or both; what it leaves out stays.
Change(i, key, active) ==
    /\ FreeKey(rows[i].kind, key, i)
    /\ active # rows[i].active => active = FALSE \/ rows[i].kind \in Reactivable
    /\ rows' = [rows EXCEPT ![i].key = key, ![i].active = active]

\* DELETE of each register but the campaigns
Deactivate(i) == Change(i, rows[i].key, FALSE)

-----------------------------------------------------------------------------
CreateVehicle == \E plate \in Keys : Insert("vehicle", plate, 0)
UpdateVehicle(i) ==
    /\ i \in Of({"vehicle"})
    /\ \E plate \in Keys, active \in BOOLEAN : Change(i, plate, active)
DeactivateVehicle(i) == i \in Of({"vehicle"}) /\ Deactivate(i)

CreateAsset ==
    \E serialNumber \in Keys \cup {None} : Insert("asset", serialNumber, 0)
UpdateAsset(i) ==
    /\ i \in Of({"asset"})
    /\ \E serialNumber \in Keys \cup {rows[i].key}, active \in BOOLEAN :
          Change(i, serialNumber, active)
DeactivateAsset(i) == i \in Of({"asset"}) /\ Deactivate(i)

\* Mutant: a maintenance may have no target.
CreateUntargeted ==
    \E target \in Of({"vehicle", "asset"}) \cup {0} :
        Insert("maintenance", None, target)

\* assertExactlyOneTarget: a vehicle or an asset of the company, not both.
CreateMaintenance ==
    \E target \in Of({"vehicle", "asset"}) : Insert("maintenance", None, target)

\* The target stays the one of the creation.
UpdateMaintenance(i) ==
    /\ i \in Of({"maintenance"})
    /\ \E active \in BOOLEAN : Change(i, None, active)
DeactivateMaintenance(i) == i \in Of({"maintenance"}) /\ Deactivate(i)

CreateSupplier == \E name \in Keys : Insert("supplier", name, 0)
UpdateSupplier(i) ==
    /\ i \in Of({"supplier"})
    /\ \E name \in Keys, active \in BOOLEAN : Change(i, name, active)
DeactivateSupplier(i) == i \in Of({"supplier"}) /\ Deactivate(i)

CreateCustomer == Insert("customer", None, 0)
UpdateCustomer(i) ==
    /\ i \in Of({"customer"})
    /\ \E active \in BOOLEAN : Change(i, None, active)
DeactivateCustomer(i) == i \in Of({"customer"}) /\ Deactivate(i)

CreateWarehouse == \E code \in Keys : Insert("warehouse", code, 0)
UpdateWarehouse(i) ==
    /\ i \in Of({"warehouse"})
    /\ \E code \in Keys : Change(i, code, rows[i].active)
DeactivateWarehouse(i) == i \in Of({"warehouse"}) /\ Deactivate(i)

CreateCompany == Insert("company", None, 0)
\* update: the fields of a company have no part in the model.
DeactivateCompany(i) == i \in Of({"company"}) /\ Deactivate(i)

-----------------------------------------------------------------------------
\* The writing routes of the seven controllers.
FleetRoutes ==
    CreateVehicle
    \/ \E i \in DOMAIN rows : UpdateVehicle(i) \/ DeactivateVehicle(i)
AssetsRoutes ==
    CreateAsset \/ \E i \in DOMAIN rows : UpdateAsset(i) \/ DeactivateAsset(i)
MaintenanceRoutes ==
    CreateMaintenance
    \/ \E i \in DOMAIN rows : UpdateMaintenance(i) \/ DeactivateMaintenance(i)
SuppliersRoutes ==
    CreateSupplier
    \/ \E i \in DOMAIN rows : UpdateSupplier(i) \/ DeactivateSupplier(i)
CustomersRoutes ==
    CreateCustomer
    \/ \E i \in DOMAIN rows : UpdateCustomer(i) \/ DeactivateCustomer(i)
WarehousesRoutes ==
    CreateWarehouse
    \/ \E i \in DOMAIN rows : UpdateWarehouse(i) \/ DeactivateWarehouse(i)
CompaniesRoutes ==
    CreateCompany \/ \E i \in DOMAIN rows : DeactivateCompany(i)

Next ==
    \/ FleetRoutes \/ AssetsRoutes \/ MaintenanceRoutes \/ SuppliersRoutes
    \/ CustomersRoutes \/ WarehousesRoutes \/ CompaniesRoutes

Spec == Init /\ [][Next]_rows

-----------------------------------------------------------------------------
\* The rows have their types: a maintenance has its one target, of the right
\* kind.
TypeOK ==
    /\ rows \in Seq([kind : Kinds, key : Keys \cup {None}, target : Nat,
                     active : BOOLEAN])
    /\ \A i \in DOMAIN rows :
          IF rows[i].kind = "maintenance"
          THEN rows[i].target \in Of({"vehicle", "asset"})
          ELSE rows[i].target = 0
=============================================================================
