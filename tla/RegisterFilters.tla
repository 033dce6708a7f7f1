-------------------------- MODULE RegisterFilters --------------------------
(***************************************************************************)
(* The filters of the forwarders: dataflow.RegisterFilter of a             *)
(* configuration and what mqttForwarders/filter.go puts around it.  A      *)
(* register is a record [name, kind]; its kind is the record of all        *)
(* that describes it: category, type, writable, the keys of its enum.      *)
(***************************************************************************)
CONSTANT AvailabilityName   \* device.AvailabilityRegisterName

\* dataflow.RegisterFilter: the name decides before the category, including
\* before skipping.
RegisterFilter(conf, r) ==
  \/ r.name \in conf.includeRegisters
  \/ /\ r.name \notin conf.skipRegisters
     /\ \/ r.kind.category \in conf.includeCategories
        \/ r.kind.category \notin conf.skipCategories /\ conf.defaultInclude

\* createRegisterValueFilter
RegisterValueFilter(conf, r) == r.name # AvailabilityName /\ RegisterFilter(conf, r)

\* createWritableAndRegisterValueFilter
WritableFilter(conf, r) == r.kind.writable /\ RegisterValueFilter(conf, r)
=============================================================================
