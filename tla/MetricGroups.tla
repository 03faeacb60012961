---------------------------- MODULE MetricGroups ----------------------------
(***************************************************************************)
(* What the modules of the handlers' buckets share.  A metric is a pair of *)
(* the part of the bucket it is in ("all", or a direction, a device, a     *)
(* target) and its name; a configuration has the enabled groups.           *)
(***************************************************************************)
EXTENDS Naturals

\* group_enabled
InGroup(config, group, metrics) == IF group \in config.groups THEN metrics ELSE {}

\* What process_groups may leave enabled, sampled: all, none, all but one.
GroupChoices(groups) == {groups, {}} \cup {groups \ {g} : g \in groups}

All(names) == {"all"} \X names

If(condition, metrics) == IF condition THEN metrics ELSE {}

\* The records that differ from e in one field at most; fields gives the
\* values of each field.  Sampled events vary two fields of a plain one.
Vary(fields, e) == UNION {{[e EXCEPT ![f] = v] : v \in fields[f]} : f \in DOMAIN fields}

\* The base class's metrics that the handler's exporters write.
BaseMetrics == {"base"} \X {"events", "deep_samples", "event_rate"}
=============================================================================
