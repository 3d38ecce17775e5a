--------------------------- MODULE MCAggkitProver ---------------------------
(* Instances of AggkitProver for TLC. *)
EXTENDS AggkitProver

Good(hash) == [keys |-> "elf", rollup_config_hash |-> hash]
SettingsOf(sequencer, name, first) ==
    [trustedSequencer |-> sequencer, selectedOpSuccinctConfigName |-> name,
     opSuccinctConfigs |-> [n1 |-> first, n2 |-> Good("h2")], updates |-> 0]

\* Two configurations, both good, and the first of them selected.
TwoConfigs == SettingsOf("s1", "n1", Good("h1"))

\* One of the settings changes: the sequencer, the selected name, or what the
\* selected configuration says, its keys included.
OneChanged ==
    {SettingsOf("s2", "n1", Good("h1")), SettingsOf("s1", "n2", Good("h1")),
     SettingsOf("s1", "n1", Good("h2")),
     SettingsOf("s1", "n1", [Good("h1") EXCEPT !.keys = "other"])}
=============================================================================
