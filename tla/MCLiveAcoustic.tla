---- MODULE MCLiveAcoustic ----
(* Instances of LiveAcoustic: a complete command line and its neighbours. *)
EXTENDS LiveAcoustic

MCTexts == {"open", "shut"}

Ready == ApplyNeeds \cup {"apply", "scene_context"}
Line(given, engine) == [given |-> given, engine |-> engine]

\* Live and dry runs, recorded and spoken, then one flag or model off.
MCCommands ==
  {Line(g, "ctc") : g \in {Ready, Ready \cup {"wav", "fixture_manifest", "require_human_fixture"},
                           {}}}
  \cup {Line(Ready \ {f}, "ctc") : f \in Ready \ {"apply"}}
  \cup {Line(Ready \cup {f}, "ctc") :
          f \in {"world_snapshot", "fixture_manifest", "require_human_fixture", "print_commands"}}
  \cup {Line(Ready, e) : e \in {"none", "paraformer_without_decoder"}}

====
