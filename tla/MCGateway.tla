----------------------------- MODULE MCGateway -----------------------------
(***************************************************************************)
(* Sections that are left out, right, or off by one of the settings that   *)
(* two sections must share or that one must bound, and lists of no source, *)
(* one, two, the same one twice, and one that is malformed.                *)
(***************************************************************************)
EXTENDS Gateway

Section(enabled, source_id, pipeline_id, requests, hour, day, wellformed) ==
    [enabled |-> enabled, source_id |-> source_id, pipeline_id |-> pipeline_id,
     max_requests_per_minute |-> requests, max_audio_seconds_per_hour |-> hour,
     max_audio_seconds_per_day |-> day, wellformed |-> wellformed]

\* The defaults of a section that is left out, and a full one.
LeftOut == Section(FALSE, Blank, Blank, 6, 300, 1800, TRUE)
Full == Section(TRUE, "study", "cloud", 6, 300, 1800, TRUE)

MCSectionChoices ==
    {LeftOut, Full,
     [Full EXCEPT !.pipeline_id = "local"],
     [Full EXCEPT !.max_audio_seconds_per_day = 300],
     [Full EXCEPT !.max_audio_seconds_per_day = 299],
     [Full EXCEPT !.max_requests_per_minute = 0],
     [Full EXCEPT !.source_id = "hall"]}

MCPassiveChoices ==
    {LeftOut, Full, [Full EXCEPT !.source_id = Blank], [LeftOut EXCEPT !.wellformed = FALSE]}

Camera(id, wellformed) == [id |-> id, wellformed |-> wellformed]

MCSourceChoices ==
    LET study == Camera("study", TRUE)
    IN  {<<>>, <<study>>, <<study, Camera("hall", TRUE)>>, <<study, study>>,
         <<Camera("study", FALSE)>>}
=============================================================================
