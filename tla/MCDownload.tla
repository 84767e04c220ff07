------------------------------- MODULE MCDownload -------------------------------
(* The run of Download: pictures of two heights, one of them with sound, and   *)
(* sound alone.                                                                *)
EXTENDS Download

Format(id, height, video, audio, mp4) ==
    [id |-> id, height |-> height, video |-> video, audio |-> audio, mp4 |-> mp4]

MCFormats == {Format("v1080", 1080, TRUE, FALSE, TRUE), Format("v720", 720, TRUE, FALSE, FALSE),
              Format("a", 0, FALSE, TRUE, TRUE), Format("c1080", 1080, TRUE, TRUE, TRUE)}
===============================================================================
