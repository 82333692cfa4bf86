--------------------------- MODULE MCDriveArchive ---------------------------
(* Four sources of three items. Two entries of INDEX.md share a base slug, one
   has no directory; two files of lazarus, and of larql, are one experiment. *)
EXTENDS DriveArchive

MCItem(id, base, path, run, at, n) ==
  [id |-> id, base |-> base, path |-> path, ok |-> TRUE, run |-> run, at |-> at, results |-> n]

MCData ==
  [chris |-> << MCItem(1, "x", NULL, "historical", 0, 0), MCItem(2, "x", "d", "historical", 0, 1),
                MCItem(3, "x-2", "e", "historical", 0, 1) >>,
   mlx |-> << MCItem(1, "x", "d", "historical", 0, 1),
              [MCItem(2, "x-2", NULL, "historical", 0, 0) EXCEPT !.ok = FALSE],
              MCItem(3, "x", "e", "historical", 0, 0) >>,
   lazarus |-> << MCItem(1, "x", NULL, "r1", 2, 2), MCItem(2, "x", NULL, "r2", 1, 1), MCItem(3, "x", NULL, "r1", 3, 1) >>,
   larql |-> << MCItem(1, "x", NULL, "m", 0, 1), MCItem(2, "x-2", NULL, "m", 0, 1), MCItem(3, "x", NULL, "m", 0, 1) >>]

MCName == [b \in {"x", "x-2"} |->
  IF b = "x" THEN <<"x", "x-2", "x-3">> ELSE <<"x-2", "x-2-2", "x-2-3">>]

MCDir == [f \in Files |-> CASE f = "model" -> "d" [] f = "log" -> "e" [] f = "readme" -> Loose]
=============================================================================
