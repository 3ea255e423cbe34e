--------------------------------- MODULE MCLcd ---------------------------------
(* Small instances of Lcd for TLC. *)
EXTENDS Lcd

Display(x, y, format, tiled) == [x |-> x, y |-> y, format |-> format, tiled |-> tiled]

\* The watch's own display; one whose height is no multiple of a tile's; two
\* that are small in either direction, and one that is too flat; one whose
\* rectangle needs more than the heap; one with a format nobody knows.
SomeDisplays ==
    {Display(144, 168, "MONO01", FALSE), Display(90, 30, "MONO10", TRUE),
     Display(5, 23, "RGB_565", FALSE), Display(10, 24, "RGB_888", TRUE),
     Display(20, 4, "ARGB_8888", TRUE), Display(2000, 30, "BGR_565", FALSE),
     Display(144, 168, "unknown", FALSE)}

\* 1 and 50 of a hundred, the default, the largest that is not refused and the
\* next, and three around the wrap.
SomeDuties == {1, 50, 80, 100, 101, 1099, 1100, 1150}

===============================================================================
