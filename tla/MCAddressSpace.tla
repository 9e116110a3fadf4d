--------------------------- MODULE MCAddressSpace ---------------------------
(* Images: a plain one, one with a window, and the malformed ones.         *)
EXTENDS AddressSpace

Seg(first, last, perms, hole) ==
    [first |-> first, last |-> last, perms |-> perms, hole |-> hole]
Img(segs, entry, window) == [segs |-> segs, entry |-> entry, window |-> window]

Text == Seg(0, 0, {"R", "X"}, NoPage)
Data == Seg(1, 1, {"R", "W"}, NoPage)

MCImages ==
    {Img(<<Text, Data>>, 0, NoPage),
     Img(<<Text, Data>>, 0, 2),                             \* with a window
     Img(<<Text, Data>>, 0, 1),                             \* window collides
     Img(<<Text, Seg(0, 1, {"R", "W"}, NoPage)>>, 0, NoPage),   \* overlap
     Img(<<Seg(3, 4, {"R", "X"}, NoPage)>>, 3, NoPage),     \* into the kernel
     Img(<<Text, Seg(1, 1, RWX, NoPage)>>, 0, NoPage),      \* W and X
     Img(<<Text, Seg(1, 2, {"R"}, 2)>>, 0, NoPage),         \* past the image
     Img(<<Text, Seg(1, 1, {}, NoPage)>>, 0, NoPage),       \* no rights
     Img(<<>>, 0, NoPage),                                  \* bad headers
     Img(<<Data>>, 0, NoPage)}                              \* entry unmapped

=============================================================================
