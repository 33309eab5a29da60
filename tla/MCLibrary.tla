----------------------------- MODULE MCLibrary -----------------------------
(* Small instances of Library: files a and b in one directory, zip member c in another;   *)
(* and of Images: two images.                                                              *)
EXTENDS Images

Order == <<"a", "b", "c">>
Tops2 == <<"top", "sub">>
In    == [p \in Paths |-> IF p = "c" THEN "top" ELSE "sub"]
Size  == [c \in Contents |-> IF c \in {"x", "v", "b"} THEN 1 ELSE IF c = "y" THEN 2 ELSE 3]
Title == [r \in Roms |-> "t"]
Name  == [r \in Roms |-> IF r = 1 THEN "a" ELSE "b"]

On(a, b, c) == [p \in Paths |-> IF p = "a" THEN a ELSE IF p = "b" THEN b ELSE c]
List(x, y)  == [r \in Roms |-> IF r = 1 THEN x ELSE y]
Both  == List("x", "y")
First == List("x", None)
Empty == List(None, None)

Case(disc, files, known, list, loads, copies, spent) ==
    [disc |-> disc, within |-> [d \in Dirs |-> IF disc THEN {"top", d} ELSE {d}],
     disk |-> files, known |-> known, list |-> list, loads |-> loads, copies |-> copies,
     budget |-> [e \in Events |-> IF e \in DOMAIN spent THEN spent[e] ELSE 0]]

\* Files come, change and go.
Copied == Case(FALSE, On("x", None, "y"), TRUE, Both, {}, {<<"b", "x">>, <<"c", "w">>},
               [copy |-> 2, delete |-> 1, kill |-> 1])
\* DATs are loaded over files nobody matched; cores hold the scan.
Loaded == Case(FALSE, On("x", "y", "y"), FALSE, Empty, {First, Both}, {},
               [load |-> 2, kill |-> 1])
\* A DAT is removed and loaded again.
Removed == Case(FALSE, On("x", "w", "y"), TRUE, Both, {First}, {},
                [remove |-> 1, load |-> 1, hold |-> 1])
\* A misnamed file is renamed.
Renamed == Case(FALSE, On("y", None, "x"), TRUE, Both, {}, {}, [rename |-> 1, delete |-> 1, kill |-> 1, unread |-> 1])
\* A misnamed file is renamed to a name whose row was left, while scans come and go.
Raced   == Case(FALSE, On("y", "y", "x"), TRUE, Both, {}, {},
                [rename |-> 1, delete |-> 1, shut |-> 1, cancel |-> 1])
\* Directories that cannot be read, scans that are cancelled and killed.
Closed == Case(FALSE, On("x", "y", "w"), TRUE, Both, {}, {}, [shut |-> 2, kill |-> 1, cancel |-> 1])
\* A disc of two tracks, whose files come and go, whose DAT is loaded late and dropped.
Disc  == Case(TRUE, On("x", None, "w"), FALSE, Empty, {Both}, {<<"b", "y">>},
              [copy |-> 1, load |-> 1, unread |-> 1])
Disc2 == Case(TRUE, On("x", "y", "w"), TRUE, Both, {}, {<<"a", "y">>},
              [shut |-> 1, copy |-> 1, delete |-> 1, kill |-> 1])

\* A directory of a disc platform that is emptied, and cannot be read.
Emptied == Case(TRUE, On("x", None, "w"), TRUE, First, {}, {}, [delete |-> 1, shut |-> 2, cancel |-> 1])

\* Images: contents x, y and w, v as long as x, b a copy of x under way and h no CHD at all.
Head1 == [c \in Contents |-> IF c = "b" THEN "x" ELSE c]
ImageCase(list, loads, spent) == Case(TRUE, On(None, None, None), FALSE, list, loads, {}, spent)
Second  == List(None, "y")

\* A DAT is loaded, then another, under images that wait for their layout.
Awaited == ImageCase(Empty, {First, Second}, [load |-> 2, kill |-> 1])
\* The setting is turned on and off.
Turned  == ImageCase(First, {}, [toggle |-> 2, hold |-> 1, cancel |-> 1, unread |-> 1])
\* Images are copied, over another one too, and taken away.
Swapped == ImageCase(First, {}, [put |-> 2, delete |-> 1, kill |-> 1])

AllCases == {Copied, Loaded, Removed, Renamed, Raced, Closed, Disc, Disc2, Emptied, Awaited, Turned, Swapped}

At(a, b) == [i \in Images |-> IF i = 1 THEN a ELSE b]
On1(files, set, puts) == [img |-> files, on |-> set, puts |-> puts]
Images0 == [k \in AllCases |->
    IF k = Awaited THEN On1(At("x", "y"), TRUE, {})
    ELSE IF k = Turned THEN On1(At("v", "w"), FALSE, {})
    ELSE IF k = Swapped THEN On1(At("b", None), TRUE, {<<1, "x">>, <<2, "h">>})
    ELSE On1(At(None, None), FALSE, {})]

=============================================================================
