---------------------------- MODULE MCBookToSkill ----------------------------
(* Bounds for BookToSkill: two runs that may share a process id over three    *)
(* files, one of them of no supported extension; two sources through the      *)
(* chain of parsers; and small files for the parsers, detection and scan.     *)
EXTENDS BookToSkill

CONSTANTS r1, r2, p1, p2
Symmetry == Permutations({r1, r2}) \cup Permutations({p1, p2})

File(file) == [explicit |-> TRUE, files |-> {file}]
Many(files) == [explicit |-> FALSE, files |-> files]
MCSupported == {1, 2}
MCArguments == {<<File(2), Many({1, 2, 3})>>, <<File(3)>>}

(* Nothing installed, everything, and two halves that leave some formats only *)
(* their fallback.                                                            *)
MCSetups ==
  {{}, UNION {{"pdf_inspector", "pypdf", "pdfminer", "pdftotext", "docling", "ebooklib"},
              {"bs4", "docx", "trafilatura", "striprtf", "ebook_convert"}},
   {"pypdf", "bs4", "ebook_convert"}, {"pdftotext", "docling", "ebooklib", "trafilatura"}}
MCExts == {"pdf", "epub", "text", "html", "docx", "rtf", "calibre", "other"}
MCHeads == {"pdf", "docx", "epub", "unknown"}

MCPageLines == {"title", "text", "7"}

Line(is, mark, title, number, chapter, size) ==
  [kind |-> is, mark |-> mark, title |-> title, number |-> number,
   chapter |-> chapter, size |-> size]
MCLines ==
  {Line("fence", 1, "", 0, 0, 1), Line("fence", 2, "", 0, 0, 1),
   Line("fence", 1, "py", 0, 0, 1),
   Line("heading", 1, "a", 0, 0, 1), Line("heading", 2, "c", 0, 2, 1),
   Line("heading", 2, "1", 1, 0, 1), Line("heading", 2, "2", 2, 0, 1),
   Line("text", 0, "t", 0, 0, 2), Line("underline", 1, "", 0, 0, 2),
   Line("contents", 0, "toc", 0, 0, 1)}
=============================================================================
