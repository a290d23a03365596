SPECIFICATION Spec
CONSTANTS
    run1 = run1
    run2 = run2
    run3 = run3
    file1 = file1
    file2 = file2
    text1 = text1
    text2 = text2
    Run = {run1, run2}
    Target = {file1, file2}
    Content = {text1, text2}
    Absent = Absent
PROPERTY ChangeSetLandsWhole
CHECK_DEADLOCK FALSE
